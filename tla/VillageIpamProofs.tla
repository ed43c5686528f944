------------------------- MODULE VillageIpamProofs -------------------------
(***************************************************************************)
(* Proofs about the ConfigMap client of the village-ipam plugin, for any   *)
(* number of containers and any ranges.                                    *)
(***************************************************************************)
EXTENDS VillageIpam, SequenceTheorems, WellFoundedInduction, TLAPS

-----------------------------------------------------------------------------
(* The choice of addresses.                                                *)

\* Every non-empty set of naturals has a least element.
LEMMA LeastNat ==
  ASSUME NEW T \in SUBSET Nat, T # {}
  PROVE  \E x \in T : \A y \in T : x <= y
<1> DEFINE R == {ss \in Nat \X Nat : ss[1] < ss[2]}
<1>1. R = OpToRel(<, Nat)
  BY DEF OpToRel
<1>2. IsWellFoundedOn(R, Nat)
  BY <1>1, NatLessThanWellFounded
<1> HIDE DEF R
<1>3. PICK x \in T : \A y \in T : ~(<<y, x>> \in R)
  BY <1>2, WFMin
<1>4. \A y \in T : ~(y < x)
  BY <1>3 DEF R
<1> QED
  BY <1>4

(***************************************************************************)
(* The search of a range answers "<nil>" or an address of the range that   *)
(* is not taken (the loop of AssignIp).                                    *)
(***************************************************************************)
LEMMA FreeIpFacts ==
  ASSUME NEW i \in DOMAIN Interfaces, NEW taken
  PROVE  FreeIp(Interfaces[i], taken) \in {Nil} \cup (Ips \ taken)
<1> DEFINE r == Interfaces[i]
           free == (getMin(r) .. r.last) \ taken
<1>1. r.first \in Nat /\ r.last \in Nat
  <2>1. r \in [first : Nat, last : Nat]
    <3> DEFINE R == [first : Nat, last : Nat]
    <3>1. Interfaces \in Seq(R) /\ i \in 1 .. Len(Interfaces)
      BY IpamConstants
    <3> HIDE DEF R
    <3>2. Interfaces[i] \in R
      BY <3>1, ElementOfSeq
    <3> QED
      BY <3>2 DEF R
  <2> QED
    BY <2>1
<1>2. getMin(r) \in Nat /\ getMin(r) >= r.first
  BY <1>1, IpamConstants DEF getMin
<1>3. r.first .. r.last \subseteq Ips
  BY DEF Ips
<1>4. getMin(r) .. r.last \subseteq r.first .. r.last
  BY <1>1, <1>2
<1>5. CASE free = {}
  BY <1>5 DEF FreeIp
<1>6. CASE free # {}
  <2>1. free \in SUBSET Nat
    BY <1>1, <1>2
  <2>2. Min(free) \in free
    BY <1>6, <2>1, LeastNat DEF Min
  <2>3. FreeIp(r, taken) = Min(free)
    BY <1>6 DEF FreeIp
  <2> QED
    BY <1>3, <1>4, <2>2, <2>3
<1> QED
  BY <1>5, <1>6

\* The interfaces done one after the other: a function that obeys the recursion
\* of Choose up to n.
Picks(bound, n, f) ==
    f = [i \in 0 .. n |-> IF i = 0 THEN {}
                          ELSE f[i - 1] \cup {FreeIp(Interfaces[i], bound \cup f[i - 1])}]

LEMMA PicksExist ==
  ASSUME NEW bound, NEW n \in Nat
  PROVE  \E f : Picks(bound, n, f)
<1> DEFINE T == {k \in Nat : ~ \E f : Picks(bound, k, f)}
<1> SUFFICES ASSUME T # {} PROVE FALSE
  OBVIOUS
<1>1. PICK k \in T : \A j \in T : k <= j
  BY LeastNat
<1>2. CASE k = 0
  <2>1. Picks(bound, 0, [i \in 0 .. 0 |-> {}])
    BY DEF Picks
  <2> QED
    BY <1>1, <1>2, <2>1
<1>3. CASE k # 0
  <2>1. k \in Nat /\ k - 1 \in Nat /\ k - 1 \notin T
    BY <1>1, <1>3
  <2>2. PICK g : Picks(bound, k - 1, g)
    BY <2>1
  <2> DEFINE h == [i \in 0 .. k |-> IF i = k
                     THEN g[k - 1] \cup {FreeIp(Interfaces[k], bound \cup g[k - 1])}
                     ELSE g[i]]
  <2>3. \A i \in 0 .. k - 1 :
           g[i] = IF i = 0 THEN {} ELSE g[i - 1] \cup {FreeIp(Interfaces[i], bound \cup g[i - 1])}
    BY <2>2 DEF Picks
  <2>4. \A i \in 0 .. k - 1 : h[i] = g[i]
    BY <2>1
  <2>5. h[k] = g[k - 1] \cup {FreeIp(Interfaces[k], bound \cup g[k - 1])}
    BY <2>1
  <2>6. \A i \in 0 .. k :
           h[i] = IF i = 0 THEN {} ELSE h[i - 1] \cup {FreeIp(Interfaces[i], bound \cup h[i - 1])}
    <3> SUFFICES ASSUME NEW i \in 0 .. k
                 PROVE  h[i] = IF i = 0 THEN {}
                               ELSE h[i - 1] \cup {FreeIp(Interfaces[i], bound \cup h[i - 1])}
      OBVIOUS
    <3> HIDE DEF h
    <3>1. CASE i = k
      <4>1. k - 1 \in 0 .. k - 1
        BY <2>1
      <4>2. h[k - 1] = g[k - 1]
        BY <2>4, <4>1
      <4> QED
        BY <1>3, <2>5, <3>1, <4>2
    <3>2. CASE i # k
      <4>1. i \in 0 .. k - 1 /\ (i # 0 => i - 1 \in 0 .. k - 1)
        BY <2>1, <3>2
      <4> QED
        BY <2>3, <2>4, <4>1
    <3> QED
      BY <3>1, <3>2
  <2>7. Picks(bound, k, h)
    BY <2>6 DEF Picks
  <2> QED
    BY <1>1, <2>7
<1> QED
  BY <1>2, <1>3

(***************************************************************************)
(* AssignIp chooses, for all its interfaces, addresses of the ranges that  *)
(* nobody has, or "<nil>".                                                 *)
(***************************************************************************)
LEMMA ChooseFree ==
  ASSUME NEW bound
  PROVE  Choose(bound) \subseteq {Nil} \cup (Ips \ bound)
<1> DEFINE L == Len(Interfaces)
           f == CHOOSE g : Picks(bound, L, g)
           T == {k \in Nat : k <= L /\ ~(f[k] \subseteq {Nil} \cup (Ips \ bound))}
<1>1. L \in Nat /\ DOMAIN Interfaces = 1 .. L
  BY IpamConstants
<1>2. Choose(bound) = f[L]
  BY DEF Choose, Picks
<1>3. Picks(bound, L, f)
  BY <1>1, PicksExist
<1> HIDE DEF f, L
<1>4. f[0] = {} /\ \A i \in 1 .. L : f[i] = f[i - 1] \cup {FreeIp(Interfaces[i], bound \cup f[i - 1])}
  <2> DEFINE body(i) == IF i = 0 THEN {}
                        ELSE f[i - 1] \cup {FreeIp(Interfaces[i], bound \cup f[i - 1])}
  <2>1. f = [i \in 0 .. L |-> body(i)]
    BY <1>3 DEF Picks
  <2> HIDE DEF body
  <2>2. \A i \in 0 .. L : f[i] = body(i)
    BY <2>1
  <2>3. f[0] = body(0) /\ \A i \in 1 .. L : f[i] = body(i) /\ i # 0
    BY <1>1, <2>2
  <2> QED
    BY <2>3 DEF body
<1> SUFFICES ASSUME T # {} PROVE FALSE
  BY <1>1, <1>2
<1>5. PICK k \in T : \A j \in T : k <= j
  BY LeastNat
<1>6. k # 0 /\ k \in Nat
  BY <1>4, <1>5
<1>7. k - 1 \in Nat /\ k - 1 \notin T /\ k \in 1 .. L
  BY <1>1, <1>5, <1>6
<1>8. f[k - 1] \subseteq {Nil} \cup (Ips \ bound)
  BY <1>1, <1>7
<1>9. FreeIp(Interfaces[k], bound \cup f[k - 1]) \in {Nil} \cup (Ips \ bound)
  BY <1>1, <1>7, FreeIpFacts
<1> QED
  BY <1>4, <1>5, <1>7, <1>8, <1>9
-----------------------------------------------------------------------------
(* The inductive invariant.                                                *)

Addr == Ips \cup {Nil}

Maps == UNION {[D -> Container] : D \in SUBSET Addr}

IpamType ==
    /\ cnIpMap \in Maps \cup {NoMap}
    /\ proc \in [Container -> [op : {"none", "assign", "delete"},
                               new : Maps \cup {Refused}, ips : SUBSET Addr]]
    /\ late \in [Container -> Maps \cup {Refused}]
    /\ held \in [Container -> SUBSET Addr]
    /\ gone \in SUBSET Container

\* m is what a call of c would write that has read the map as it is now: an
\* AssignIp that binds addresses nobody has, or a DeleteIp.
Assigns(c, m, ips) ==
    /\ m = Bind(Bindings, ips, c)
    /\ (ips \ {Nil}) \cap DOMAIN Bindings = {}

Deletes(c, m) == cnIpMap # NoMap /\ m = Unbind(Bindings, c)

\* A write that the server would accept was prepared from the map as it is now.
ProcOK(c) ==
    proc[c].new # Refused =>
        /\ held[c] = {}
        /\ \/ proc[c].op = "assign" /\ Assigns(c, proc[c].new, proc[c].ips)
           \/ proc[c].op = "delete" /\ Deletes(c, proc[c].new) /\ proc[c].ips = {}

\* So was the write of a killed call, whose container has got no address since.
LateOK(c) ==
    late[c] # Refused =>
        /\ held[c] \subseteq {Nil}
        /\ \/ \E ips \in SUBSET Addr : Assigns(c, late[c], ips)
           \/ Deletes(c, late[c])

\* A container whose last call was a DeleteIp has nothing and gets nothing from
\* the writes on their way.
GoneOK(c) ==
    c \in gone =>
        /\ \A ip \in DOMAIN Bindings : Bindings[ip] # c
        /\ proc[c].new # Refused => proc[c].op = "delete"
        /\ late[c] # Refused => Deletes(c, late[c])

IpamInv ==
    /\ IpamType
    /\ HeldBound
    /\ \A c \in Container : ProcOK(c) /\ LateOK(c) /\ GoneOK(c)

\* A map is neither of the two special values.
LEMMA MapsApart ==
  ASSUME NEW m \in Maps
  PROVE  m # NoMap /\ m # Refused
BY IpamConstants DEF Maps, Addr

LEMMA BindingsMap ==
  ASSUME IpamType
  PROVE  Bindings \in Maps
<1>1. CASE cnIpMap = NoMap
  <2>1. <<>> \in [{} -> Container]
    OBVIOUS
  <2> QED
    BY <1>1, <2>1 DEF Bindings, Maps
<1>2. CASE cnIpMap # NoMap
  BY <1>2 DEF IpamType, Bindings
<1> QED
  BY <1>1, <1>2

\* What a map is.
LEMMA MapFacts ==
  ASSUME NEW m
  PROVE  m \in Maps <=> /\ m = [ip \in DOMAIN m |-> m[ip]]
                        /\ DOMAIN m \in SUBSET Addr
                        /\ \A ip \in DOMAIN m : m[ip] \in Container
BY DEF Maps

\* The map that an AssignIp writes.
LEMMA AssignsFacts ==
  ASSUME IpamType, NEW c \in Container, NEW m, NEW ips \in SUBSET Addr, Assigns(c, m, ips)
  PROVE  m \in Maps /\ DOMAIN m = DOMAIN Bindings \cup ips
<1>1. Bindings \in Maps
  BY BindingsMap
<1>2. DOMAIN Bindings \in SUBSET Addr /\ \A ip \in DOMAIN Bindings : Bindings[ip] \in Container
  BY <1>1, MapFacts
<1>3. /\ DOMAIN m = DOMAIN Bindings \cup ips
      /\ \A ip \in DOMAIN m : m[ip] = IF ip \in ips THEN c ELSE Bindings[ip]
      /\ m = [ip \in DOMAIN m |-> m[ip]]
  BY DEF Assigns, Bind
<1>4. \A ip \in DOMAIN m : m[ip] \in Container
  BY <1>2, <1>3
<1> QED
  BY <1>2, <1>3, <1>4, MapFacts

\* The map that a DeleteIp writes.
LEMMA DeletesFacts ==
  ASSUME IpamType, NEW c, NEW m, Deletes(c, m)
  PROVE  /\ m \in Maps
         /\ DOMAIN m = {ip \in DOMAIN Bindings : Bindings[ip] # c}
         /\ \A ip \in DOMAIN m : m[ip] = Bindings[ip]
<1>1. Bindings \in Maps
  BY BindingsMap
<1>2. DOMAIN Bindings \in SUBSET Addr /\ \A ip \in DOMAIN Bindings : Bindings[ip] \in Container
  BY <1>1, MapFacts
<1>3. /\ DOMAIN m = {ip \in DOMAIN Bindings : Bindings[ip] # c}
      /\ \A ip \in DOMAIN m : m[ip] = Bindings[ip]
      /\ m = [ip \in DOMAIN m |-> m[ip]]
  BY DEF Deletes, Unbind
<1>4. DOMAIN m \in SUBSET Addr /\ \A ip \in DOMAIN m : m[ip] \in Container
  BY <1>2, <1>3
<1> QED
  BY <1>3, <1>4, MapFacts

-----------------------------------------------------------------------------
(* The server stores an object.                                            *)

\* b writes m, which it prepared from the map as it is now.
Prepared(b, m) == (\E ips \in SUBSET Addr : Assigns(b, m, ips)) \/ Deletes(b, m)

\* A write touches the bindings of its own container only, but for "<nil>".
LEMMA WriteMap ==
  ASSUME IpamType, NEW b \in Container, NEW m, Prepared(b, m)
  PROVE  /\ m \in Maps
         /\ \A ip \in DOMAIN Bindings : Bindings[ip] # b /\ ip # Nil
               => ip \in DOMAIN m /\ m[ip] = Bindings[ip]
         /\ \A ip \in DOMAIN m : m[ip] # b
               => ip \in DOMAIN Bindings /\ Bindings[ip] = m[ip]
<1>1. CASE \E ips \in SUBSET Addr : Assigns(b, m, ips)
  <2>1. PICK ips \in SUBSET Addr : Assigns(b, m, ips)
    BY <1>1
  <2>2. /\ m \in Maps
        /\ DOMAIN m = DOMAIN Bindings \cup ips
        /\ \A ip \in ips : m[ip] = b
        /\ \A ip \in DOMAIN Bindings : ip \notin ips => m[ip] = Bindings[ip]
    <3>1. m \in Maps
      BY <2>1, AssignsFacts
    <3> QED
      BY <2>1, <3>1 DEF Assigns, Bind
  <2>3. \A ip \in DOMAIN Bindings : ip # Nil => ip \notin ips
    BY <2>1 DEF Assigns
  <2> QED
    BY <2>2, <2>3
<1>2. CASE Deletes(b, m)
  <2>1. /\ m \in Maps
        /\ DOMAIN m = {ip \in DOMAIN Bindings : Bindings[ip] # b}
        /\ \A ip \in DOMAIN m : m[ip] = Bindings[ip]
    BY <1>2, DeletesFacts
  <2> QED
    BY <2>1
<1> QED
  BY <1>1, <1>2 DEF Prepared

LEMMA WriteFrame ==
  ASSUME IpamType, NEW b \in Container, NEW m, Prepared(b, m), cnIpMap' = m
  PROVE  /\ m \in Maps
         /\ Bindings' = m
         /\ \A ip \in DOMAIN Bindings : Bindings[ip] # b /\ ip # Nil
               => ip \in DOMAIN Bindings' /\ Bindings'[ip] = Bindings[ip]
         /\ \A ip \in DOMAIN Bindings' : Bindings'[ip] # b
               => ip \in DOMAIN Bindings /\ Bindings[ip] = Bindings'[ip]
<1>1. /\ m \in Maps
      /\ \A ip \in DOMAIN Bindings : Bindings[ip] # b /\ ip # Nil
            => ip \in DOMAIN m /\ m[ip] = Bindings[ip]
      /\ \A ip \in DOMAIN m : m[ip] # b
            => ip \in DOMAIN Bindings /\ Bindings[ip] = m[ip]
  BY WriteMap
<1>2. Bindings' = m
  BY <1>1, MapsApart DEF Bindings
<1> QED
  BY <1>1, <1>2

\* An AssignIp that changes nothing has found no address.
LEMMA AssignsNothing ==
  ASSUME IpamType, NEW c \in Container, NEW ips \in SUBSET Addr, Assigns(c, cnIpMap, ips)
  PROVE  ips \subseteq {Nil}
<1>1. cnIpMap \in Maps /\ DOMAIN cnIpMap = DOMAIN Bindings \cup ips
  BY AssignsFacts
<1>2. Bindings = cnIpMap
  BY <1>1, MapsApart DEF Bindings
<1> QED
  BY <1>1, <1>2 DEF Assigns

-----------------------------------------------------------------------------
(* The steps of the client preserve the invariant.                         *)

ContainerOK(c) == ProcOK(c) /\ LateOK(c) /\ GoneOK(c)

\* A container is in order as long as the map and what it has are the same.
LEMMA KeptOK ==
  ASSUME NEW c, ContainerOK(c), cnIpMap' = cnIpMap,
         proc'[c] = proc[c], late'[c] = late[c] \/ late'[c] = Refused,
         held'[c] = held[c], c \in gone' => c \in gone
  PROVE  ContainerOK(c)'
<1>1. Bindings' = Bindings
  BY DEF Bindings
<1>2. ProcOK(c)'
  BY <1>1 DEF ContainerOK, ProcOK, Assigns, Deletes
<1>3. LateOK(c)'
  <2> SUFFICES ASSUME late'[c] = late[c], late[c] # Refused
               PROVE  LateOK(c)'
    BY DEF LateOK
  <2>1. held[c] \subseteq {Nil} /\ Prepared(c, late[c])
    BY DEF ContainerOK, LateOK, Prepared
  <2>2. Prepared(c, late[c])'
    BY <1>1, <2>1 DEF Prepared, Assigns, Deletes
  <2> QED
    BY <2>1, <2>2 DEF LateOK, Prepared
<1>4. GoneOK(c)'
  BY <1>1 DEF ContainerOK, GoneOK, Deletes
<1> QED
  BY <1>2, <1>3, <1>4 DEF ContainerOK

LEMMA KeptHeld ==
  ASSUME HeldBound, cnIpMap' = cnIpMap, \A c \in Container : held'[c] \subseteq held[c]
  PROVE  HeldBound'
BY DEF HeldBound, Bindings

LEMMA InvParts ==
  IpamInv <=> IpamType /\ HeldBound /\ \A c \in Container : ContainerOK(c)
BY DEF IpamInv, ContainerOK

LEMMA AssignIpStep ==
  ASSUME IpamInv, NEW c \in Container, AssignIp(c)
  PROVE  IpamInv'
<1>1. IpamType /\ HeldBound /\ \A b \in Container : ContainerOK(b)
  BY InvParts
<1>2. PICK ips : ips = Choose(DOMAIN Bindings)
  OBVIOUS
<1>3. PICK m : m = Bind(Bindings, ips, c)
  OBVIOUS
<1>4. ips \in SUBSET Addr /\ Assigns(c, m, ips) /\ m \in Maps
  <2>1. ips \subseteq {Nil} \cup (Ips \ DOMAIN Bindings)
    BY <1>2, ChooseFree
  <2>2. ips \in SUBSET Addr /\ Assigns(c, m, ips)
    BY <1>3, <2>1 DEF Addr, Assigns
  <2> QED
    BY <1>1, <2>2, AssignsFacts
<1> DEFINE p == [op |-> "assign", new |-> m, ips |-> ips]
<1>5. p \in [op : {"none", "assign", "delete"}, new : Maps \cup {Refused}, ips : SUBSET Addr]
      /\ p.op = "assign" /\ p.new = m /\ p.ips = ips
  BY <1>4
<1>6. held[c] = {} /\ proc' = [proc EXCEPT ![c] = p]
      /\ gone' = gone \ {c} /\ UNCHANGED <<cnIpMap, late, held>>
  BY <1>2, <1>3 DEF AssignIp
<1> HIDE DEF p
<1>7. IpamType'
  BY <1>1, <1>5, <1>6 DEF IpamType
<1>8. HeldBound'
  BY <1>1, <1>6, KeptHeld
<1>9. \A b \in Container : ContainerOK(b)'
  <2> SUFFICES ASSUME NEW b \in Container PROVE ContainerOK(b)'
    OBVIOUS
  <2>1. CASE b # c
    BY <1>1, <1>6, <2>1, KeptOK DEF IpamType
  <2>2. CASE b = c
    <3>1. Bindings' = Bindings /\ proc'[c] = p
      BY <1>1, <1>6 DEF IpamType, Bindings
    <3>2. ProcOK(c)'
      BY <1>4, <1>5, <1>6, <3>1 DEF ProcOK, Assigns
    <3>3. LateOK(c)'
      BY <1>1, <1>6, <3>1 DEF ContainerOK, LateOK, Assigns, Deletes
    <3>4. GoneOK(c)'
      BY <1>6 DEF GoneOK
    <3> QED
      BY <2>2, <3>2, <3>3, <3>4 DEF ContainerOK
  <2> QED
    BY <2>1, <2>2
<1> QED
  BY <1>7, <1>8, <1>9 DEF IpamInv, ContainerOK

LEMMA DeleteIpStep ==
  ASSUME IpamInv, NEW c \in Container, DeleteIp(c)
  PROVE  IpamInv'
<1>1. IpamType /\ HeldBound /\ \A b \in Container : ContainerOK(b)
  BY InvParts
<1>2. PICK m : m = Unbind(Bindings, c)
  OBVIOUS
<1>3. cnIpMap # NoMap /\ Bindings = cnIpMap /\ Deletes(c, m) /\ m \in Maps
  <2>1. cnIpMap # NoMap /\ Bindings = cnIpMap
    BY DEF DeleteIp, Bindings
  <2>2. Deletes(c, m)
    BY <1>2, <2>1 DEF Deletes
  <2> QED
    BY <1>1, <2>1, <2>2, DeletesFacts
<1> DEFINE p == [op |-> "delete", new |-> m, ips |-> {}]
<1>4. p \in [op : {"none", "assign", "delete"}, new : Maps \cup {Refused}, ips : SUBSET Addr]
      /\ p.op = "delete" /\ p.new = m /\ p.ips = {}
  BY <1>3
<1>5. proc' = [proc EXCEPT ![c] = p] /\ held' = [held EXCEPT ![c] = {}]
      /\ UNCHANGED <<cnIpMap, late, gone>>
  BY <1>2, <1>3 DEF DeleteIp
<1> HIDE DEF p
<1>6. IpamType'
  BY <1>1, <1>4, <1>5 DEF IpamType
<1>7. HeldBound'
  <2>1. \A b \in Container : held'[b] \subseteq held[b]
    BY <1>1, <1>5 DEF IpamType
  <2> QED
    BY <1>1, <1>5, <2>1, KeptHeld
<1>8. \A b \in Container : ContainerOK(b)'
  <2> SUFFICES ASSUME NEW b \in Container PROVE ContainerOK(b)'
    OBVIOUS
  <2>1. CASE b # c
    BY <1>1, <1>5, <2>1, KeptOK DEF IpamType
  <2>2. CASE b = c
    <3>1. Bindings' = Bindings /\ proc'[c] = p /\ held'[c] = {}
      BY <1>1, <1>5 DEF IpamType, Bindings
    <3>2. ProcOK(c)'
      BY <1>3, <1>4, <1>5, <3>1 DEF ProcOK, Deletes
    <3>3. LateOK(c)'
      BY <1>1, <1>5, <3>1 DEF ContainerOK, LateOK, Assigns, Deletes
    <3>4. GoneOK(c)'
      BY <1>1, <1>4, <1>5, <3>1 DEF ContainerOK, GoneOK, Deletes
    <3> QED
      BY <2>2, <3>2, <3>3, <3>4 DEF ContainerOK
  <2> QED
    BY <2>1, <2>2
<1> QED
  BY <1>6, <1>7, <1>8 DEF IpamInv, ContainerOK

\* A call that ends without a write leaves what it would have written to nobody,
\* or to the late write of its container.
LEMMA EndStep ==
  ASSUME IpamInv, NEW c \in Container, UpdateFails(c) \/ KillPlugin(c) \/ LateUpdateLost(c)
  PROVE  IpamInv'
<1>1. IpamType /\ HeldBound /\ \A b \in Container : ContainerOK(b)
  BY InvParts
<1>2. /\ UNCHANGED <<cnIpMap, held, gone>>
      /\ \/ proc' = proc
         \/ proc' = [proc EXCEPT ![c] = Idle]
      /\ \/ late' = late
         \/ late' = [late EXCEPT ![c] = Refused]
         \/ proc[c].new # Refused /\ late' = [late EXCEPT ![c] = proc[c].new]
  BY DEF UpdateFails, KillPlugin, LateUpdateLost
<1>3. Idle \in [op : {"none", "assign", "delete"}, new : Maps \cup {Refused}, ips : SUBSET Addr]
      /\ Idle.new = Refused
  BY DEF Idle
<1>4. IpamType'
  BY <1>1, <1>2, <1>3 DEF IpamType
<1>5. HeldBound'
  BY <1>1, <1>2, KeptHeld
<1>6. \A b \in Container : ContainerOK(b)'
  <2> SUFFICES ASSUME NEW b \in Container PROVE ContainerOK(b)'
    OBVIOUS
  <2>1. CASE b # c
    BY <1>1, <1>2, <2>1, KeptOK DEF IpamType
  <2>2. CASE b = c
    <3>1. /\ Bindings' = Bindings
          /\ proc'[c] = proc[c] \/ proc'[c].new = Refused
          /\ \/ late'[c] = late[c] \/ late'[c] = Refused
             \/ proc[c].new # Refused /\ late'[c] = proc[c].new
      BY <1>1, <1>2, <1>3 DEF IpamType, Bindings
    <3>2. ProcOK(c)'
      BY <1>1, <1>2, <3>1 DEF ContainerOK, ProcOK, Assigns, Deletes
    <3>3. LateOK(c)'
      <4>1. proc[c].ips \in SUBSET Addr
        BY <1>1 DEF IpamType
      <4>2. CASE late'[c] = late[c] \/ late'[c] = Refused
        BY <1>1, <1>2, <3>1, <4>2 DEF ContainerOK, LateOK, Assigns, Deletes
      <4>3. CASE proc[c].new # Refused /\ late'[c] = proc[c].new
        BY <1>1, <1>2, <3>1, <4>1, <4>3 DEF ContainerOK, ProcOK, LateOK, Assigns, Deletes
      <4> QED
        BY <3>1, <4>2, <4>3
    <3>4. GoneOK(c)'
      BY <1>1, <1>2, <3>1 DEF ContainerOK, ProcOK, GoneOK, Deletes
    <3> QED
      BY <2>2, <3>2, <3>3, <3>4 DEF ContainerOK
  <2> QED
    BY <2>1, <2>2
<1> QED
  BY <1>4, <1>5, <1>6 DEF IpamInv, ContainerOK

\* A write that is stored keeps what the others hold, and what they have lost lost.
LEMMA WriteOthers ==
  ASSUME IpamInv, NEW c \in Container, NEW m, Prepared(c, m), cnIpMap' = m,
         NEW b \in Container, b # c
  PROVE  /\ \A ip \in held[b] \ {Nil} : ip \in DOMAIN Bindings' /\ Bindings'[ip] = b
         /\ b \in gone => \A ip \in DOMAIN Bindings' : Bindings'[ip] # b
<1>1. IpamType /\ HeldBound /\ GoneOK(b)
  BY DEF IpamInv
<1>2. /\ \A ip \in DOMAIN Bindings : Bindings[ip] # c /\ ip # Nil
            => ip \in DOMAIN Bindings' /\ Bindings'[ip] = Bindings[ip]
      /\ \A ip \in DOMAIN Bindings' : Bindings'[ip] # c
            => ip \in DOMAIN Bindings /\ Bindings[ip] = Bindings'[ip]
  BY <1>1, WriteFrame
<1>3. \A ip \in held[b] \ {Nil} : ip \in DOMAIN Bindings /\ Bindings[ip] = b
  BY <1>1 DEF HeldBound
<1>4. b \in gone => \A ip \in DOMAIN Bindings : Bindings[ip] # b
  BY <1>1 DEF GoneOK
<1> QED
  BY <1>2, <1>3, <1>4

\* After a write that changes the map no other one is accepted.
LEMMA AllRefused ==
  ASSUME IpamType, NEW procs \in [Container -> [op : {"none", "assign", "delete"},
                                   new : Maps \cup {Refused}, ips : SUBSET Addr]],
         proc' = [c \in Container |-> [procs[c] EXCEPT !.new = Refused, !.ips = {}]],
         late' = [c \in Container |-> Refused]
  PROVE  /\ proc' \in [Container -> [op : {"none", "assign", "delete"},
                               new : Maps \cup {Refused}, ips : SUBSET Addr]]
         /\ late' \in [Container -> Maps \cup {Refused}]
         /\ \A c \in Container : proc'[c].new = Refused /\ late'[c] = Refused
         /\ \A c \in Container : ProcOK(c)' /\ LateOK(c)'
<1>1. \A c \in Container : /\ proc'[c].new = Refused /\ late'[c] = Refused
                           /\ proc'[c] \in [op : {"none", "assign", "delete"},
                               new : Maps \cup {Refused}, ips : SUBSET Addr]
  OBVIOUS
<1>2. \A c \in Container : ProcOK(c)' /\ LateOK(c)'
  BY <1>1 DEF ProcOK, LateOK
<1> QED
  BY <1>1, <1>2

LEMMA UpdateStep ==
  ASSUME IpamInv, NEW c \in Container, Update(c)
  PROVE  IpamInv'
<1>1. IpamType /\ HeldBound /\ \A b \in Container : ContainerOK(b)
  BY InvParts
<1>2. PICK m, ips : m = proc[c].new /\ ips = proc[c].ips
  OBVIOUS
<1>3. /\ m # Refused /\ cnIpMap' = m /\ ips \in SUBSET Addr
      /\ held' = [held EXCEPT ![c] = ips]
      /\ gone' = IF proc[c].op = "delete" /\ late[c] = Refused THEN gone \cup {c} ELSE gone
  BY <1>1, <1>2 DEF Update, Store, IpamType
<1>4. \/ proc[c].op = "assign" /\ Assigns(c, m, ips)
      \/ proc[c].op = "delete" /\ Deletes(c, m) /\ ips = {}
  BY <1>1, <1>2, <1>3 DEF ContainerOK, ProcOK
<1>5. Prepared(c, m)
  BY <1>3, <1>4 DEF Prepared
<1>6. m \in Maps /\ Bindings' = m
  BY <1>1, <1>3, <1>5, WriteFrame
<1> DEFINE procs == [proc EXCEPT ![c] = Idle]
<1>7. procs \in [Container -> [op : {"none", "assign", "delete"},
                               new : Maps \cup {Refused}, ips : SUBSET Addr]]
      /\ procs[c].new = Refused /\ \A b \in Container : b # c => procs[b] = proc[b]
  BY <1>1 DEF IpamType, Idle
<1>8. IF m = cnIpMap
      THEN proc' = procs /\ late' = late
      ELSE /\ proc' = [b \in Container |-> [procs[b] EXCEPT !.new = Refused, !.ips = {}]]
           /\ late' = [b \in Container |-> Refused]
  BY <1>2 DEF Update, Store
<1> HIDE DEF procs
<1>9. IpamType'
  <2>1. cnIpMap' \in Maps /\ held' \in [Container -> SUBSET Addr] /\ gone' \in SUBSET Container
    BY <1>1, <1>3, <1>6 DEF IpamType
  <2>2. /\ proc' \in [Container -> [op : {"none", "assign", "delete"},
                               new : Maps \cup {Refused}, ips : SUBSET Addr]]
        /\ late' \in [Container -> Maps \cup {Refused}]
    BY <1>1, <1>7, <1>8, AllRefused DEF IpamType
  <2> QED
    BY <2>1, <2>2 DEF IpamType
<1>10. held'[c] = ips /\ \A b \in Container : b # c => held'[b] = held[b]
  BY <1>1, <1>3 DEF IpamType
<1>11. \A ip \in ips : ip \in DOMAIN Bindings' /\ Bindings'[ip] = c
  <2>1. CASE Assigns(c, m, ips)
    BY <1>6, <2>1 DEF Assigns, Bind
  <2>2. CASE ips = {}
    BY <2>2
  <2> QED
    BY <1>4, <2>1, <2>2
<1>12. HeldBound'
  <2> SUFFICES ASSUME NEW b \in Container, NEW ip \in held'[b] \ {Nil}
               PROVE  ip \in DOMAIN Bindings' /\ Bindings'[ip] = b
    BY DEF HeldBound
  <2>1. CASE b = c
    BY <1>10, <1>11, <2>1
  <2>2. CASE b # c
    BY <1>3, <1>5, <1>10, <2>2, WriteOthers
  <2> QED
    BY <2>1, <2>2
<1>13. c \in gone' => proc[c].op = "delete"
  <2>1. c \in gone => proc[c].op = "delete"
    BY <1>1, <1>2, <1>3 DEF ContainerOK, GoneOK
  <2> QED
    BY <1>3, <2>1
<1>14. \A b \in Container : b \in gone' => \A ip \in DOMAIN Bindings' : Bindings'[ip] # b
  <2> SUFFICES ASSUME NEW b \in Container, b \in gone'
               PROVE  \A ip \in DOMAIN Bindings' : Bindings'[ip] # b
    OBVIOUS
  <2>1. CASE b = c
    <3>1. Deletes(c, m)
      BY <1>4, <1>13, <2>1
    <3> QED
      BY <1>6, <2>1, <3>1 DEF Deletes, Unbind
  <2>2. CASE b # c
    <3>1. b \in gone
      BY <1>3, <2>2
    <3> QED
      BY <1>3, <1>5, <2>2, <3>1, WriteOthers
  <2> QED
    BY <2>1, <2>2
<1>15. CASE m # cnIpMap
  <2>1. \A b \in Container : proc'[b].new = Refused /\ late'[b] = Refused /\ ProcOK(b)' /\ LateOK(b)'
    BY <1>1, <1>7, <1>8, <1>15, AllRefused
  <2>2. \A b \in Container : GoneOK(b)'
    BY <1>14, <2>1 DEF GoneOK
  <2> QED
    BY <1>9, <1>12, <2>1, <2>2 DEF IpamInv
<1>16. CASE m = cnIpMap
  <2>1. Bindings' = Bindings /\ cnIpMap' = cnIpMap
    BY <1>3, <1>16 DEF Bindings
  <2>2. ips \subseteq {Nil}
    BY <1>1, <1>3, <1>4, <1>16, AssignsNothing
  <2>3. \A b \in Container : ContainerOK(b)'
    <3> SUFFICES ASSUME NEW b \in Container PROVE ContainerOK(b)'
      OBVIOUS
    <3>1. CASE b # c
      BY <1>1, <1>3, <1>7, <1>8, <1>10, <1>16, <2>1, <3>1, KeptOK
    <3>2. CASE b = c
      <4>1. ProcOK(c)'
        BY <1>7, <1>8, <1>16 DEF ProcOK
      <4>2. LateOK(c)'
        BY <1>1, <1>8, <1>10, <1>16, <2>1, <2>2 DEF ContainerOK, LateOK, Assigns, Deletes
      <4>3. GoneOK(c)'
        <5>1. late'[c] = late[c] /\ proc'[c].new = Refused
          BY <1>7, <1>8, <1>16
        <5>2. c \in gone' /\ late[c] # Refused => Deletes(c, late[c])
          BY <1>1, <1>3 DEF ContainerOK, GoneOK
        <5> QED
          BY <1>14, <2>1, <5>1, <5>2 DEF GoneOK, Deletes
      <4> QED
        BY <3>2, <4>1, <4>2, <4>3 DEF ContainerOK
    <3> QED
      BY <3>1, <3>2
  <2> QED
    BY <1>9, <1>12, <2>3 DEF IpamInv, ContainerOK
<1> QED
  BY <1>15, <1>16

LEMMA LateUpdateStep ==
  ASSUME IpamInv, NEW c \in Container, LateUpdate(c)
  PROVE  IpamInv'
<1>1. IpamType /\ HeldBound /\ \A b \in Container : ContainerOK(b)
  BY InvParts
<1>2. PICK m : m = late[c]
  OBVIOUS
<1>3. m # Refused /\ cnIpMap' = m /\ UNCHANGED <<held, gone>>
  BY <1>2 DEF LateUpdate, Store
<1>4. Prepared(c, m) /\ held[c] \subseteq {Nil} /\ (c \in gone => Deletes(c, m))
  BY <1>1, <1>2, <1>3 DEF ContainerOK, LateOK, GoneOK, Prepared
<1>5. m \in Maps /\ Bindings' = m
  BY <1>1, <1>3, <1>4, WriteFrame
<1> DEFINE lates == [late EXCEPT ![c] = Refused]
<1>6. lates \in [Container -> Maps \cup {Refused}] /\ lates[c] = Refused
      /\ \A b \in Container : b # c => lates[b] = late[b]
  BY <1>1 DEF IpamType
<1>7. IF m = cnIpMap
      THEN proc' = proc /\ late' = lates
      ELSE /\ proc' = [b \in Container |-> [proc[b] EXCEPT !.new = Refused, !.ips = {}]]
           /\ late' = [b \in Container |-> Refused]
  BY <1>2 DEF LateUpdate, Store
<1> HIDE DEF lates
<1>8. IpamType'
  <2>1. cnIpMap' \in Maps /\ held' \in [Container -> SUBSET Addr] /\ gone' \in SUBSET Container
    BY <1>1, <1>3, <1>5 DEF IpamType
  <2>2. /\ proc' \in [Container -> [op : {"none", "assign", "delete"},
                               new : Maps \cup {Refused}, ips : SUBSET Addr]]
        /\ late' \in [Container -> Maps \cup {Refused}]
    BY <1>1, <1>6, <1>7, AllRefused DEF IpamType
  <2> QED
    BY <2>1, <2>2 DEF IpamType
<1>9. HeldBound'
  <2> SUFFICES ASSUME NEW b \in Container, NEW ip \in held[b] \ {Nil}
               PROVE  ip \in DOMAIN Bindings' /\ Bindings'[ip] = b
    BY <1>3 DEF HeldBound
  <2> QED
    BY <1>3, <1>4, WriteOthers
<1>10. CASE m # cnIpMap
  <2>1. \A b \in Container : proc'[b].new = Refused /\ late'[b] = Refused /\ ProcOK(b)' /\ LateOK(b)'
    BY <1>1, <1>7, <1>10, AllRefused DEF IpamType
  <2>2. \A b \in Container : b \in gone => \A ip \in DOMAIN Bindings' : Bindings'[ip] # b
    <3> SUFFICES ASSUME NEW b \in Container, b \in gone
                 PROVE  \A ip \in DOMAIN Bindings' : Bindings'[ip] # b
      OBVIOUS
    <3>1. CASE b = c
      BY <1>4, <1>5, <3>1 DEF Deletes, Unbind
    <3>2. CASE b # c
      BY <1>3, <1>4, <3>2, WriteOthers
    <3> QED
      BY <3>1, <3>2
  <2>3. \A b \in Container : GoneOK(b)'
    BY <1>3, <2>1, <2>2 DEF GoneOK
  <2> QED
    BY <1>8, <1>9, <2>1, <2>3 DEF IpamInv
<1>11. CASE m = cnIpMap
  <2>1. \A b \in Container : ContainerOK(b)'
    BY <1>1, <1>3, <1>6, <1>7, <1>11, KeptOK
  <2> QED
    BY <1>8, <1>9, <2>1 DEF IpamInv, ContainerOK
<1> QED
  BY <1>10, <1>11

-----------------------------------------------------------------------------
(* The theorems.                                                           *)

LEMMA IpamInitially == IpamInit => IpamInv
<1> SUFFICES ASSUME IpamInit PROVE IpamInv
  OBVIOUS
<1>1. \A c \in Container : proc[c] = Idle /\ late[c] = Refused /\ held[c] = {}
  BY DEF IpamInit
<1>2. IpamType
  BY DEF IpamInit, IpamType, Idle
<1>3. HeldBound
  BY <1>1 DEF HeldBound
<1>4. \A c \in Container : ProcOK(c) /\ LateOK(c) /\ GoneOK(c)
  BY <1>1 DEF IpamInit, ProcOK, LateOK, GoneOK, Idle
<1> QED
  BY <1>2, <1>3, <1>4 DEF IpamInv

LEMMA IpamStep == IpamInv /\ [IpamNext]_ipamVars => IpamInv'
<1> SUFFICES ASSUME IpamInv, [IpamNext]_ipamVars PROVE IpamInv'
  OBVIOUS
<1>1. CASE IpamNext
  <2>1. PICK c \in Container :
            \/ AssignIp(c) \/ DeleteIp(c)
            \/ Update(c) \/ UpdateFails(c) \/ KillPlugin(c)
            \/ LateUpdate(c) \/ LateUpdateLost(c)
    BY <1>1 DEF IpamNext
  <2> QED
    BY <2>1, AssignIpStep, DeleteIpStep, UpdateStep, EndStep, LateUpdateStep
<1>2. CASE UNCHANGED ipamVars
  <2>1. IpamType /\ HeldBound /\ \A b \in Container : ContainerOK(b)
    BY InvParts
  <2>2. IpamType'
    BY <1>2, <2>1 DEF IpamType, ipamVars
  <2>3. HeldBound'
    BY <1>2, <2>1, KeptHeld DEF ipamVars
  <2>4. \A b \in Container : ContainerOK(b)'
    BY <1>2, <2>1, KeptOK DEF ipamVars
  <2> QED
    BY <2>2, <2>3, <2>4 DEF IpamInv, ContainerOK
<1> QED
  BY <1>1, <1>2

(***************************************************************************)
(* Every address that AssignIp has returned stays bound to its container   *)
(* in the ConfigMap: the version check of Update keeps out every write     *)
(* that was prepared from another map (client.go:103).                     *)
(***************************************************************************)
THEOREM HeldIsBound == IpamSpec => []HeldBound
<1>1. IpamInv => HeldBound
  BY DEF IpamInv
<1> QED
  BY <1>1, IpamInitially, IpamStep, PTL DEF IpamSpec

(***************************************************************************)
(* After a DeleteIp nothing is bound to the container, whatever earlier    *)
(* calls of it have failed or been killed (client.go:161-165).             *)
(***************************************************************************)
THEOREM DeleteIsForgetful == IpamSpec => []DeleteForgets
<1>1. IpamInv => DeleteForgets
  BY DEF IpamInv, IpamType, GoneOK, DeleteForgets
<1> QED
  BY <1>1, IpamInitially, IpamStep, PTL DEF IpamSpec

Given == [c \in Container |-> held[c] \ {Nil}]

\* Every step of the client is a step of the pool, or changes nothing there.
LEMMA PoolStep ==
  ASSUME IpamInv, [IpamNext]_ipamVars
  PROVE  [Pool!Next]_Given
<1>1. IpamType /\ HeldBound /\ \A b \in Container : ContainerOK(b)
  BY InvParts
<1> SUFFICES ASSUME Given' # Given PROVE Pool!Next
  OBVIOUS
<1>2. held' # held
  BY DEF Given
<1>3. PICK c \in Container : DeleteIp(c) \/ Update(c)
  BY <1>2 DEF IpamNext, ipamVars, AssignIp, UpdateFails, KillPlugin, LateUpdate, LateUpdateLost
<1>4. PICK ips : /\ held' = [held EXCEPT ![c] = ips]
                 /\ \/ ips = {}
                    \/ /\ ips \in SUBSET Addr /\ held[c] = {}
                       /\ (ips \ {Nil}) \cap DOMAIN Bindings = {}
  <2>1. CASE DeleteIp(c)
    BY <2>1 DEF DeleteIp
  <2>2. CASE Update(c)
    BY <1>1, <2>2 DEF Update, ContainerOK, ProcOK, Assigns, IpamType
  <2> QED
    BY <1>3, <2>1, <2>2
<1>5. Given' = [Given EXCEPT ![c] = ips \ {Nil}]
  BY <1>1, <1>4 DEF Given, IpamType
<1>6. CASE ips = {}
  <2>1. Pool!Revoke(c)
    BY <1>5, <1>6 DEF Pool!Revoke, Given
  <2> QED
    BY <2>1 DEF Pool!Next
<1>7. CASE /\ ips \in SUBSET Addr /\ held[c] = {}
           /\ (ips \ {Nil}) \cap DOMAIN Bindings = {}
  <2> DEFINE S == ips \ {Nil}
  <2>1. S \in SUBSET Ips
    BY <1>7 DEF Addr
  <2>2. \A b \in Container : Given[b] \cap S = {}
    BY <1>1, <1>7 DEF Given, HeldBound
  <2>3. Given[c] = {}
    BY <1>7 DEF Given
  <2> HIDE DEF S
  <2>4. Pool!Assign(c)
    BY <1>5, <2>1, <2>2, <2>3 DEF Pool!Assign, Given, S
  <2> QED
    BY <2>4 DEF Pool!Next
<1> QED
  BY <1>4, <1>6, <1>7

(***************************************************************************)
(* AssignIp and DeleteIp implement the abstract pool: addresses are given  *)
(* to one container at a time and taken back whole, whatever the order in  *)
(* which the writes of the nodes arrive, fail or are lost.                 *)
(***************************************************************************)
THEOREM ImplementsPool == IpamSpec => IpamPoolSpec
<1>1. IpamInit => Pool!Init
  BY DEF IpamInit, Pool!Init
<1>2. IpamInv /\ [IpamNext]_ipamVars => [Pool!Next]_Given
  BY PoolStep
<1> QED
  BY <1>1, <1>2, IpamInitially, IpamStep, PTL DEF IpamSpec, IpamPoolSpec, Pool!Spec, Given
=============================================================================
