--------------------------- MODULE BridgeGateway ---------------------------
(***************************************************************************)
(* The bridge that all attachments of a node share: ADD commands of        *)
(* concurrent plugin processes create it, plug their veth into it, put     *)
(* their gateway's address on it (or on an interface of their VLAN) and    *)
(* report its hardware address, which CHECK compares later.                *)
(*                                                                         *)
(*   bridge/bridge.go  ensureBridge, setupVeth, ensureVlanInterface,       *)
(*                     ensureAddr, deleteAddr, validateCniBrInterface      *)
(*   bridge/ctrl.go    the order of these calls in Add, and Del            *)
(*                                                                         *)
(* Every attachment is of a network with isGateway and one address.        *)
(***************************************************************************)
EXTENDS Naturals

CONSTANTS
    Att,           \* attachments
    VlanOf,        \* conf.Vlan of each attachment, NoVlan for none
    GwOf,          \* the gateway's address for each attachment
    Overlapping,   \* address pairs a bridge may not hold together
    ForceAddress,  \* attachments of networks with conf.ForceAddress
    Macs,          \* hardware addresses the kernel picks from
    CrashAt        \* the steps of an ADD before which its process may be killed

NoVlan == 0
NoMac == 0     \* 00:00:00:00:00:00, or no interface

Vlans == {VlanOf[a] : a \in Att} \ {NoVlan}
Gateways == {GwOf[a] : a \in Att}

\* Where a running ADD is.
AddSteps == {"veth", "look", "make", "list", "addr", "pin", "print"}

\* The interfaces that carry addresses: the bridge and one per VLAN.
Ifaces == {NoVlan} \cup Vlans

ASSUME BridgeAssumption ==
    /\ VlanOf \in [Att -> Nat]
    /\ Att \cap Vlans = {}
    /\ Macs \subseteq Nat \ {NoMac}
    /\ Overlapping \subseteq Gateways \X Gateways
    /\ \A g \in Gateways : <<g, g>> \notin Overlapping
    /\ \A p \in Overlapping : <<p[2], p[1]>> \in Overlapping
    /\ ForceAddress \subseteq Att
    /\ CrashAt \subseteq AddSteps

VARIABLES
    exists,    \* the bridge is there
    mac,       \* its hardware address
    pinned,    \* somebody set the hardware address
    ports,     \* the hardware addresses of the veths plugged in
    vlans,     \* VLAN interfaces made so far
    addrs,     \* the addresses of each interface
    pc,        \* where each plugin process is
    seenMac,   \* br.Attrs().HardwareAddr of the process
    seen,      \* what AddrList returned to the process, and is left to handle
    reported,  \* the bridge's hardware address in the printed result
    met        \* history: the pairs of rivals that were both between AddrList
               \* and AddrAdd

bridge == <<exists, mac, pinned, ports, vlans, addrs>>
vars == <<bridge, pc, seenMac, seen, reported, met>>

Init ==
    /\ exists = FALSE
    /\ mac = NoMac
    /\ pinned = FALSE
    /\ ports = [p \in Att \cup Vlans |-> NoMac]
    /\ vlans = {}
    /\ addrs = [i \in Ifaces |-> {}]
    /\ pc = [a \in Att |-> "out"]
    /\ seenMac = [a \in Att |-> NoMac]
    /\ seen = [a \in Att |-> {}]
    /\ reported = [a \in Att |-> NoMac]
    /\ met = {}

Goto(a, label) == pc' = [pc EXCEPT ![a] = label]

Running(a) == pc[a] \in AddSteps

\* bridge.Add returns an error; the veth stays where it is.
AddFails(a) ==
    /\ Goto(a, "failed")
    /\ seenMac' = [seenMac EXCEPT ![a] = NoMac]
    /\ seen' = [seen EXCEPT ![a] = {}]
    /\ UNCHANGED <<reported, met>>

-----------------------------------------------------------------------------
(* The kernel.                                                             *)

\* The hardware address of a bridge whose ports change: the lowest of them,
\* unless somebody has set it.
Recalculated(ps) ==
    LET used == {ps[p] : p \in DOMAIN ps} \ {NoMac}
    IN  IF pinned THEN mac
        ELSE IF used = {} THEN NoMac
        ELSE CHOOSE m \in used : \A x \in used : m <= x

\* A new pair of interfaces has a hardware address nobody else has.
Plug(p) ==
    \E m \in Macs \ {ports[q] : q \in DOMAIN ports} :
       /\ ports' = [ports EXCEPT ![p] = m]
       /\ mac' = Recalculated(ports')

-----------------------------------------------------------------------------
(* ADD.                                                                    *)

\* setupBridge: create the bridge unless it is there, and fetch it.
EnsureBridge(a) ==
    /\ pc[a] = "out"
    /\ \/ exists /\ mac' = mac
       \/ ~exists /\ mac' \in Macs
    /\ exists' = TRUE
    /\ seenMac' = [seenMac EXCEPT ![a] = mac']
    /\ Goto(a, "veth")
    /\ UNCHANGED <<pinned, ports, vlans, addrs, seen, reported, met>>

\* setupVeth plugs the host's end in.
SetupVeth(a) ==
    /\ pc[a] = "veth"
    /\ Plug(a)
    /\ Goto(a, IF VlanOf[a] = NoVlan THEN "list" ELSE "look")
    /\ UNCHANGED <<exists, pinned, vlans, addrs, seenMac, seen, reported, met>>

\* ensureVlanInterface looks for the interface of the VLAN ...
LookForVlan(a) ==
    /\ pc[a] = "look"
    /\ Goto(a, IF VlanOf[a] \in vlans THEN "list" ELSE "make")
    /\ UNCHANGED <<bridge, seenMac, seen, reported, met>>

\* ... and makes it ...
MakeVlan(a) ==
    /\ pc[a] = "make"
    /\ VlanOf[a] \notin vlans
    /\ vlans' = vlans \cup {VlanOf[a]}
    /\ Plug(VlanOf[a])
    /\ Goto(a, "list")
    /\ UNCHANGED <<exists, pinned, addrs, seenMac, seen, reported, met>>

\* ... which fails if somebody else has made it meanwhile.
MakeVlanFails(a) ==
    /\ pc[a] = "make"
    /\ VlanOf[a] \in vlans
    /\ AddFails(a)
    /\ UNCHANGED bridge

\* Attachments whose gateways exclude each other on one interface.
Rivals(a, b) == VlanOf[a] = VlanOf[b] /\ <<GwOf[a], GwOf[b]>> \in Overlapping

\* ensureAddr: AddrList.
ListAddrs(a) ==
    /\ pc[a] = "list"
    /\ seen' = [seen EXCEPT ![a] = addrs[VlanOf[a]]]
    /\ Goto(a, "addr")
    /\ LET rivals == {b \in Att : Rivals(a, b) /\ pc[b] = "addr"}
       IN  met' = met \cup ({a} \X rivals) \cup (rivals \X {a})
    /\ UNCHANGED <<bridge, seenMac, reported>>

\* The addresses of the list that are in the way.
InTheWay(a) == {g \in seen[a] : <<g, GwOf[a]>> \in Overlapping}

\* The loop meets the address it wants: done.
FindAddr(a) ==
    /\ pc[a] = "addr"
    /\ GwOf[a] \in seen[a]
    /\ Goto(a, "print")
    /\ UNCHANGED <<bridge, seenMac, seen, reported, met>>

\* The loop meets an address in the way.
RefuseAddr(a) ==
    /\ pc[a] = "addr"
    /\ InTheWay(a) # {}
    /\ a \notin ForceAddress
    /\ AddFails(a)
    /\ UNCHANGED bridge

\* deleteAddr of an address in the way ...
DeleteAddr(a) ==
    /\ pc[a] = "addr"
    /\ a \in ForceAddress
    /\ \E g \in InTheWay(a) \cap addrs[VlanOf[a]] :
          /\ addrs' = [addrs EXCEPT ![VlanOf[a]] = @ \ {g}]
          /\ seen' = [seen EXCEPT ![a] = @ \ {g}]
    /\ UNCHANGED <<exists, mac, pinned, ports, vlans, pc, seenMac, reported, met>>

\* ... which fails if the address is gone by now.
DeleteAddrFails(a) ==
    /\ pc[a] = "addr"
    /\ a \in ForceAddress
    /\ InTheWay(a) \ addrs[VlanOf[a]] # {}
    /\ AddFails(a)
    /\ UNCHANGED bridge

\* Variant: addresses in the way are ignored.
AddAddrAnyway(a) ==
    /\ pc[a] = "addr"
    /\ GwOf[a] \notin seen[a]
    /\ addrs' = [addrs EXCEPT ![VlanOf[a]] = @ \cup {GwOf[a]}]
    /\ Goto(a, "pin")
    /\ UNCHANGED <<exists, mac, pinned, ports, vlans, seenMac, seen, reported, met>>

\* The loop is over: AddrAdd, for which EEXIST is no error.
AddAddr(a) ==
    /\ pc[a] = "addr"
    /\ GwOf[a] \notin seen[a]
    /\ InTheWay(a) = {}
    /\ addrs' = [addrs EXCEPT ![VlanOf[a]] = @ \cup {GwOf[a]}]
    /\ Goto(a, "pin")
    /\ UNCHANGED <<exists, mac, pinned, ports, vlans, seenMac, seen, reported, met>>

\* Variant: without LinkSetHardwareAddr.
PinMacNever(a) ==
    /\ pc[a] = "pin"
    /\ Goto(a, "print")
    /\ UNCHANGED <<bridge, seenMac, seen, reported, met>>

\* Set the interface's hardware address to what it was when it was fetched.
\* That of a VLAN's interface cannot have changed.
PinMac(a) ==
    /\ pc[a] = "pin"
    /\ Goto(a, "print")
    /\ IF VlanOf[a] = NoVlan
       THEN mac' = seenMac[a] /\ pinned' = TRUE
       ELSE UNCHANGED <<mac, pinned>>
    /\ UNCHANGED <<exists, ports, vlans, addrs, seenMac, seen, reported, met>>

\* The bridge is fetched again and reported.
PrintResult(a) ==
    /\ pc[a] = "print"
    /\ reported' = [reported EXCEPT ![a] = mac]
    /\ Goto(a, "in")
    /\ seenMac' = [seenMac EXCEPT ![a] = NoMac]
    /\ seen' = [seen EXCEPT ![a] = {}]
    /\ UNCHANGED <<bridge, met>>

-----------------------------------------------------------------------------
(* DEL and crashes.                                                        *)

\* Variant: DEL takes the gateway's address with it.
DelDropsGateway(a) ==
    /\ pc[a] \in {"in", "failed"}
    /\ ports' = [ports EXCEPT ![a] = NoMac]
    /\ mac' = Recalculated(ports')
    /\ addrs' = [addrs EXCEPT ![VlanOf[a]] = @ \ {GwOf[a]}]
    /\ reported' = [reported EXCEPT ![a] = NoMac]
    /\ Goto(a, "out")
    /\ UNCHANGED <<exists, pinned, vlans, seenMac, seen, met>>

\* DelLinkByNameAddr in the container removes the port as well; the bridge,
\* its VLAN interfaces and their addresses stay.
Del(a) ==
    /\ pc[a] \in {"in", "failed"}
    /\ ports' = [ports EXCEPT ![a] = NoMac]
    /\ mac' = Recalculated(ports')
    /\ reported' = [reported EXCEPT ![a] = NoMac]
    /\ Goto(a, "out")
    /\ UNCHANGED <<exists, pinned, vlans, addrs, seenMac, seen, met>>

Crash(a) ==
    /\ pc[a] \in CrashAt
    /\ AddFails(a)
    /\ UNCHANGED bridge

Next ==
    \E a \in Att :
       \/ EnsureBridge(a) \/ SetupVeth(a) \/ LookForVlan(a)
       \/ MakeVlan(a) \/ MakeVlanFails(a) \/ ListAddrs(a) \/ FindAddr(a) \/ RefuseAddr(a)
       \/ DeleteAddr(a) \/ DeleteAddrFails(a) \/ AddAddr(a) \/ PinMac(a) \/ PrintResult(a)
       \/ Del(a) \/ Crash(a)

Spec == Init /\ [][Next]_vars

-----------------------------------------------------------------------------
(* Correctness.                                                            *)

TypeOK ==
    /\ exists \in BOOLEAN /\ pinned \in BOOLEAN
    /\ mac \in {NoMac} \cup Macs
    /\ ports \in [Att \cup Vlans -> {NoMac} \cup Macs]
    /\ vlans \in SUBSET Vlans
    /\ addrs \in [Ifaces -> SUBSET Gateways]
    /\ pc \in [Att -> AddSteps \cup {"out", "in", "failed"}]
    /\ seenMac \in [Att -> {NoMac} \cup Macs]
    /\ seen \in [Att -> SUBSET Gateways]
    /\ reported \in [Att -> {NoMac} \cup Macs]
    /\ met \in SUBSET (Att \X Att)

\* An attachment without a VLAN is in use, and no such ADD runs.
Quiet ==
    /\ \E a \in Att : VlanOf[a] = NoVlan /\ pc[a] = "in"
    /\ \A a \in Att : VlanOf[a] = NoVlan => ~Running(a)

\* The bridge's hardware address is m, and so is the one the attachment's ADD
\* reported, if it has reported one.
Shows(a, m) == mac = m /\ reported[a] \in {NoMac, m}

(***************************************************************************)
(* "creates a bridge with a stable MAC addresses": the first ADDs of a     *)
(* node may set the bridge's hardware address over each other's, but once  *)
(* none of them runs and one has succeeded the address is final.  Whatever *)
(* ADDs run together, fail or are killed and whatever veths come and go    *)
(* from then on, it stays, and an ADD that reports reports it, which is    *)
(* what CHECK compares (ensureAddr, validateCniBrInterface).  It takes     *)
(* that no ADD stops between AddrAdd and LinkSetHardwareAddr.              *)
(***************************************************************************)
MacSettles ==
    \A a \in Att, m \in Macs : [](Quiet /\ Shows(a, m) => []Shows(a, m))

(***************************************************************************)
(* The gateway's address of an attachment in use is on its interface,      *)
(* unless a network of that interface has forceAddress and an overlapping  *)
(* gateway: nothing else removes it, and no ADD succeeds without it        *)
(* (ensureAddr, Del).                                                      *)
(***************************************************************************)
GatewayServed ==
    \A a \in Att :
       pc[a] = "in" =>
          \/ GwOf[a] \in addrs[VlanOf[a]]
          \/ \E b \in ForceAddress :
                VlanOf[b] = VlanOf[a] /\ <<GwOf[a], GwOf[b]>> \in Overlapping

\* ADDs that wanted g and h on the interface have met.
Raced(i, g, h) ==
    \E a, b \in Att :
       VlanOf[a] = i /\ VlanOf[b] = i /\ GwOf[a] = g /\ GwOf[b] = h /\ <<a, b>> \in met

(***************************************************************************)
(* "For IPv4 or for overlapping IPv6 subnets, reconfigure the IP address   *)
(* if forceAddress is true, otherwise throw an error": an interface holds  *)
(* two addresses that exclude each other only if ADDs that wanted them     *)
(* were once between AddrList and AddrAdd at the same time; no list that   *)
(* has become old in any other way, no failed deletion and no kill leads   *)
(* there (ensureAddr).                                                     *)
(***************************************************************************)
OverlapsRaced ==
    \A i \in Ifaces : \A g, h \in addrs[i] :
       <<g, h>> \in Overlapping => Raced(i, g, h)
=============================================================================
