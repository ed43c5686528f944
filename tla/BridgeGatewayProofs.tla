------------------------ MODULE BridgeGatewayProofs ------------------------
(***************************************************************************)
(* Proofs about the gateways on the shared bridge, for any number of       *)
(* attachments, VLANs and gateways, and whatever ADDs run together or are  *)
(* killed.                                                                 *)
(***************************************************************************)
EXTENDS BridgeGateway, TLAPS

AddrType ==
    /\ pc \in [Att -> AddSteps \cup {"out", "in", "failed"}]
    /\ addrs \in [Ifaces -> SUBSET Gateways]
    /\ seen \in [Att -> SUBSET Gateways]

\* A network with forceAddress may take the gateway of the attachment away.
Contested(a) ==
    \E b \in ForceAddress :
       VlanOf[b] = VlanOf[a] /\ <<GwOf[a], GwOf[b]>> \in Overlapping

Served(a) == GwOf[a] \in addrs[VlanOf[a]] \/ Contested(a)

\* An old list shows the gateway only if it is still there, and nobody gets
\* past ensureAddr without it.
GwInv ==
    \A a \in Att :
       \/ pc[a] = "addr" /\ GwOf[a] \in seen[a]
       \/ pc[a] \in {"pin", "print", "in"}
       => Served(a)

-----------------------------------------------------------------------------
LEMMA IfaceOf ==
  ASSUME NEW a \in Att
  PROVE  VlanOf[a] \in Ifaces /\ GwOf[a] \in Gateways
  BY DEF Ifaces, Vlans, Gateways

(***************************************************************************)
(* The processes and what they list are well typed (EnsureBridge ... Del). *)
(***************************************************************************)
LEMMA AddrTyped == Spec => []AddrType
<1>1. Init => AddrType
  BY DEF Init, AddrType, AddSteps
<1>2. AddrType /\ [Next]_vars => AddrType'
  <2> SUFFICES ASSUME AddrType, [Next]_vars PROVE AddrType'
    OBVIOUS
  <2>1. CASE UNCHANGED vars
    BY <2>1 DEF vars, bridge, AddrType
  <2>2. ASSUME NEW a \in Att,
               \/ EnsureBridge(a) \/ SetupVeth(a) \/ LookForVlan(a) \/ MakeVlan(a)
               \/ FindAddr(a) \/ PinMac(a)
        PROVE  AddrType'
    BY <2>2 DEF AddrType, AddSteps, EnsureBridge, SetupVeth, LookForVlan, MakeVlan, FindAddr,
                PinMac, Goto, bridge
  <2>3. ASSUME NEW a \in Att,
               \/ MakeVlanFails(a) \/ RefuseAddr(a) \/ DeleteAddrFails(a) \/ Crash(a)
               \/ PrintResult(a) \/ Del(a)
        PROVE  AddrType'
    BY <2>3 DEF AddrType, AddSteps, MakeVlanFails, RefuseAddr, DeleteAddrFails, Crash, AddFails,
                PrintResult, Del, Goto, bridge
  <2>4. ASSUME NEW a \in Att, ListAddrs(a)
        PROVE  AddrType'
    BY <2>4, IfaceOf DEF AddrType, AddSteps, ListAddrs, Goto, bridge
  <2>5. ASSUME NEW a \in Att, DeleteAddr(a)
        PROVE  AddrType'
    BY <2>5, IfaceOf DEF AddrType, DeleteAddr
  <2>6. ASSUME NEW a \in Att, AddAddr(a)
        PROVE  AddrType'
    BY <2>6, IfaceOf DEF AddrType, AddSteps, AddAddr, Goto
  <2> QED
    BY <2>1, <2>2, <2>3, <2>4, <2>5, <2>6 DEF Next
<1> QED
  BY <1>1, <1>2, PTL DEF Spec

-----------------------------------------------------------------------------
(***************************************************************************)
(* Only deleteAddr takes an address away, and only from an interface where *)
(* an ADD with forceAddress wants an overlapping one (ensureAddr, Del).    *)
(***************************************************************************)
LEMMA Removal ==
  ASSUME AddrType, [Next]_vars,
         NEW i \in Ifaces, NEW g \in addrs[i] \ addrs'[i]
  PROVE  \E b \in ForceAddress :
            Running(b) /\ VlanOf[b] = i /\ <<g, GwOf[b]>> \in Overlapping
<1>1. CASE UNCHANGED addrs
  BY <1>1
<1>2. ASSUME NEW a \in Att, AddAddr(a)
      PROVE  FALSE
  BY <1>2, IfaceOf DEF AddAddr, AddrType
<1>3. ASSUME NEW a \in Att, DeleteAddr(a)
      PROVE  a \in ForceAddress /\ Running(a) /\ VlanOf[a] = i
             /\ <<g, GwOf[a]>> \in Overlapping
  BY <1>3, IfaceOf DEF DeleteAddr, InTheWay, AddrType, Running, AddSteps
<1>4. UNCHANGED addrs \/ \E a \in Att : AddAddr(a) \/ DeleteAddr(a)
  BY DEF Next, vars, bridge, EnsureBridge, SetupVeth, LookForVlan, MakeVlan,
         MakeVlanFails, ListAddrs, FindAddr, RefuseAddr, DeleteAddrFails, PinMac,
         PrintResult, Del, Crash
<1> QED
  BY <1>1, <1>2, <1>3, <1>4

-----------------------------------------------------------------------------
LEMMA ServedKept ==
  ASSUME AddrType, [Next]_vars, NEW a \in Att, Served(a)
  PROVE  Served(a)'
<1>1. CASE Contested(a)
  BY <1>1 DEF Served, Contested
<1>2. CASE GwOf[a] \in addrs'[VlanOf[a]]
  BY <1>2 DEF Served
<1>3. CASE GwOf[a] \in addrs[VlanOf[a]] /\ GwOf[a] \notin addrs'[VlanOf[a]]
  <2>1. \E b \in ForceAddress :
           Running(b) /\ VlanOf[b] = VlanOf[a] /\ <<GwOf[a], GwOf[b]>> \in Overlapping
    BY <1>3, Removal, IfaceOf
  <2> QED
    BY <2>1 DEF Served, Contested
<1> QED
  BY <1>1, <1>2, <1>3 DEF Served

(***************************************************************************)
(* An ADD that succeeds leaves its gateway on the bridge, and it stays     *)
(* there while the attachment is in use, unless an overlapping network of  *)
(* the same interface has forceAddress: whatever ADDs and DELs run         *)
(* together, fail or are killed (ensureAddr, Del).                         *)
(***************************************************************************)
THEOREM GatewayStays == Spec => []GatewayServed
<1>1. Init => GwInv
  BY DEF Init, GwInv
<1>2. AddrType /\ GwInv /\ [Next]_vars => GwInv'
  <2> SUFFICES ASSUME AddrType, GwInv, [Next]_vars,
                      NEW a \in Att,
                      \/ pc'[a] = "addr" /\ GwOf[a] \in seen'[a]
                      \/ pc'[a] \in {"pin", "print", "in"}
               PROVE  Served(a)'
    BY DEF GwInv
  <2>1. CASE \/ pc[a] = "addr" /\ GwOf[a] \in seen[a]
             \/ pc[a] \in {"pin", "print", "in"}
    BY <2>1, ServedKept DEF GwInv
  <2>2. CASE ~ \/ pc[a] = "addr" /\ GwOf[a] \in seen[a]
               \/ pc[a] \in {"pin", "print", "in"}
    <3>1. ListAddrs(a) \/ AddAddr(a)
      <4>1. CASE UNCHANGED vars
        BY <4>1, <2>2 DEF vars
      <4>2. ASSUME NEW b \in Att,
                   \/ EnsureBridge(b) \/ SetupVeth(b) \/ LookForVlan(b) \/ MakeVlan(b)
                   \/ FindAddr(b) \/ PinMac(b) \/ PrintResult(b) \/ DeleteAddr(b)
            PROVE  FALSE
        BY <4>2, <2>2 DEF AddrType, EnsureBridge, SetupVeth, LookForVlan, MakeVlan,
                          FindAddr, PinMac, PrintResult, DeleteAddr, Goto
      <4>3. ASSUME NEW b \in Att,
                   \/ MakeVlanFails(b) \/ RefuseAddr(b) \/ DeleteAddrFails(b)
                   \/ Crash(b) \/ Del(b)
            PROVE  FALSE
        BY <4>3, <2>2 DEF AddrType, MakeVlanFails, RefuseAddr, DeleteAddrFails, Crash,
                          AddFails, Del, Goto
      <4>4. ASSUME NEW b \in Att, ListAddrs(b) \/ AddAddr(b), b # a
            PROVE  FALSE
        BY <4>4, <2>2 DEF AddrType, ListAddrs, AddAddr, Goto
      <4> QED
        BY <4>1, <4>2, <4>3, <4>4 DEF Next
    <3>2. CASE ListAddrs(a)
      BY <3>2 DEF ListAddrs, Served, AddrType, bridge, Goto
    <3>3. CASE AddAddr(a)
      BY <3>3, IfaceOf DEF AddAddr, Served, AddrType
    <3> QED
      BY <3>1, <3>2, <3>3
  <2> QED
    BY <2>1, <2>2
<1>3. GwInv => GatewayServed
  BY DEF GwInv, Served, Contested, GatewayServed
<1> QED
  BY <1>1, <1>2, <1>3, AddrTyped, PTL DEF Spec

-----------------------------------------------------------------------------
(* The hardware address, when no ADD stops between AddrAdd and             *)
(* LinkSetHardwareAddr.                                                    *)

\* Somebody has set the bridge's hardware address or is about to.
Pinning == pinned \/ \E a \in Att : VlanOf[a] = NoVlan /\ pc[a] = "pin"

\* An address on the bridge, or in a list that was read there, was added by an
\* ADD that went on to set the hardware address; nobody gets past ensureAddr
\* without one.
MacInv ==
    /\ pinned => exists
    /\ \A a \in Att : Running(a) => exists
    /\ addrs[NoVlan] # {} => Pinning
    /\ \A a \in Att :
          /\ VlanOf[a] = NoVlan
          /\ \/ pc[a] = "addr" /\ seen[a] # {}
             \/ pc[a] \in {"print", "in"}
          => Pinning

\* The hardware address m has been set, and no ADD holds another.
Settled(a, m) ==
    /\ exists /\ pinned
    /\ Shows(a, m)
    /\ \A b \in Att : VlanOf[b] = NoVlan /\ Running(b) => seenMac[b] = m

MacType == DOMAIN seenMac = Att /\ DOMAIN reported = Att

LEMMA MacTyped == Spec => []MacType
<1>1. Init => MacType
  BY DEF Init, MacType
<1>2. MacType /\ [Next]_vars => MacType'
  BY DEF MacType, Next, vars, bridge, EnsureBridge, SetupVeth, LookForVlan, MakeVlan,
         MakeVlanFails, ListAddrs, FindAddr, RefuseAddr, DeleteAddr, DeleteAddrFails,
         AddAddr, PinMac, PrintResult, Del, Crash, AddFails
<1> QED
  BY <1>1, <1>2, PTL DEF Spec

LEMMA PinningKept ==
  ASSUME "pin" \notin CrashAt, AddrType, [Next]_vars, Pinning
  PROVE  Pinning'
<1>1. CASE UNCHANGED vars
  BY <1>1 DEF vars, bridge, Pinning
<1>2. ASSUME NEW a \in Att,
             \/ EnsureBridge(a) \/ SetupVeth(a) \/ LookForVlan(a) \/ MakeVlan(a)
             \/ ListAddrs(a) \/ FindAddr(a) \/ DeleteAddr(a) \/ AddAddr(a)
      PROVE  Pinning'
  BY <1>2 DEF AddrType, Pinning, EnsureBridge, SetupVeth, LookForVlan, MakeVlan, ListAddrs,
              FindAddr, DeleteAddr, AddAddr, Goto, bridge
<1>3. ASSUME NEW a \in Att,
             \/ MakeVlanFails(a) \/ RefuseAddr(a) \/ DeleteAddrFails(a) \/ PrintResult(a)
             \/ Del(a) \/ Crash(a)
      PROVE  Pinning'
  BY <1>3 DEF AddrType, Pinning, MakeVlanFails, RefuseAddr, DeleteAddrFails, PrintResult,
              Del, Crash, AddFails, Goto, bridge
<1>4. ASSUME NEW a \in Att, PinMac(a)
      PROVE  Pinning'
  BY <1>4 DEF AddrType, Pinning, PinMac, Goto
<1> QED
  BY <1>1, <1>2, <1>3, <1>4 DEF Next

LEMMA MacStep ==
  ASSUME "pin" \notin CrashAt, AddrType, MacInv, [Next]_vars
  PROVE  MacInv'
<1> NoVlan \in Ifaces
  BY DEF Ifaces
<1>1. CASE UNCHANGED vars
  BY <1>1 DEF vars, bridge, MacInv, Running, Pinning
<1>2. ASSUME NEW a \in Att,
             \/ EnsureBridge(a) \/ SetupVeth(a) \/ LookForVlan(a) \/ MakeVlan(a)
      PROVE  MacInv'
  BY <1>2, PinningKept DEF AddrType, MacInv, Running, AddSteps, EnsureBridge, SetupVeth,
                           LookForVlan, MakeVlan, Goto, bridge
<1>3. ASSUME NEW a \in Att,
             \/ MakeVlanFails(a) \/ RefuseAddr(a) \/ DeleteAddrFails(a) \/ Crash(a)
             \/ PrintResult(a) \/ Del(a)
      PROVE  MacInv'
  BY <1>3, PinningKept DEF AddrType, MacInv, Running, AddSteps, MakeVlanFails, RefuseAddr,
                           DeleteAddrFails, Crash, AddFails, PrintResult, Del, Goto, bridge
<1>4. ASSUME NEW a \in Att, ListAddrs(a) \/ FindAddr(a)
      PROVE  MacInv'
  BY <1>4, PinningKept DEF AddrType, MacInv, Running, AddSteps, ListAddrs, FindAddr, Goto,
                           bridge
<1>5. ASSUME NEW a \in Att, DeleteAddr(a)
      PROVE  MacInv'
  BY <1>5, PinningKept DEF AddrType, MacInv, Running, DeleteAddr
<1>6. ASSUME NEW a \in Att, AddAddr(a)
      PROVE  MacInv'
  <2>1. addrs'[NoVlan] # addrs[NoVlan] => Pinning'
    BY <1>6 DEF AddrType, AddAddr, Pinning, Goto
  <2> QED
    BY <1>6, <2>1, PinningKept DEF AddrType, MacInv, Running, AddSteps, AddAddr, Goto
<1>7. ASSUME NEW a \in Att, PinMac(a)
      PROVE  MacInv'
  <2>1. VlanOf[a] = NoVlan => Pinning'
    BY <1>7 DEF PinMac, Pinning
  <2> QED
    BY <1>7, <2>1, PinningKept DEF AddrType, MacInv, Running, AddSteps, PinMac, Goto
<1> QED
  BY <1>1, <1>2, <1>3, <1>4, <1>5, <1>6, <1>7 DEF Next

LEMMA MacHolds == ASSUME "pin" \notin CrashAt PROVE Spec => []MacInv
<1>1. Init => MacInv
  BY DEF Init, MacInv, Running, AddSteps, Pinning, Ifaces
<1>2. AddrType /\ MacInv /\ [Next]_vars => MacInv'
  BY MacStep
<1> QED
  BY <1>1, <1>2, AddrTyped, PTL DEF Spec

\* The ports of a bridge do not matter once the hardware address is set.
LEMMA SettledStays ==
  ASSUME AddrType, MacType, NEW a \in Att, NEW m \in Macs, Settled(a, m), [Next]_vars
  PROVE  Settled(a, m)'
<1>1. CASE UNCHANGED vars
  BY <1>1 DEF vars, bridge, Settled, Shows, Running
<1>2. ASSUME NEW b \in Att,
             \/ EnsureBridge(b) \/ SetupVeth(b) \/ LookForVlan(b) \/ MakeVlan(b)
      PROVE  Settled(a, m)'
  BY <1>2 DEF AddrType, MacType, Settled, Shows, Running, AddSteps, EnsureBridge,
              SetupVeth, LookForVlan, MakeVlan, Plug, Recalculated, Goto, bridge
<1>3. ASSUME NEW b \in Att,
             \/ MakeVlanFails(b) \/ RefuseAddr(b) \/ DeleteAddrFails(b) \/ Crash(b)
             \/ PrintResult(b) \/ Del(b)
      PROVE  Settled(a, m)'
  BY <1>3 DEF AddrType, MacType, Settled, Shows, Running, AddSteps, MakeVlanFails,
              RefuseAddr, DeleteAddrFails, Crash, AddFails, PrintResult, Del, Recalculated,
              Goto, bridge
<1>4. ASSUME NEW b \in Att,
             \/ ListAddrs(b) \/ FindAddr(b) \/ DeleteAddr(b) \/ AddAddr(b) \/ PinMac(b)
      PROVE  Settled(a, m)'
  BY <1>4 DEF AddrType, MacType, Settled, Shows, Running, AddSteps, ListAddrs, FindAddr,
              DeleteAddr, AddAddr, PinMac, Goto, bridge
<1> QED
  BY <1>1, <1>2, <1>3, <1>4 DEF Next

(***************************************************************************)
(* If no ADD is killed between AddrAdd and LinkSetHardwareAddr, the        *)
(* hardware address is final once an attachment is in use and no ADD runs  *)
(* that could still set it, for any number of ADDs that run together       *)
(* before and afterwards, whatever VLANs, gateways, failures and kills     *)
(* there are (ensureAddr, validateCniBrInterface).                         *)
(***************************************************************************)
THEOREM MacIsFinal == "pin" \notin CrashAt => (Spec => MacSettles)
<1> SUFFICES ASSUME "pin" \notin CrashAt PROVE Spec => MacSettles
  OBVIOUS
<1>1. ASSUME NEW a \in Att, NEW m \in Macs
      PROVE  Spec => [](Quiet /\ Shows(a, m) => []Shows(a, m))
  <2>1. MacInv /\ Quiet /\ Shows(a, m) => Settled(a, m)
    BY DEF MacInv, Quiet, Settled, Pinning, Running, AddSteps
  <2>2. AddrType /\ MacType /\ Settled(a, m) /\ [Next]_vars => Settled(a, m)'
    BY SettledStays
  <2>3. Settled(a, m) => Shows(a, m)
    BY DEF Settled
  <2> QED
    BY <2>1, <2>2, <2>3, AddrTyped, MacTyped, MacHolds, PTL DEF Spec
<1> QED
  BY <1>1 DEF MacSettles

-----------------------------------------------------------------------------
(* The addresses of an interface.                                          *)

\* Rivals between AddrList and AddrAdd have met.
MetPairs ==
    \A a, b \in Att : Rivals(a, b) /\ pc[a] = "addr" /\ pc[b] = "addr" => <<a, b>> \in met

\* Some rival that the attachment has met wants the address.
MetOver(a, h) == \E b \in Att : GwOf[b] = h /\ Rivals(a, b) /\ <<a, b>> \in met

\* What an ADD has not seen in its list was put there by a rival it met.
MetUnseen ==
    \A a \in Att :
       pc[a] = "addr" =>
          \A h \in addrs[VlanOf[a]] \ seen[a] :
             <<GwOf[a], h>> \in Overlapping => MetOver(a, h)

MetBothWays == \A a, b \in Att : <<a, b>> \in met => <<b, a>> \in met

MetInv == MetPairs /\ MetUnseen /\ MetBothWays /\ OverlapsRaced

LEMMA RivalsBothWays == \A a, b \in Att : Rivals(a, b) <=> Rivals(b, a)
  BY BridgeAssumption DEF Rivals

LEMMA NotOwnRival == \A a \in Att : ~Rivals(a, a)
  BY BridgeAssumption DEF Rivals, Gateways

\* Steps that neither add an address nor open a list.
LEMMA MetFrame ==
  ASSUME AddrType, MetInv, met' = met,
         \A i \in Ifaces : addrs'[i] \subseteq addrs[i],
         \A b \in Att : pc'[b] = "addr" =>
            /\ pc[b] = "addr"
            /\ addrs'[VlanOf[b]] \ seen'[b] \subseteq addrs[VlanOf[b]] \ seen[b]
  PROVE  MetInv'
<1>1. MetPairs'
  BY DEF MetInv, MetPairs
<1>2. MetUnseen'
  <2> SUFFICES ASSUME NEW a \in Att, pc'[a] = "addr", NEW h \in addrs'[VlanOf[a]] \ seen'[a],
                      <<GwOf[a], h>> \in Overlapping
               PROVE  MetOver(a, h)'
    BY DEF MetUnseen
  <2>1. MetOver(a, h)
    BY DEF MetInv, MetUnseen
  <2> QED
    BY <2>1 DEF MetOver
<1>3. MetBothWays'
  BY DEF MetInv, MetBothWays
<1>4. OverlapsRaced'
  <2> SUFFICES ASSUME NEW i \in Ifaces, NEW g \in addrs'[i], NEW h \in addrs'[i],
                      <<g, h>> \in Overlapping
               PROVE  Raced(i, g, h)'
    BY DEF OverlapsRaced
  <2>1. Raced(i, g, h)
    BY DEF MetInv, OverlapsRaced
  <2> QED
    BY <2>1 DEF Raced
<1> QED
  BY <1>1, <1>2, <1>3, <1>4 DEF MetInv

LEMMA MetStep ==
  ASSUME AddrType, MetInv, [Next]_vars
  PROVE  MetInv'
<1>1. CASE UNCHANGED vars
  BY <1>1, MetFrame DEF vars, bridge
<1>2. ASSUME NEW a \in Att,
             \/ EnsureBridge(a) \/ SetupVeth(a) \/ LookForVlan(a) \/ MakeVlan(a)
             \/ FindAddr(a) \/ PinMac(a)
      PROVE  MetInv'
  <2>1. addrs' = addrs /\ met' = met /\ seen' = seen
    BY <1>2 DEF EnsureBridge, SetupVeth, LookForVlan, MakeVlan, FindAddr, PinMac, bridge
  <2>2. \A b \in Att : pc'[b] = "addr" => pc[b] = "addr"
    BY <1>2 DEF AddrType, EnsureBridge, SetupVeth, LookForVlan, MakeVlan, FindAddr, PinMac,
                Goto
  <2> QED
    BY <2>1, <2>2, MetFrame
<1>3. ASSUME NEW a \in Att,
             \/ MakeVlanFails(a) \/ RefuseAddr(a) \/ DeleteAddrFails(a) \/ Crash(a)
             \/ PrintResult(a) \/ Del(a)
      PROVE  MetInv'
  <2>1. addrs' = addrs /\ met' = met
    BY <1>3 DEF MakeVlanFails, RefuseAddr, DeleteAddrFails, Crash, AddFails, PrintResult,
                Del, bridge
  <2>2. \A b \in Att : pc'[b] = "addr" => pc[b] = "addr" /\ seen'[b] = seen[b]
    BY <1>3 DEF AddrType, MakeVlanFails, RefuseAddr, DeleteAddrFails, Crash, AddFails,
                PrintResult, Del, Goto
  <2> QED
    BY <2>1, <2>2, MetFrame
<1>4. ASSUME NEW a \in Att, ListAddrs(a)
      PROVE  MetInv'
  <2> DEFINE rivals == {b \in Att : Rivals(a, b) /\ pc[b] = "addr"}
  <2>1. /\ met' = met \cup ({a} \X rivals) \cup (rivals \X {a})
        /\ addrs' = addrs
        /\ seen' = [seen EXCEPT ![a] = addrs[VlanOf[a]]]
        /\ pc' = [pc EXCEPT ![a] = "addr"]
    BY <1>4 DEF ListAddrs, Goto, bridge
  <2>2. met \subseteq met'
    BY <2>1
  <2>3. MetPairs'
    <3> SUFFICES ASSUME NEW b \in Att, NEW c \in Att, Rivals(b, c),
                        pc'[b] = "addr", pc'[c] = "addr"
                 PROVE  <<b, c>> \in met'
      BY DEF MetPairs
    <3>1. CASE b = a
      BY <3>1, <2>1, NotOwnRival DEF AddrType
    <3>2. CASE c = a
      BY <3>2, <2>1, NotOwnRival, RivalsBothWays DEF AddrType
    <3>3. CASE b # a /\ c # a
      BY <3>3, <2>1, <2>2 DEF AddrType, MetInv, MetPairs
    <3> QED
      BY <3>1, <3>2, <3>3
  <2> HIDE DEF rivals
  <2>4. MetUnseen'
    <3> SUFFICES ASSUME NEW b \in Att, pc'[b] = "addr",
                        NEW h \in addrs'[VlanOf[b]] \ seen'[b],
                        <<GwOf[b], h>> \in Overlapping
                 PROVE  MetOver(b, h)'
      BY DEF MetUnseen
    <3>1. b # a
      BY <2>1 DEF AddrType
    <3>2. MetOver(b, h)
      BY <3>1, <2>1 DEF AddrType, MetInv, MetUnseen
    <3> QED
      BY <3>2, <2>2 DEF MetOver
  <2>5. MetBothWays'
    BY <2>1 DEF MetInv, MetBothWays
  <2>6. OverlapsRaced'
    <3> SUFFICES ASSUME NEW i \in Ifaces, NEW g \in addrs'[i], NEW h \in addrs'[i],
                        <<g, h>> \in Overlapping
                 PROVE  Raced(i, g, h)'
      BY DEF OverlapsRaced
    <3>1. Raced(i, g, h)
      BY <2>1 DEF MetInv, OverlapsRaced
    <3> QED
      BY <3>1, <2>2 DEF Raced
  <2> QED
    BY <2>3, <2>4, <2>5, <2>6 DEF MetInv
<1>5. ASSUME NEW a \in Att, DeleteAddr(a)
      PROVE  MetInv'
  <2>1. PICK g : /\ addrs' = [addrs EXCEPT ![VlanOf[a]] = @ \ {g}]
                 /\ seen' = [seen EXCEPT ![a] = @ \ {g}]
                 /\ pc' = pc /\ met' = met
    BY <1>5 DEF DeleteAddr
  <2>2. \A i \in Ifaces : addrs'[i] \subseteq addrs[i]
    BY <2>1 DEF AddrType
  <2>3. \A b \in Att : addrs'[VlanOf[b]] \ seen'[b] \subseteq addrs[VlanOf[b]] \ seen[b]
    BY <2>1, IfaceOf DEF AddrType
  <2> QED
    BY <2>1, <2>2, <2>3, MetFrame
<1>6. ASSUME NEW a \in Att, AddAddr(a)
      PROVE  MetInv'
  <2>1. /\ addrs' = [addrs EXCEPT ![VlanOf[a]] = @ \cup {GwOf[a]}]
        /\ pc[a] = "addr" /\ pc' = [pc EXCEPT ![a] = "pin"]
        /\ seen' = seen /\ met' = met
        /\ \A g \in seen[a] : <<g, GwOf[a]>> \notin Overlapping
    BY <1>6 DEF AddAddr, InTheWay, Goto
  <2>2. \A b \in Att : pc'[b] = "addr" => pc[b] = "addr"
    BY <2>1 DEF AddrType
  <2>3. \A i \in Ifaces : \A h \in addrs'[i] \ addrs[i] : h = GwOf[a] /\ i = VlanOf[a]
    BY <2>1 DEF AddrType
  <2>4. \A g, h : <<g, h>> \in Overlapping => <<h, g>> \in Overlapping /\ g # h
    BY BridgeAssumption
  \* Whom the ADD overlaps without having seen it, it met.
  <2>5. ASSUME NEW h \in addrs[VlanOf[a]], <<GwOf[a], h>> \in Overlapping
        PROVE  MetOver(a, h)
    BY <2>1, <2>4, <2>5 DEF MetInv, MetUnseen
  <2>6. MetPairs'
    BY <2>1, <2>2 DEF MetInv, MetPairs
  <2>7. MetUnseen'
    <3> SUFFICES ASSUME NEW b \in Att, pc'[b] = "addr",
                        NEW h \in addrs'[VlanOf[b]] \ seen'[b],
                        <<GwOf[b], h>> \in Overlapping
                 PROVE  MetOver(b, h)'
      BY DEF MetUnseen
    <3>1. MetOver(b, h)
      <4>1. CASE h \in addrs[VlanOf[b]]
        BY <4>1, <2>1, <2>2 DEF MetInv, MetUnseen
      <4>2. CASE h \notin addrs[VlanOf[b]]
        <5>1. h = GwOf[a] /\ Rivals(b, a)
          BY <4>2, <2>3, IfaceOf DEF Rivals
        <5> QED
          BY <5>1, <2>1, <2>2 DEF MetInv, MetPairs, MetOver
      <4> QED
        BY <4>1, <4>2
    <3> QED
      BY <3>1, <2>1 DEF MetOver
  <2>8. MetBothWays'
    BY <2>1 DEF MetInv, MetBothWays
  <2>9. OverlapsRaced'
    <3> SUFFICES ASSUME NEW i \in Ifaces, NEW g \in addrs'[i], NEW h \in addrs'[i],
                        <<g, h>> \in Overlapping
                 PROVE  Raced(i, g, h)'
      BY DEF OverlapsRaced
    <3>1. CASE g \in addrs[i] /\ h \in addrs[i]
      <4>1. Raced(i, g, h)
        BY <3>1 DEF MetInv, OverlapsRaced
      <4> QED
        BY <4>1, <2>1 DEF Raced
    <3>2. CASE g \notin addrs[i]
      <4>1. g = GwOf[a] /\ VlanOf[a] = i /\ h \in addrs[i]
        BY <3>2, <2>3, <2>4
      <4> QED
        BY <4>1, <2>1, <2>5 DEF MetOver, Rivals, Raced
    <3>3. CASE h \notin addrs[i]
      <4>1. h = GwOf[a] /\ VlanOf[a] = i /\ g \in addrs[i] /\ <<h, g>> \in Overlapping
        BY <3>3, <2>3, <2>4
      <4>2. PICK b \in Att : GwOf[b] = g /\ Rivals(a, b) /\ <<a, b>> \in met
        BY <4>1, <2>5 DEF MetOver
      <4>3. <<b, a>> \in met /\ VlanOf[b] = i
        BY <4>1, <4>2 DEF MetInv, MetBothWays, Rivals
      <4> QED
        BY <4>1, <4>2, <4>3, <2>1 DEF Raced
    <3> QED
      BY <3>1, <3>2, <3>3
  <2> QED
    BY <2>6, <2>7, <2>8, <2>9 DEF MetInv
<1> QED
  BY <1>1, <1>2, <1>3, <1>4, <1>5, <1>6 DEF Next

(***************************************************************************)
(* For any number of ADDs that run together, fail or are killed, and any   *)
(* VLANs, gateways and forceAddress networks: an interface holds two       *)
(* addresses that exclude each other only if ADDs that wanted them met     *)
(* between AddrList and AddrAdd (ensureAddr).                              *)
(***************************************************************************)
THEOREM OverlapsAreRaces == Spec => []OverlapsRaced
<1>1. Init => MetInv
  BY DEF Init, MetInv, MetPairs, MetUnseen, MetBothWays, OverlapsRaced
<1>2. AddrType /\ MetInv /\ [Next]_vars => MetInv'
  BY MetStep
<1>3. MetInv => OverlapsRaced
  BY DEF MetInv
<1> QED
  BY AddrTyped, <1>1, <1>2, <1>3, PTL DEF Spec
=============================================================================
