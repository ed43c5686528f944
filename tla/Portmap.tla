------------------------------ MODULE Portmap ------------------------------
(***************************************************************************)
(* The portmap plugin: the host ports of an attachment are forwarded to    *)
(* its address by rules in the nat tables.  A chain of its own has the     *)
(* rules of an attachment; the chains that lead there, and the ones that   *)
(* mark and masquerade the packets that must come back through the host,   *)
(* are shared by all attachments and are never removed.                    *)
(*                                                                         *)
(* conditionsV4/V6 and the number of the mark bit are left out: the one    *)
(* narrows the entry rule, the other is the same for all.                  *)
(***************************************************************************)
EXTENDS Iptables

CONSTANTS
    Mappings,       \* Mappings[a]: runtimeConfig.portMappings
    PrevIPs,        \* PrevIPs[a]: families and interfaces of prevResult's addresses
    SNAT,           \* SNAT[a]: whether marked packets are masqueraded
    ExternalMark,   \* whether the marking chain is the administrator's
    Usable,         \* the families whose iptables works
    HostIf,         \* HostIf[a]: the interface that routes to a, or "none"
    MultiportMax    \* ports in one multiport rule (15)

\* How a mapping names the host's address: one of a family, the unspecified
\* one of a family, or none.
Hosts == {"v4", "v6", "any4", "any6", "none"}

ASSUME PortmapAssumption ==
    /\ \A a \in Att : Mappings[a] \in
          Seq([proto : {"tcp", "udp", "sctp"}, host : Nat, cont : Nat, hip : Hosts])
    /\ Usable \subseteq {4, 6}
    /\ MultiportMax \in Nat \ {0}

PortOf(m) == <<m.proto, m.host>>

(* The scheduler that chooses the mappings gives a host port to one        *)
(* attachment only. *)
ASSUME PortsApart ==
    \A a, b \in Att : a # b =>
        \A m \in ToSet(Mappings[a]), n \in ToSet(Mappings[b]) : PortOf(m) # PortOf(n)

VARIABLES
    localnet,       \* interfaces that route 127/8
    flows,          \* flows[f][p]: where conntrack sends UDP packets to port p
    logged          \* attachments for which a failed purge was logged

portmapVars == <<localnet, flows, logged>>

NatTable(f) == <<"nat", f>>
DN(a) == <<"DN", a>>
OldSN(a) == <<"SN", a>>

(* The names of the plugin's chains are hashes, and no table begins with one. *)
ASSUME ChainNamesAreNew == \A a \in Att, t \in Tables : DN(a) \notin BuiltIn[t]

SetMark == Shared(IF ExternalMark THEN "EXTERNAL-MARK" ELSE "SETMARK")

NoFlow == Shared("none")
Local == Shared("local")

AllMappings == UNION {ToSet(Mappings[a]) : a \in Att}

UdpPorts == {m.host : m \in {n \in AllMappings : n.proto = "udp"}}

PortmapInit ==
    /\ localnet = {}
    /\ flows = [f \in Usable |-> [p \in UdpPorts |-> NoFlow]]
    /\ logged = {}

----------------------------------------------------------------------------

(* parseConfig *)

ValidPorts(a) == \A i \in DOMAIN Mappings[a] : Mappings[a][i].host > 0 /\ Mappings[a][i].cont > 0

\* The families with an address on the container's own interface.
ContFams(a) ==
    {f \in {4, 6} : \E i \in DOMAIN PrevIPs[a] :
        PrevIPs[a][i].version = f /\ PrevIPs[a][i].if \in {"own", "unset"}}

----------------------------------------------------------------------------

(* The chains *)

NatChain(name, rules, into, entries, prepend) ==
    [name |-> name, rules |-> rules, into |-> into, entries |-> entries,
     prepend |-> prepend]

genSetMarkChain == NatChain(Shared("SETMARK"), <<JumpTo(Shared("MARK"))>>, <<>>, <<>>, FALSE)

genMarkMasqChain ==
    NatChain(Shared("MASQ"), <<JumpTo(Shared("MASQUERADE"))>>,
             <<Shared("POSTROUTING")>>, <<Always>>, TRUE)

genToplevelDnatChain ==
    NatChain(Shared("HOSTPORT-DNAT"), <<>>,
             <<Shared("PREROUTING"), Shared("OUTPUT")>>, <<Always>>, FALSE)

splitPortList(ports) ==
    [i \in 1..((Len(ports) + MultiportMax - 1) \div MultiportMax) |->
        SubSeq(ports, (i - 1) * MultiportMax + 1,
               IF i * MultiportMax < Len(ports) THEN i * MultiportMax ELSE Len(ports))]

groupByProto(a, proto) ==
    FlattenSeq([i \in DOMAIN Mappings[a] |->
        IF Mappings[a][i].proto = proto THEN <<Mappings[a][i].host>> ELSE <<>>])

\* One entry rule per protocol, in the order of their names, and chunk of ports.
EntryRules(a) ==
    LET rules(proto) ==
            LET chunks == splitPortList(groupByProto(a, proto)) IN
            [i \in DOMAIN chunks |-> [Always EXCEPT !.proto = proto, !.ports = chunks[i],
                                                 !.comment = a]] IN
    rules("sctp") \o rules("tcp") \o rules("udp")

HostFam(hip) == IF hip \in {"v4", "any4"} THEN 4 ELSE 6

\* Variant: the marks come after the translation.
MappingRulesMarkLast(a, f, m) ==
    LET base == [Always EXCEPT !.proto = m.proto, !.ports = <<m.host>>,
                            !.dst = IF m.hip \in {"v4", "v6"} THEN m.hip ELSE "any"]
        mark(from) == [base EXCEPT !.from = from, !.to = SetMark] IN
    <<[base EXCEPT !.to = <<"DNAT", <<ip[a], m.cont>>>>]>>
    \o (IF SNAT[a] THEN <<mark(ip[a]), mark("localhost")>> ELSE <<>>)

\* Mark the hairpin, mark localhost, and the translation itself, in that order.
MappingRules(a, f, m) ==
    LET base == [Always EXCEPT !.proto = m.proto, !.ports = <<m.host>>,
                            !.dst = IF m.hip \in {"v4", "v6"} THEN m.hip ELSE "any"]
        mark(from) == [base EXCEPT !.from = from, !.to = SetMark] IN
    (IF SNAT[a] THEN <<mark(ip[a])>> ELSE <<>>)
    \o (IF SNAT[a] /\ f = 4 THEN <<mark("localhost")>> ELSE <<>>)
    \o <<[base EXCEPT !.to = <<"DNAT", <<ip[a], m.cont>>>>]>>

Fits(m, f) == m.hip = "none" \/ HostFam(m.hip) = f

fillDnatRules(a, f) ==
    FlattenSeq([i \in DOMAIN Mappings[a] |->
        IF Fits(Mappings[a][i], f) THEN MappingRules(a, f, Mappings[a][i]) ELSE <<>>])

genDnatChain(a, f) ==
    NatChain(DN(a), fillDnatRules(a, f), <<Shared("HOSTPORT-DNAT")>>, EntryRules(a), FALSE)

EntryTo(c, i) == [c.entries[i] EXCEPT !.to = c.name]

setup(f, c) ==
    LET entries(into) ==
            [i \in DOMAIN c.entries |-> Unique(NatTable(f), into, EntryTo(c, i), c.prepend)] IN
    <<Ensure(NatTable(f), c.name)>>
    \o [i \in DOMAIN c.rules |-> Unique(NatTable(f), c.name, c.rules[i], FALSE)]
    \o FlattenSeq([j \in DOMAIN c.into |-> entries(c.into[j])])

teardown(f, name, into, fail) ==
    OnError(<<IptCall("clear", NatTable(f), name),
              [IptCall("list", NatTable(f), into) EXCEPT !.r = JumpTo(name)],
              IptCall("delchain", NatTable(f), name)>>, fail)

\* chain.check
ChecksOut(f, c) ==
    /\ ChainExists(NatTable(f), c.name)
    /\ \A i \in DOMAIN c.rules : Exists(NatTable(f), c.name, c.rules[i])
    /\ \A j \in DOMAIN c.into : \A i \in DOMAIN c.entries :
          Exists(NatTable(f), c.into[j], EntryTo(c, i))

----------------------------------------------------------------------------

(* The commands *)

\* Where 127/8 has to be routed for the mappings of a to work from the host.
LocalnetIf(a) == {HostIf[a]} \ {"none"}

forwardPorts(a, f) ==
    (IF SNAT[a] /\ ~ExternalMark
     THEN setup(f, genSetMarkChain) \o setup(f, genMarkMasqChain) ELSE <<>>)
    \o (IF SNAT[a] /\ f = 4 /\ LocalnetIf(a) # {} THEN <<[op |-> "localnet"]>> ELSE <<>>)
    \o setup(f, genToplevelDnatChain)
    \o setup(f, genDnatChain(a, f))

deletePortmapStaleConnections(a, f) ==
    <<[op |-> "purge", f |-> f, ports |-> groupByProto(a, "udp")]>>

\* Variant: the flows are purged before the rules are there.
addCallsPurgeFirst(a) ==
    LET family(f) == IF f \in ContFams(a)
                     THEN deletePortmapStaleConnections(a, f) \o forwardPorts(a, f)
                     ELSE <<>> IN
    family(4) \o family(6)

addCalls(a) ==
    LET family(f) == IF f \notin ContFams(a) THEN <<>>
                     ELSE IF f \notin Usable THEN Failed
                     ELSE forwardPorts(a, f) \o deletePortmapStaleConnections(a, f) IN
    IF Mappings[a] = <<>> THEN <<>> ELSE family(4) \o family(6)

unforwardPorts(a, found) ==
    LET dn(f, fail) == teardown(f, DN(a), Shared("HOSTPORT-DNAT"), fail)
        sn(f, fail) == teardown(f, OldSN(a), Shared("HOSTPORT-SNAT"), fail)
        six == IF 6 \in found THEN dn(6, Failed) \o sn(6, <<>>) ELSE <<>>
        four == IF 4 \in found THEN dn(4, Failed) \o sn(4, six) ELSE <<>> IN
    four \o six

\* Both tables are looked at for the rules of one address, and a missing
\* chain ends the check with success.
checkPorts(a, f) ==
    LET c == genDnatChain(a, f)
        there(g) == ChainExists(NatTable(g), c.name)
        six == 6 \in Usable /\ there(6) => ChecksOut(6, c) IN
    /\ Usable # {}
    /\ IF 4 \in Usable THEN there(4) => ChecksOut(4, c) /\ six ELSE six

PortmapAdd(a) ==
    /\ proc[a].cmd = "add"
    /\ logged' = logged \ {a}
    /\ IF ValidPorts(a) THEN Do(a, addCalls(a)) ELSE Error(a)

(* A family whose table cannot be listed at the moment is passed over. *)
UnforwardFound(a) ==
    \/ Do(a, unforwardPorts(a, Usable))
    \/ \E f \in Usable :
          Fault(a, IF Usable = {f} THEN Failed ELSE unforwardPorts(a, Usable \ {f}))

\* Variant: without a result there is nothing to remove.
PortmapDelOfResult(a) ==
    /\ proc[a].cmd = "del"
    /\ Do(a, IF cache[a] THEN unforwardPorts(a, Usable) ELSE <<>>)

PortmapDel(a) ==
    /\ proc[a].cmd = "del"
    /\ IF ~ValidPorts(a) THEN Error(a)
       ELSE IF Mappings[a] = <<>> THEN Do(a, <<>>)
       ELSE IF Usable = {} THEN Error(a)
       ELSE UnforwardFound(a)

PortmapCheck(a) ==
    /\ proc[a].cmd = "check"
    /\ IF Mappings[a] # <<>> => \A f \in ContFams(a) : checkPorts(a, f)
       THEN Do(a, <<>>)
       ELSE Error(a)

PortmapStart(a) ==
    /\ At(a, "portmap", "start")
    /\ \/ PortmapAdd(a)
       \/ PortmapDel(a) /\ UNCHANGED logged
       \/ PortmapCheck(a) /\ UNCHANGED logged
    /\ UNCHANGED <<link, tables, localnet, flows>>

enableLocalnetRouting(a) ==
    /\ At(a, "portmap", "localnet")
    /\ \/ localnet' = localnet \cup LocalnetIf(a) /\ Do(a, Rest(a))
       \/ Fault(a, Failed) /\ UNCHANGED localnet
    /\ UNCHANGED <<link, tables, flows, logged>>

(* One deletion per UDP mapping; an error is logged and ends them. *)
PurgeFlows(a) ==
    LET k == Call(a) IN
    /\ At(a, "portmap", "purge")
    /\ \/ /\ k.ports = <<>>
          /\ Do(a, Rest(a))
          /\ UNCHANGED <<flows, logged>>
       \/ /\ k.ports # <<>>
          /\ flows' = [flows EXCEPT ![k.f][Head(k.ports)] = NoFlow]
          /\ Do(a, <<[k EXCEPT !.ports = Tail(@)]>> \o Rest(a))
          /\ UNCHANGED logged
       \/ /\ k.ports # <<>>
          /\ Fault(a, Rest(a))
          /\ logged' = logged \cup {a}
          /\ UNCHANGED flows
    /\ UNCHANGED <<link, tables, localnet>>

PortmapStep(a) ==
    \/ PortmapStart(a)
    \/ enableLocalnetRouting(a)
    \/ PurgeFlows(a)
    \/ IptStep(a, "portmap") /\ UNCHANGED portmapVars

----------------------------------------------------------------------------

(* What the kernel does with a packet to a local address. *)

Matches(r, pkt) ==
    /\ r.proto \in {"any", pkt.proto}
    /\ r.ports = <<>> \/ Contains(r.ports, pkt.port)
    /\ r.from \in {"any", pkt.from}
    /\ r.dst \in {"any", pkt.dst}

\* The rules that match in the chains of the attachments: <<i, j>> is rule j
\* of the chain that entry i leads to.
Hits(f, pkt) ==
    LET hook == Shared(IF pkt.from = "localhost" THEN "OUTPUT" ELSE "PREROUTING")
        matching(rules) == {i \in DOMAIN rules : Matches(rules[i], pkt)}
        entries == RulesIn(NatTable(f), Shared("HOSTPORT-DNAT")) IN
    {h \in UNION {{i} \X matching(RulesIn(NatTable(f), entries[i].to)) : i \in matching(entries)} :
        Exists(NatTable(f), hook, JumpTo(Shared("HOSTPORT-DNAT")))}

\* Where the rule of a hit sends the packet.
Target(f, h) ==
    LET entry == RulesIn(NatTable(f), Shared("HOSTPORT-DNAT"))[h[1]] IN
    RulesIn(NatTable(f), entry.to)[h[2]].to

\* The order of the walk.
Earlier(g, h) == g[1] < h[1] \/ (g[1] = h[1] /\ g[2] < h[2])

DnatHits(f, pkt) == {h \in Hits(f, pkt) : Target(f, h)[1] = "DNAT"}

\* Where the packet goes: the first translation counts.
Dnat(f, pkt) ==
    LET dnats == DnatHits(f, pkt) IN
    IF dnats = {} THEN Local
    ELSE Target(f, CHOOSE h \in dnats : \A g \in dnats : ~Earlier(g, h))

\* Whether it is sent on with an address of the host.
Masqueraded(f, pkt) ==
    /\ \E h \in Hits(f, pkt) :
          /\ Target(f, h) = Shared("SETMARK")
          /\ \A g \in DnatHits(f, pkt) : ~Earlier(g, h)
    /\ Exists(NatTable(f), Shared("SETMARK"), JumpTo(Shared("MARK")))
    /\ Exists(NatTable(f), Shared("POSTROUTING"), JumpTo(Shared("MASQ")))
    /\ Exists(NatTable(f), Shared("MASQ"), JumpTo(Shared("MASQUERADE")))

Packet(m, from, dst) == [proto |-> m.proto, port |-> m.host, from |-> from, dst |-> dst]

Packets == {Packet(m, from, dst) : m \in AllMappings,
                                   from \in {"client", "localhost"} \cup IPs,
                                   dst \in {"v4", "v6", "other"}}

(* A UDP packet from outside makes an entry of conntrack. *)
NewFlow(f, p) ==
    /\ flows[f][p] = NoFlow
    /\ flows' = [flows EXCEPT ![f][p] =
                    Dnat(f, [proto |-> "udp", port |-> p, from |-> "client", dst |-> "other"])]
    /\ UNCHANGED <<chainVars, tables, localnet, logged>>

FlowExpires(f, p) ==
    /\ flows[f][p] # NoFlow
    /\ flows' = [flows EXCEPT ![f][p] = NoFlow]
    /\ UNCHANGED <<chainVars, tables, localnet, logged>>

----------------------------------------------------------------------------

For(m, f, pkt) ==
    /\ pkt.proto = m.proto
    /\ pkt.port = m.host
    /\ m.hip # "none" => HostFam(m.hip) = f
    /\ m.hip \in {"v4", "v6"} => pkt.dst = m.hip

(* A packet to a mapped port of an attachment that is ready reaches the    *)
(* mapped port of its address, whoever else sets up or removes mappings at *)
(* the same time; and where its answer would not come back through the     *)
(* host (from localhost, from the attachment itself) it is masqueraded.    *)
Forwarded ==
    \A a \in Att : Ready(a, "portmap") => \A f \in ContFams(a), i \in DOMAIN Mappings[a] :
        \A pkt \in {p \in Packets : For(Mappings[a][i], f, p)} :
            /\ Dnat(f, pkt) = <<"DNAT", <<ip[a], Mappings[a][i].cont>>>>
            /\ SNAT[a] /\ (pkt.from = ip[a] \/ (pkt.from = "localhost" /\ f = 4))
                  => Masqueraded(f, pkt)

(* A packet is only ever sent to an attachment that has its address now    *)
(* and has mapped the port: no rule of an attachment that is gone is left, *)
(* whatever failed or was killed in between. *)
NoStrayForward ==
    \A f \in Usable, pkt \in Packets :
        LET to == Dnat(f, pkt) IN
        to # Local => \E a \in Att : \E i \in DOMAIN Mappings[a] :
                          /\ told[a] # "gone"
                          /\ PortOf(Mappings[a][i]) = <<pkt.proto, pkt.port>>
                          /\ to = <<"DNAT", <<ip[a], Mappings[a][i].cont>>>>

(* The UDP packets of a client that sent some before the ports were mapped *)
(* reach the attachment too, unless the plugin logged that it could not    *)
(* see to it. *)
NoStaleFlow ==
    \A a \in Att \ logged : Ready(a, "portmap") =>
        \A f \in ContFams(a), i \in DOMAIN Mappings[a] :
            Mappings[a][i].proto = "udp" /\ Mappings[a][i].hip = "none" =>
                flows[f][Mappings[a][i].host]
                    \in {NoFlow, <<"DNAT", <<ip[a], Mappings[a][i].cont>>>>}
=============================================================================
