------------------------------ MODULE Village ------------------------------
(***************************************************************************)
(* The village plugin: ADD and DEL of an attachment, with the IPAM plugin  *)
(* it runs, the veth of its bridge, its masquerading rules and its macvlan *)
(* interface.                                                              *)
(*                                                                         *)
(*   village/village.go   cmdAdd, cmdDel                                   *)
(*   bridge/ctrl.go       Add, Del of the bridge's end                     *)
(*   macvlan/ctrl.go      Add, Del of the macvlan                          *)
(*   ip/link_linux.go, ip/ipmasq_linux.go, ipam/ipam_linux.go              *)
(*                                                                         *)
(* The runtime runs one command at a time for a container, as CNI asks.    *)
(* The bridge itself is the subject of BridgeGateway; here setting it up   *)
(* is a step that works or fails.  The IPAM plugin is AddressPool.         *)
(***************************************************************************)
EXTENDS Naturals

CONSTANTS
    Att,            \* attachments: one interface of one network
    Cont,           \* containers
    ContainerOf,    \* the container of each attachment
    IfNameOf,       \* args.IfName of each attachment
    ChainOf,        \* FormatChainName(conf.Name, args.ContainerID)
    Layer3,         \* attachments of networks with an IPAM plugin
    Results,        \* the address sets the IPAM plugin may answer with
    MvIPs,          \* addresses the IPAM plugin puts on an "mv" interface
    V6IPs,          \* addresses of the second family
    IPMasq,         \* conf.IPMasq
    MacVlan,        \* attachments of networks with conf.MacVlan != nil
    MayFail,        \* labels of the steps that may fail
    CrashAt,        \* labels of the steps before which a process may be killed
    NetnsMayVanish, \* TRUE: the runtime may remove the namespace early
    MaxUnnamed,     \* bound: macvlans a container has under temporary names
    NoLink          \* no interface of that name

Mv == "mv0"
Names == {IfNameOf[a] : a \in Att} \cup {Mv}
Chains == {ChainOf[a] : a \in Att}
IP == UNION Results
Family(ip) == IF ip \in V6IPs THEN 6 ELSE 4

AddSteps == {"ipamAdd", "bridge", "veth", "configure", "gateway", "masq", "print",
             "macvlan", "rename", "unmake", "configureMv",
             "undoLink", "undoMasq", "undoIpam"}
DelSteps == {"ipamDel", "delMv", "delLink", "delMasq"}

ASSUME VillageAssumption ==
    /\ ContainerOf \in [Att -> Cont]
    /\ IfNameOf \in [Att -> STRING]
    /\ \A a \in Att : IfNameOf[a] # Mv
    /\ \A a, b \in Att :
          a # b /\ ContainerOf[a] = ContainerOf[b] => IfNameOf[a] # IfNameOf[b]
    /\ \A a, b \in Att : ChainOf[a] = ChainOf[b] => ContainerOf[a] = ContainerOf[b]
    /\ Layer3 \subseteq Att
    /\ {} \notin Results
    /\ \A S \in SUBSET IP : S # NoLink
    /\ MacVlan \subseteq Att
    /\ IPMasq \in BOOLEAN /\ NetnsMayVanish \in BOOLEAN
    /\ MayFail \subseteq AddSteps \cup DelSteps
    /\ CrashAt \subseteq AddSteps \cup DelSteps
    /\ MaxUnnamed \in Nat \ {0}

VARIABLES
    assigned,   \* the IPAM plugin: addresses of each attachment
    netns,      \* containers whose network namespace exists
    link,       \* the addresses of each interface of each container
    unnamed,    \* macvlans of each container that have a temporary name
    jumps,      \* POSTROUTING: source addresses sent to each chain
    chain,      \* the nat chains, per family
    cmd,        \* the plugin process of each container
    status      \* what the runtime knows of each attachment

kernel == <<netns, link, unnamed, jumps, chain>>
vars == <<assigned, kernel, cmd, status>>

Pool == INSTANCE AddressPool

NoCmd == [pc |-> "idle", att |-> "none", ifName |-> Mv, path |-> TRUE,
          todo |-> {}, prints |-> 0]

Init ==
    /\ Pool!Init
    /\ netns  = Cont
    /\ link   = [c \in Cont |-> [i \in Names |-> NoLink]]
    /\ unnamed = [c \in Cont |-> 0]
    /\ jumps  = [ch \in Chains |-> {}]
    /\ chain  = [ch \in Chains |-> [f \in {4, 6} |-> "none"]]
    /\ cmd    = [c \in Cont |-> NoCmd]
    /\ status = [a \in Att |-> "none"]

-----------------------------------------------------------------------------
At(c, label) == cmd[c].pc = label
Fails(c, label) == At(c, label) /\ label \in MayFail
Goto(c, label) == cmd' = [cmd EXCEPT ![c].pc = label]

\* The split of the IPAM result between the two interfaces.
BrIPs(c) == assigned[cmd[c].att] \ MvIPs
MvOf(c) == assigned[cmd[c].att] \cap MvIPs

SetLink(c, i, addrs) == link' = [link EXCEPT ![c][i] = addrs]

\* The command ends; the runtime learns how.
Answer(c, s) ==
    /\ cmd'    = [cmd EXCEPT ![c] = NoCmd]
    /\ status' = [status EXCEPT ![cmd[c].att] = s]

\* Variant: without the deferred ExecDel.
AddFailsKeepingAddresses(c) == Answer(c, "addFailed")

\* cmdAdd returns an error after ExecAdd and before bridge.Add is through: the
\* deferred function releases the addresses; the links are left alone.
AddFails(c) ==
    IF cmd[c].att \in Layer3
    THEN Goto(c, "undoIpam") /\ UNCHANGED status
    ELSE Answer(c, "addFailed")

\* The command succeeds; stdout holds this many results, and the runtime can
\* read one.
Succeed(c, prints) == Answer(c, IF prints = 1 THEN "ready" ELSE "garbled")

-----------------------------------------------------------------------------
(* ADD.                                                                    *)

BeginAdd(a) ==
    LET c == ContainerOf[a]
    IN  /\ At(c, "idle")
        /\ c \in netns
        /\ status[a] = "none"
        /\ cmd' = [cmd EXCEPT ![c] =
                     [NoCmd EXCEPT !.pc = IF a \in Layer3 THEN "ipamAdd" ELSE "bridge",
                                   !.att = a, !.ifName = IfNameOf[a]]]
        /\ status' = [status EXCEPT ![a] = "adding"]
        /\ UNCHANGED <<assigned, kernel>>

IpamAdd(c) ==
    /\ At(c, "ipamAdd")
    /\ Pool!Assign(cmd[c].att)
    /\ Goto(c, "bridge")
    /\ UNCHANGED <<kernel, status>>

\* Also when the pool is exhausted.
IpamAddFails(c) ==
    /\ At(c, "ipamAdd")
    /\ Answer(c, "addFailed")
    /\ UNCHANGED <<assigned, kernel>>

\* setupBridge, and GetNS, which holds the namespace open from here on.
SetupBridge(c) ==
    /\ At(c, "bridge")
    /\ Goto(c, "veth")
    /\ UNCHANGED <<assigned, kernel, status>>

SetupBridgeFails(c) ==
    /\ Fails(c, "bridge")
    /\ AddFails(c)
    /\ UNCHANGED <<assigned, kernel>>

SetupVeth(c) ==
    /\ At(c, "veth")
    /\ link[c][cmd[c].ifName] = NoLink
    /\ SetLink(c, cmd[c].ifName, {})
    /\ Goto(c, IF cmd[c].att \in Layer3 THEN "configure" ELSE "print")
    /\ UNCHANGED <<assigned, netns, unnamed, jumps, chain, status>>

\* The name is taken, or netlink fails before or after the pair is created.
SetupVethFails(c) ==
    /\ At(c, "veth")
    /\ \/ link' = link /\ (link[c][cmd[c].ifName] # NoLink \/ "veth" \in MayFail)
       \/ /\ "veth" \in MayFail
          /\ link[c][cmd[c].ifName] = NoLink
          /\ SetLink(c, cmd[c].ifName, {})
    /\ AddFails(c)
    /\ UNCHANGED <<assigned, netns, unnamed, jumps, chain>>

\* calcGateways and ConfigureIface.
Configure(c) ==
    /\ At(c, "configure")
    /\ BrIPs(c) # {}
    /\ SetLink(c, cmd[c].ifName, BrIPs(c))
    /\ Goto(c, "gateway")
    /\ UNCHANGED <<assigned, netns, unnamed, jumps, chain, status>>

\* Variant: the error of ConfigureIface is dropped.
ConfigureFailsSilently(c) ==
    /\ Fails(c, "configure")
    /\ \E S \in SUBSET BrIPs(c) : SetLink(c, cmd[c].ifName, S)
    /\ Goto(c, "gateway")
    /\ UNCHANGED <<assigned, netns, unnamed, jumps, chain, status>>

\* No address is for the bridge's end, or an address or a route is refused
\* when some addresses have been added.
ConfigureFails(c) ==
    /\ At(c, "configure")
    /\ BrIPs(c) = {} \/ "configure" \in MayFail
    /\ \E S \in SUBSET BrIPs(c) : SetLink(c, cmd[c].ifName, S)
    /\ AddFails(c)
    /\ UNCHANGED <<assigned, netns, unnamed, jumps, chain>>

\* The port's state, the gratuitous ARP, and the gateway's addresses.
SetGateway(c) ==
    /\ At(c, "gateway")
    /\ cmd' = [cmd EXCEPT ![c].pc = IF IPMasq THEN "masq" ELSE "print",
                          ![c].todo = IF IPMasq THEN BrIPs(c) ELSE {}]
    /\ UNCHANGED <<assigned, kernel, status>>

SetGatewayFails(c) ==
    /\ Fails(c, "gateway")
    /\ AddFails(c)
    /\ UNCHANGED <<assigned, kernel>>

\* SetupIPMasq of one address: the chain and its rules, then the jump to it.
SetupIPMasq(c) ==
    LET ch == ChainOf[cmd[c].att]
    IN  /\ At(c, "masq")
        /\ \E ip \in cmd[c].todo :
              /\ chain' = [chain EXCEPT ![ch][Family(ip)] = "masq"]
              /\ jumps' = [jumps EXCEPT ![ch] = @ \cup {ip}]
              /\ cmd' = [cmd EXCEPT ![c].todo = @ \ {ip},
                           ![c].pc = IF cmd[c].todo = {ip} THEN "print" ELSE "masq"]
        /\ UNCHANGED <<assigned, netns, link, unnamed, status>>

\* Variant: the error of SetupIPMasq is dropped.
SetupIPMasqFailsSilently(c) ==
    /\ Fails(c, "masq")
    /\ cmd' = [cmd EXCEPT ![c].todo = {}, ![c].pc = "print"]
    /\ UNCHANGED <<assigned, kernel, status>>

\* iptables fails at any of its calls.
SetupIPMasqFails(c) ==
    LET ch == ChainOf[cmd[c].att]
    IN  /\ Fails(c, "masq")
        /\ \E ip \in cmd[c].todo :
              chain' \in {chain, [chain EXCEPT ![ch][Family(ip)] = "masq"],
                          [chain EXCEPT ![ch][Family(ip)] = IF @ = "none" THEN "bare" ELSE @]}
        /\ AddFails(c)
        /\ UNCHANGED <<assigned, netns, link, unnamed, jumps>>

\* Variant: the deferred ExecDel runs although the ADD succeeded.
PrintResultThenRelease(c) ==
    /\ At(c, "print")
    /\ Pool!Revoke(cmd[c].att)
    /\ Succeed(c, 1)
    /\ UNCHANGED kernel

\* bridge.Add prints its result; cmdAdd goes on if there is a macvlan to make.
\* From now on args.IfName is "mv0" for everyone who shares args.
PrintResult(c) ==
    /\ At(c, "print")
    /\ IF cmd[c].att \in Layer3 \cap MacVlan /\ MvOf(c) # {}
       THEN /\ cmd' = [cmd EXCEPT ![c].pc = "macvlan", ![c].ifName = Mv, ![c].prints = 1]
            /\ UNCHANGED status
       ELSE Succeed(c, 1)
    /\ UNCHANGED <<assigned, kernel>>

PrintResultFails(c) ==
    /\ Fails(c, "print")
    /\ AddFails(c)
    /\ UNCHANGED <<assigned, kernel>>

\* createMacvlan makes the link in the namespace under a temporary name ...
CreateMacvlan(c) ==
    /\ At(c, "macvlan")
    /\ unnamed[c] < MaxUnnamed
    /\ unnamed' = [unnamed EXCEPT ![c] = @ + 1]
    /\ Goto(c, "rename")
    /\ UNCHANGED <<assigned, netns, link, jumps, chain, status>>

CreateMacvlanFails(c) ==
    /\ Fails(c, "macvlan")
    /\ Goto(c, "undoLink")
    /\ UNCHANGED <<assigned, kernel, status>>

\* The temporary name becomes "mv0".
Rename(c) ==
    /\ link[c][Mv] = NoLink
    /\ SetLink(c, Mv, {})
    /\ unnamed' = [unnamed EXCEPT ![c] = @ - 1]

\* ... sets proxy_arp, and renames it.
RenameMacvlan(c) ==
    /\ At(c, "rename")
    /\ Rename(c)
    /\ Goto(c, "configureMv")
    /\ UNCHANGED <<assigned, netns, jumps, chain, status>>

\* The name is taken, or proxy_arp or the name is refused: the link is deleted.
\* If it cannot be fetched under its new name, it is not.
RenameMacvlanFails(c) ==
    /\ At(c, "rename")
    /\ \/ /\ link[c][Mv] # NoLink \/ "rename" \in MayFail
          /\ Goto(c, "unmake")
          /\ UNCHANGED <<link, unnamed>>
       \/ /\ "rename" \in MayFail
          /\ Rename(c)
          /\ Goto(c, "undoLink")
    /\ UNCHANGED <<assigned, netns, jumps, chain, status>>

\* LinkDel of the link with the temporary name; its error is ignored.
Unmake(c) ==
    /\ At(c, "unmake")
    /\ \/ unnamed' = [unnamed EXCEPT ![c] = @ - 1]
       \/ "unmake" \in MayFail /\ UNCHANGED unnamed
    /\ Goto(c, "undoLink")
    /\ UNCHANGED <<assigned, netns, link, jumps, chain, status>>

\* macvlan.Add configures the interface and prints a result of its own.
ConfigureMacvlan(c) ==
    /\ At(c, "configureMv")
    /\ SetLink(c, Mv, MvOf(c))
    /\ Succeed(c, cmd[c].prints + 1)
    /\ UNCHANGED <<assigned, netns, unnamed, jumps, chain>>

\* A failed ConfigureIface deletes the link; a failed PrintResult does not.
ConfigureMacvlanFails(c) ==
    /\ Fails(c, "configureMv")
    /\ SetLink(c, Mv, NoLink) \/ SetLink(c, Mv, MvOf(c))
    /\ Goto(c, "undoLink")
    /\ UNCHANGED <<assigned, netns, unnamed, jumps, chain, status>>

-----------------------------------------------------------------------------
(* bridge.Del, called by DEL and by the deferred function of ADD.          *)

\* What follows bridge.Del: the result of DEL, or the release of ADD.
DelReturns(c, ok) ==
    IF status[cmd[c].att] = "adding"
    THEN Goto(c, "undoIpam") /\ UNCHANGED status
    ELSE Answer(c, IF ok THEN "none" ELSE "delFailed")

\* Variant: "eth0" whatever args.IfName is; there are no rules to delete.
DelLinkEth0(c) ==
    /\ At(c, "delLink") \/ At(c, "undoLink")
    /\ SetLink(c, "eth0", NoLink)
    /\ DelReturns(c, TRUE)
    /\ UNCHANGED <<assigned, netns, unnamed, jumps, chain>>

\* DelLinkByNameAddr of args.IfName, whatever that is now.
DelLink(c) ==
    LET addrs == link[c][cmd[c].ifName]
        masq  == IF addrs = NoLink \/ ~IPMasq \/ cmd[c].att \notin Layer3 THEN {} ELSE addrs
    IN  /\ At(c, "delLink") \/ At(c, "undoLink")
        /\ cmd[c].path
        /\ c \in netns
        /\ SetLink(c, cmd[c].ifName, NoLink)
        /\ \/ /\ masq # {}
              /\ cmd' = [cmd EXCEPT ![c].todo = masq,
                           ![c].pc = IF @ = "delLink" THEN "delMasq" ELSE "undoMasq"]
              /\ UNCHANGED status
           \/ masq = {} /\ DelReturns(c, TRUE)
        /\ UNCHANGED <<assigned, netns, unnamed, jumps, chain>>

\* "" for the namespace: nothing to clean up.
DelLinkWithoutNetns(c) ==
    /\ At(c, "delLink")
    /\ ~cmd[c].path
    /\ DelReturns(c, TRUE)
    /\ UNCHANGED <<assigned, kernel>>

\* WithNetNSPath fails if the path is gone; netlink may fail.
DelLinkFails(c) ==
    /\ At(c, "delLink") \/ At(c, "undoLink")
    /\ cmd[c].path
    /\ c \notin netns \/ cmd[c].pc \in MayFail
    /\ DelReturns(c, FALSE)
    /\ UNCHANGED <<assigned, kernel>>

\* TeardownIPMasq of one address.  iptables refuses a rule whose target it does
\* not know, with a status that isNotExist does not match, and it does not
\* delete a chain that a rule still jumps to: then the chain is left empty.
\* After either error bridge.Del returns.
TeardownIPMasq(c) ==
    LET ch == ChainOf[cmd[c].att]
    IN  /\ At(c, "delMasq") \/ At(c, "undoMasq")
        /\ \E ip \in cmd[c].todo :
              LET f     == Family(ip)
                  used  == \E x \in jumps[ch] \ {ip} : Family(x) = f
                  ok    == chain[ch][f] # "none" /\ ~used
                  after == IF used THEN "bare" ELSE "none"
              IN  /\ IF chain[ch][f] = "none"
                     THEN UNCHANGED <<jumps, chain>>
                     ELSE /\ jumps' = [jumps EXCEPT ![ch] = @ \ {ip}]
                          /\ chain' = [chain EXCEPT ![ch][f] = after]
                  /\ IF ok /\ cmd[c].todo # {ip}
                     THEN cmd' = [cmd EXCEPT ![c].todo = @ \ {ip}] /\ UNCHANGED status
                     ELSE DelReturns(c, ok)
        /\ UNCHANGED <<assigned, netns, link, unnamed>>

\* iptables fails at any of its calls.
TeardownIPMasqFails(c) ==
    LET ch == ChainOf[cmd[c].att]
    IN  /\ Fails(c, "delMasq") \/ Fails(c, "undoMasq")
        /\ \E ip \in cmd[c].todo :
              \/ UNCHANGED <<jumps, chain>>
              \/ /\ jumps' = [jumps EXCEPT ![ch] = @ \ {ip}]
                 /\ chain' \in {chain, [chain EXCEPT ![ch][Family(ip)] = "bare"]}
        /\ DelReturns(c, FALSE)
        /\ UNCHANGED <<assigned, netns, link, unnamed>>

\* The deferred ExecDel of cmdAdd; its error is ignored.
UndoIpam(c) ==
    /\ At(c, "undoIpam")
    /\ \/ Pool!Revoke(cmd[c].att)
       \/ "undoIpam" \in MayFail /\ UNCHANGED assigned
    /\ Answer(c, "addFailed")
    /\ UNCHANGED kernel

-----------------------------------------------------------------------------
(* DEL.                                                                    *)

\* The runtime may ask for it at any time, and again.  Once the namespace is
\* gone it may pass its old path or none.
BeginDel(a) ==
    LET c == ContainerOf[a]
    IN  /\ At(c, "idle")
        /\ \E path \in BOOLEAN :
              /\ path \/ c \notin netns
              /\ cmd' = [cmd EXCEPT ![c] =
                           [NoCmd EXCEPT !.pc = IF a \in Layer3 THEN "ipamDel" ELSE "delMv",
                                         !.att = a, !.ifName = IfNameOf[a], !.path = path]]
        /\ status' = [status EXCEPT ![a] = "deleting"]
        /\ UNCHANGED <<assigned, kernel>>

IpamDel(c) ==
    /\ At(c, "ipamDel")
    /\ Pool!Revoke(cmd[c].att)
    /\ Goto(c, "delMv")
    /\ UNCHANGED <<kernel, status>>

IpamDelFails(c) ==
    /\ Fails(c, "ipamDel")
    /\ Answer(c, "delFailed")
    /\ UNCHANGED <<assigned, kernel>>

\* Variant: args.IfName is not set to "mv0".
DelMacvlanWrongName(c) ==
    /\ At(c, "delMv")
    /\ SetLink(c, cmd[c].ifName, NoLink)
    /\ Goto(c, "delLink")
    /\ UNCHANGED <<assigned, netns, unnamed, jumps, chain, status>>

\* macvlan.Del of "mv0", whether this attachment has one or not; its error is
\* ignored.
DelMacvlan(c) ==
    /\ At(c, "delMv")
    /\ \/ cmd[c].path /\ c \in netns /\ SetLink(c, Mv, NoLink)
       \/ (~cmd[c].path \/ c \notin netns \/ "delMv" \in MayFail) /\ UNCHANGED link
    /\ Goto(c, "delLink")
    /\ UNCHANGED <<assigned, netns, unnamed, jumps, chain, status>>

-----------------------------------------------------------------------------
(* What happens to the container.                                          *)

\* The process is killed.  What a step leaves that is cut off in its middle is
\* what it leaves when it fails.
Crash(c) ==
    /\ cmd[c].pc \in CrashAt
    /\ Answer(c, "killed")
    /\ UNCHANGED <<assigned, kernel>>

\* The namespace is removed, and its interfaces with it.
NetnsVanishes(c) ==
    /\ NetnsMayVanish
    /\ c \in netns
    /\ At(c, "idle")
    /\ netns' = netns \ {c}
    /\ link'  = [link EXCEPT ![c] = [i \in Names |-> NoLink]]
    /\ unnamed' = [unnamed EXCEPT ![c] = 0]
    /\ UNCHANGED <<assigned, jumps, chain, cmd, status>>

Next ==
    \/ \E a \in Att : BeginAdd(a) \/ BeginDel(a)
    \/ \E c \in Cont :
          \/ IpamAdd(c) \/ IpamAddFails(c) \/ SetupBridge(c) \/ SetupBridgeFails(c)
          \/ SetupVeth(c) \/ SetupVethFails(c) \/ Configure(c) \/ ConfigureFails(c)
          \/ SetGateway(c) \/ SetGatewayFails(c) \/ SetupIPMasq(c) \/ SetupIPMasqFails(c)
          \/ PrintResult(c) \/ PrintResultFails(c)
          \/ CreateMacvlan(c) \/ CreateMacvlanFails(c)
          \/ RenameMacvlan(c) \/ RenameMacvlanFails(c) \/ Unmake(c)
          \/ ConfigureMacvlan(c) \/ ConfigureMacvlanFails(c)
          \/ DelLink(c) \/ DelLinkWithoutNetns(c) \/ DelLinkFails(c)
          \/ TeardownIPMasq(c) \/ TeardownIPMasqFails(c) \/ UndoIpam(c)
          \/ IpamDel(c) \/ IpamDelFails(c) \/ DelMacvlan(c)
          \/ Crash(c) \/ NetnsVanishes(c)

Spec == Init /\ [][Next]_vars

-----------------------------------------------------------------------------
(* Correctness.                                                            *)

CmdType ==
    [pc : {"idle"} \cup AddSteps \cup DelSteps, att : Att \cup {"none"},
     ifName : Names, path : BOOLEAN, todo : SUBSET IP, prints : 0 .. 1]

TypeOK ==
    /\ assigned \in [Att -> SUBSET IP]
    /\ netns  \in SUBSET Cont
    /\ link   \in [Cont -> [Names -> {NoLink} \cup SUBSET IP]]
    /\ unnamed \in [Cont -> 0 .. MaxUnnamed]
    /\ jumps  \in [Chains -> SUBSET IP]
    /\ chain  \in [Chains -> [{4, 6} -> {"none", "bare", "masq"}]]
    /\ cmd    \in [Cont -> CmdType]
    /\ status \in [Att -> {"none", "adding", "ready", "garbled", "addFailed",
                           "deleting", "delFailed", "killed"}]

\* The plugin said that the ADD succeeded.
Added(a) == status[a] \in {"ready", "garbled"}

Bridged(a) == IF a \in Layer3 THEN assigned[a] \ MvIPs ELSE {}

\* No other attachment is in the container: cmdDel deletes "mv0" whoever made it.
OnlyOne(a) == \A b \in Att : ContainerOf[b] = ContainerOf[a] => b = a

(***************************************************************************)
(* An attachment whose ADD succeeded has its veth with all the addresses   *)
(* of the IPAM plugin's answer that are for it and no other, and if it is  *)
(* the only one in its container its "mv0" with the rest, until its DEL:   *)
(* whatever the commands of other attachments, in the same container and   *)
(* in others, leave half done, undo or delete (cmdAdd, cmdDel,             *)
(* ConfigureIface, the deferred functions).                                *)
(***************************************************************************)
ReadyComplete ==
    \A a \in Att :
       Added(a) /\ ContainerOf[a] \in netns =>
          /\ link[ContainerOf[a]][IfNameOf[a]] = Bridged(a)
          /\ OnlyOne(a) /\ a \in MacVlan /\ assigned[a] \cap MvIPs # {} =>
                link[ContainerOf[a]][Mv] = assigned[a] \cap MvIPs

(***************************************************************************)
(* "SetupIPMasq installs iptables rules to masquerade traffic coming from  *)
(* ip of ipn": while the attachment is in use, its addresses jump to a     *)
(* chain that masquerades (SetupIPMasq, TeardownIPMasq).                   *)
(***************************************************************************)
MasqHolds ==
    \A a \in Att : \A ip \in Bridged(a) :
       Added(a) /\ IPMasq =>
          /\ ip \in jumps[ChainOf[a]]
          /\ chain[ChainOf[a]][Family(ip)] = "masq"

(***************************************************************************)
(* "TeardownIPMasq undoes the effects of SetupIPMasq": when a DEL has      *)
(* succeeded, no address, interface, rule or chain of the attachment is    *)
(* left, wherever ADDs failed or were killed before it, and wherever       *)
(* earlier DELs were before they had removed the interface.  It takes that *)
(* createMacvlan is not killed before it has renamed or deleted the link   *)
(* (cmdDel, bridge.Del).                                                   *)
(***************************************************************************)
DelCleans ==
    \A a \in Att :
       (\A b \in Att : ChainOf[b] = ChainOf[a] => status[b] = "none") =>
          /\ assigned[a] = {}
          /\ link[ContainerOf[a]][IfNameOf[a]] = NoLink
          /\ jumps[ChainOf[a]] = {}
          /\ \A f \in {4, 6} : chain[ChainOf[a]][f] = "none"
          /\ (\A b \in Att : ContainerOf[b] = ContainerOf[a] => status[b] = "none") =>
                link[ContainerOf[a]][Mv] = NoLink /\ unnamed[ContainerOf[a]] = 0

(***************************************************************************)
(* A failed ADD has given its addresses back and left no macvlan behind,   *)
(* under either name (the deferred functions of cmdAdd and of macvlan.Add, *)
(* and the LinkDel of createMacvlan).                                      *)
(***************************************************************************)
FailedAddUndone ==
    \A a \in Att :
       status[a] = "addFailed" =>
          /\ assigned[a] = {}
          /\ a \in MacVlan =>
                link[ContainerOf[a]][Mv] = NoLink /\ unnamed[ContainerOf[a]] = 0

\* The addresses on an attachment's own interfaces.
OnLinks(a) ==
    LET own == {IfNameOf[a]} \cup IF a \in MacVlan THEN {Mv} ELSE {}
    IN  UNION {link[ContainerOf[a]][i] : i \in
                  {x \in own : link[ContainerOf[a]][x] # NoLink}}

(***************************************************************************)
(* No address is on interfaces of two attachments in use (cmdAdd's split   *)
(* of the IPAM result, and its releases).                                  *)
(***************************************************************************)
UsedOnce ==
    \A a, b \in Att :
       Added(a) /\ Added(b) /\ ContainerOf[a] # ContainerOf[b] =>
          OnLinks(a) \cap OnLinks(b) = {}

=============================================================================
