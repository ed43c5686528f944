----------------------------- MODULE Bandwidth -----------------------------
(***************************************************************************)
(* The bandwidth plugin: traffic to the container is shaped by a token     *)
(* bucket (tbf) at the root of the host's end of its veth pair, and        *)
(* traffic from it is redirected to an ifb device with a token bucket of   *)
(* its own.  What is attached to an interface goes with it; the ifb        *)
(* devices are removed by DEL.                                             *)
(***************************************************************************)
EXTENDS PluginChain

CONSTANTS
    Bandwidths,     \* Bandwidths[a]: the BandwidthEntry of a, or NoBandwidth
    NoBandwidth,
    VethPeer,       \* attachments whose interface has a peer in the host
    IfbOf,          \* IfbOf[a]: the name of the ifb device of a
    NoTbf, NoIfb,
    MaxUint32       \* the limit of a burst, in bytes

\* What may be attached to an interface: a token bucket at the root, and a
\* qdisc for the incoming packets with a filter.
Tbfs == [rate : Nat, burst : Nat]
Links == [root : Tbfs \cup {NoTbf}, ingress : BOOLEAN, redirect : {"none", "ifb", "dangling"}]

ASSUME BandwidthAssumption ==
    /\ \A a \in Att : /\ Fresh[a] \in Links
                      /\ Bandwidths[a] # NoBandwidth => Bandwidths[a] \in
                            [ingressRate : Nat, ingressBurst : Nat, egressRate : Nat, egressBurst : Nat]
    /\ NoLink \notin Links
    /\ NoTbf \notin Tbfs /\ NoIfb \notin Tbfs \cup {NoTbf}

VARIABLES ifbs      \* ifbs[n]: the token bucket of the ifb device n, or NoIfb

IfbNames == {IfbOf[a] : a \in Att}

BandwidthInit == ifbs = [n \in IfbNames |-> NoIfb]

----------------------------------------------------------------------------

validateRateAndBurst(rate, burst) ==
    /\ rate = 0 <=> burst = 0
    /\ burst \div 8 < MaxUint32

\* parseConfig
ValidBandwidth(a) ==
    LET bw == Bandwidths[a] IN
    bw # NoBandwidth => /\ validateRateAndBurst(bw.ingressRate, bw.ingressBurst)
                        /\ validateRateAndBurst(bw.egressRate, bw.egressBurst)

isZero(bw) == bw.ingressRate + bw.ingressBurst + bw.egressRate + bw.egressBurst = 0

ShapesIngress(a) == Bandwidths[a].ingressRate > 0 /\ Bandwidths[a].ingressBurst > 0

ShapesEgress(a) == Bandwidths[a].egressRate > 0 /\ Bandwidths[a].egressBurst > 0

\* The token bucket of a rate and a burst given in bits; its buffer and its
\* limit are functions of these two.
Tbf(rate, burst) == [rate |-> rate \div 8, burst |-> burst \div 8]

IngressTbf(a) == Tbf(Bandwidths[a].ingressRate, Bandwidths[a].ingressBurst)

EgressTbf(a) == Tbf(Bandwidths[a].egressRate, Bandwidths[a].egressBurst)

\* getHostInterface
HasHostInterface(a) == a \in VethPeer /\ link[a] # NoLink

TcCall(op) == [op |-> op]

----------------------------------------------------------------------------

BandwidthAdd(a) ==
    /\ proc[a].cmd = "add"
    /\ IF ~ValidBandwidth(a) THEN Error(a)
       ELSE IF Bandwidths[a] = NoBandwidth THEN Do(a, <<>>)
       ELSE IF isZero(Bandwidths[a]) THEN Do(a, <<>>)
       ELSE IF ~HasHostInterface(a) THEN Error(a)
       ELSE Do(a, (IF ShapesIngress(a) THEN <<TcCall("root tbf")>> ELSE <<>>)
                  \o (IF ShapesEgress(a)
                      THEN <<TcCall("ifb"), TcCall("ingress"), TcCall("filter"), TcCall("ifb tbf")>>
                      ELSE <<>>))

(* Variant: without a result there is nothing to remove. *)
BandwidthDelOfResult(a) ==
    /\ proc[a].cmd = "del"
    /\ Do(a, IF cache[a] THEN <<TcCall("teardown")>> ELSE <<>>)

BandwidthDel(a) ==
    /\ proc[a].cmd = "del"
    /\ IF ValidBandwidth(a) THEN Do(a, <<TcCall("teardown")>>) ELSE Error(a)

(* Variant: the configured bits are compared with the bytes of the qdisc. *)
BandwidthCheckInBits(a) ==
    /\ proc[a].cmd = "check"
    /\ IF ShapesIngress(a) => link[a].root = [rate |-> Bandwidths[a].ingressRate,
                                              burst |-> Bandwidths[a].ingressBurst]
       THEN Do(a, <<>>)
       ELSE Error(a)

(* Without a configuration CHECK dereferences a nil pointer.  A qdisc that *)
(* is no token bucket ends the comparison with success; the ifb device has *)
(* to be there. *)
BandwidthCheck(a) ==
    /\ proc[a].cmd = "check"
    /\ IF /\ HasHostInterface(a)
          /\ Bandwidths[a] # NoBandwidth
          /\ ShapesIngress(a) => link[a].root \in {NoTbf, IngressTbf(a)}
          /\ ShapesEgress(a) => ifbs[IfbOf[a]] \in {NoTbf, EgressTbf(a)}
       THEN Do(a, <<>>)
       ELSE Error(a)

BandwidthStart(a) ==
    /\ At(a, "bandwidth", "start")
    /\ \/ BandwidthAdd(a)
       \/ BandwidthDel(a)
       \/ BandwidthCheck(a)
    /\ UNCHANGED <<link, ifbs>>

(* A call of a is refused: what it adds is there already, or the device it *)
(* needs is not. *)
Refused(a) ==
    \/ At(a, "bandwidth", "root tbf") /\ link[a].root # NoTbf
    \/ At(a, "bandwidth", "ifb") /\ ifbs[IfbOf[a]] # NoIfb
    \/ At(a, "bandwidth", "ingress") /\ link[a].ingress
    \/ At(a, "bandwidth", "filter") /\ ifbs[IfbOf[a]] = NoIfb
    \/ At(a, "bandwidth", "ifb tbf") /\ ifbs[IfbOf[a]] # NoTbf

CreateIngressQdisc(a) ==
    /\ At(a, "bandwidth", "root tbf")
    /\ ~Refused(a)
    /\ link' = [link EXCEPT ![a].root = IngressTbf(a)]
    /\ Do(a, Rest(a))
    /\ UNCHANGED ifbs

CreateIfb(a) ==
    /\ At(a, "bandwidth", "ifb")
    /\ ~Refused(a)
    /\ ifbs' = [ifbs EXCEPT ![IfbOf[a]] = NoTbf]
    /\ Do(a, Rest(a))
    /\ UNCHANGED link

(* CreateEgressQdisc makes three calls. *)
AddIngress(a) ==
    /\ At(a, "bandwidth", "ingress")
    /\ ~Refused(a)
    /\ link' = [link EXCEPT ![a].ingress = TRUE]
    /\ Do(a, Rest(a))
    /\ UNCHANGED ifbs

AddFilter(a) ==
    /\ At(a, "bandwidth", "filter")
    /\ ~Refused(a)
    /\ link' = [link EXCEPT ![a].redirect = "ifb"]
    /\ Do(a, Rest(a))
    /\ UNCHANGED ifbs

ThrottleIfb(a) ==
    /\ At(a, "bandwidth", "ifb tbf")
    /\ ~Refused(a)
    /\ ifbs' = [ifbs EXCEPT ![IfbOf[a]] = EgressTbf(a)]
    /\ Do(a, Rest(a))
    /\ UNCHANGED link

(* The device is not there is no error.  A filter that redirects to it     *)
(* has nowhere to send packets any more. *)
TeardownIfb(a) ==
    /\ At(a, "bandwidth", "teardown")
    /\ ifbs' = [ifbs EXCEPT ![IfbOf[a]] = NoIfb]
    /\ link' = [b \in Att |-> IF link[b] = NoLink THEN NoLink
                              ELSE IF IfbOf[b] = IfbOf[a] /\ link[b].redirect = "ifb"
                              THEN [link[b] EXCEPT !.redirect = "dangling"]
                              ELSE link[b]]
    /\ Do(a, Rest(a))

(* A call is refused, or the kernel fails it. *)
TcFails(a) ==
    /\ Running(a, "bandwidth")
    /\ proc[a].todo # <<>>
    /\ \/ Refused(a) /\ Error(a)
       \/ Call(a).op # "start" /\ Fault(a, Failed)
    /\ UNCHANGED <<link, ifbs>>

BandwidthStep(a) ==
    \/ BandwidthStart(a)
    \/ CreateIngressQdisc(a)
    \/ CreateIfb(a)
    \/ AddIngress(a)
    \/ AddFilter(a)
    \/ ThrottleIfb(a)
    \/ TeardownIfb(a)
    \/ TcFails(a)

----------------------------------------------------------------------------

InPlace(a) ==
    /\ ShapesIngress(a) => link[a].root = IngressTbf(a)
    /\ ShapesEgress(a) => link[a].redirect = "ifb" /\ ifbs[IfbOf[a]] = EgressTbf(a)

(* Both directions of an attachment that is ready are held to their rates, *)
(* and the redirected one has a device to go to, whatever the commands of  *)
(* others do; and no ifb device outlives its attachment, also when the ADD *)
(* that made it failed, or was killed, and left no result (cmdAdd and      *)
(* cmdDel, main.go:164-246).                                               *)
Shaped ==
    \A a \in Att :
        /\ Ready(a, "bandwidth") /\ Bandwidths[a] # NoBandwidth => InPlace(a)
        /\ told[a] = "gone" => ifbs[IfbOf[a]] = NoIfb
=============================================================================
