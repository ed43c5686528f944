------------------------------ MODULE Firewall ------------------------------
(***************************************************************************)
(* The firewall plugin: the addresses of an attachment are let through the *)
(* host's firewall, by rules in the filter tables (iptables.go) or by      *)
(* making them sources of a zone of firewalld (firewalld.go).  The rules   *)
(* of all attachments share one chain, with the administrator's chains in  *)
(* front.                                                                  *)
(***************************************************************************)
EXTENDS Iptables

CONSTANTS
    Backend,        \* Backend[a]: the configured backend, or "" for the default
    AdminChain,     \* AdminChain[a]: iptablesAdminChainName
    FwFams,         \* FwFams[a]: the families of the addresses of a
    Zone            \* Zone[a]: firewalldZone

\* An administrator's chain does not have the name of a target, and the word
\* for "no zone" is no zone.
ASSUME FirewallAssumption ==
    \A a \in Att : /\ FwFams[a] \subseteq {4, 6}
                   /\ AdminChain[a] \notin Targets
                   /\ Zone[a] # "none"

VARIABLES
    firewalld,      \* whether firewalld runs
    zone            \* zone[s]: the zone that s, an address of a family, is a source of

firewallVars == <<firewalld, zone>>

FirewallInit ==
    /\ firewalld \in BOOLEAN
    /\ zone = [s \in IPs \X {4, 6} |-> "none"]

Filter(f) == <<"filter", f>>
Forward == Shared("FORWARD")
Priv == Shared("CNI-FORWARD")
Admin(a) == Shared(AdminChain[a])

getPrivChainRules(i) ==
    <<[Always EXCEPT !.dst = i, !.to = Shared("ACCEPT")],      \* answers only
      [Always EXCEPT !.from = i, !.to = Shared("ACCEPT")]>>

\* Which backend a command uses is decided anew by every command.
UsesFirewalld(a) == Backend[a] = "firewalld" \/ (Backend[a] = "" /\ firewalld)

----------------------------------------------------------------------------

(* The iptables backend *)

\* Variant: the jump to the administrator's chain is appended.
setupChainsAppend(a, f) ==
    <<Ensure(Filter(f), Priv),
      Ensure(Filter(f), Admin(a)),
      Unique(Filter(f), Forward, JumpTo(Priv), TRUE),
      Unique(Filter(f), Priv, JumpTo(Admin(a)), FALSE)>>

setupChains(a, f) ==
    <<Ensure(Filter(f), Priv),
      Ensure(Filter(f), Admin(a)),
      Unique(Filter(f), Forward, JumpTo(Priv), TRUE),
      Unique(Filter(f), Priv, JumpTo(Admin(a)), TRUE)>>

\* Every error is ignored.
cleanupRules(f, i) ==
    LET rules == getPrivChainRules(i) IN
    OnError([n \in DOMAIN rules |-> Delete(Filter(f), Priv, rules[n])], GoOn)

addRules(a, f) ==
    LET rules == getPrivChainRules(ip[a])
        appends == [n \in DOMAIN rules |-> Unique(Filter(f), Priv, rules[n], FALSE)] IN
    setupChains(a, f) \o OnError(appends, cleanupRules(f, ip[a]) \o Failed)

\* The map of the families is walked in any order.
Orders(fams) == {order \in {<<>>, <<4>>, <<6>>, <<4, 6>>, <<6, 4>>} : ToSet(order) = fams}

checkRules(a, f) ==
    /\ Exists(Filter(f), Forward, JumpTo(Priv))
    /\ Exists(Filter(f), Priv, JumpTo(Admin(a)))
    /\ \A n \in 1..2 : Exists(Filter(f), Priv, getPrivChainRules(ip[a])[n])

IptablesAdd(a) ==
    /\ proc[a].cmd = "add"
    /\ \E order \in Orders(FwFams[a]) :
          Do(a, FlattenSeq([n \in DOMAIN order |-> addRules(a, order[n])]))

(* Variant: DEL flushes the chain. *)
IptablesDelFlush(a) ==
    /\ proc[a].cmd = "del"
    /\ Do(a, <<IptCall("clear", Filter(4), Priv)>>)

(* Without a result there is no address. *)
IptablesDel(a) ==
    /\ proc[a].cmd = "del"
    /\ \E order \in Orders(IF cache[a] THEN FwFams[a] ELSE {}) :
          Do(a, FlattenSeq([n \in DOMAIN order |-> cleanupRules(order[n], ip[a])]))

(* CHECK makes the chains that are missing before it looks for the rules. *)
IptablesCheck(a) ==
    /\ proc[a].cmd = "check"
    /\ \E order \in Orders(FwFams[a]) :
          Do(a, FlattenSeq([n \in DOMAIN order |->
                    <<Ensure(Filter(order[n]), Priv),
                      Ensure(Filter(order[n]), Admin(a)),
                      [op |-> "look", f |-> order[n]]>>]))

LookForRules(a) ==
    /\ At(a, "firewall", "look")
    /\ IF checkRules(a, Call(a).f) THEN Do(a, Rest(a)) ELSE Error(a)
    /\ UNCHANGED <<link, tables, firewallVars>>

----------------------------------------------------------------------------

(* The firewalld backend, one call of D-Bus per address *)

Sources(a, op, fams) ==
    \E order \in Orders(fams) : Do(a, [n \in DOMAIN order |-> [op |-> op, f |-> order[n]]])

FirewalldAdd(a) == proc[a].cmd = "add" /\ Sources(a, "add source", FwFams[a])

FirewalldDel(a) ==
    proc[a].cmd = "del" /\ Sources(a, "remove source", IF cache[a] THEN FwFams[a] ELSE {})

FirewalldCheck(a) == proc[a].cmd = "check" /\ Sources(a, "query source", FwFams[a])

Source(a) == <<ip[a], Call(a).f>>

(* An address that is in the zone already is no error, one in another zone *)
(* is. *)
addSource(a) ==
    /\ At(a, "firewall", "add source")
    /\ \/ /\ firewalld
          /\ zone[Source(a)] \in {"none", Zone[a]}
          /\ zone' = [zone EXCEPT ![Source(a)] = Zone[a]]
          /\ Do(a, Rest(a))
       \/ /\ ~firewalld \/ zone[Source(a)] \notin {"none", Zone[a]}
          /\ Error(a)
          /\ UNCHANGED zone
       \/ Fault(a, Failed) /\ UNCHANGED zone

(* Errors are ignored, the one of a zone without the address too. *)
removeSource(a) ==
    /\ At(a, "firewall", "remove source")
    /\ \/ /\ zone' = [zone EXCEPT ![Source(a)] = IF firewalld /\ @ = Zone[a] THEN "none" ELSE @]
          /\ Do(a, Rest(a))
       \/ Fault(a, Rest(a)) /\ UNCHANGED zone

(* Whether the answer is yes or no is not looked at. *)
querySource(a) ==
    /\ At(a, "firewall", "query source")
    /\ IF firewalld THEN Do(a, Rest(a)) ELSE Error(a)
    /\ UNCHANGED zone

FirewalldCall(a) ==
    /\ addSource(a) \/ removeSource(a) \/ querySource(a)
    /\ UNCHANGED <<link, tables, firewalld>>

FirewallStart(a) ==
    /\ At(a, "firewall", "start")
    /\ IF UsesFirewalld(a) THEN FirewalldAdd(a) \/ FirewalldDel(a) \/ FirewalldCheck(a)
       ELSE IptablesAdd(a) \/ IptablesDel(a) \/ IptablesCheck(a)
    /\ UNCHANGED <<link, tables, firewallVars>>

FirewallStep(a) ==
    \/ FirewallStart(a)
    \/ LookForRules(a)
    \/ FirewalldCall(a)
    \/ IptStep(a, "firewall") /\ UNCHANGED firewallVars

----------------------------------------------------------------------------

Before(s, r, q) ==
    \A i, j \in DOMAIN s : s[i].to = r /\ s[j].to = q => i < j

(* The traffic of an attachment that is ready is let through, whatever the *)
(* ADDs and DELs of other attachments, complete, failed or killed, did to  *)
(* the chain that all share or to the zones. *)
ReadyAccepted ==
    \A a \in Att : Ready(a, "firewall") =>
        IF UsesFirewalld(a) THEN \A f \in FwFams[a] : zone[<<ip[a], f>>] = Zone[a]
        ELSE \A f \in FwFams[a] : checkRules(a, f)

(* The administrator's chains come before every rule that accepts, so they *)
(* can overrule it, in every interleaving of the plugin's checks and       *)
(* insertions. *)
AdminFirst ==
    \A a \in Att : Ready(a, "firewall") /\ ~UsesFirewalld(a) =>
        \A f \in FwFams[a] :
            Before(tables[Filter(f)][Priv], Admin(a), Shared("ACCEPT"))
=============================================================================
