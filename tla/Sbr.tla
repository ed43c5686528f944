--------------------------------- MODULE Sbr ---------------------------------
(***************************************************************************)
(* The sbr plugin (source based routing): the routes of the interface of   *)
(* an attachment move from the main table to a table of its own, which a   *)
(* rule selects for packets from its address.  A lock on the file of the   *)
(* namespace serializes ADD and DEL.                                       *)
(***************************************************************************)
EXTENDS PluginChain, FiniteSetsExt

CONSTANTS
    SbrIPs,         \* SbrIPs[a]: families and interfaces of prevResult's addresses
    Gateway,        \* Gateway[a]: whether its addresses have a gateway
    SbrTables       \* the table numbers from firstTableID on, as far as they are considered

\* Table 254 is the main table, the only one that is listed.
Main == 254

ASSUME SbrAssumption ==
    /\ SbrTables \subseteq Nat \ {Main}
    /\ \A a \in Att : SbrIPs[a] \subseteq [version : {4, 6}, if : {"own", "other", "unset"}]

VARIABLES rules     \* the rules: records of a source (address, family) and a table

SbrInit == rules = {}

\* The families of the addresses that are not known to be another interface's.
getIPCfgs(a) == {i.version : i \in {j \in SbrIPs[a] : j.if \in {"own", "unset"}}}

\* The file of the namespace is locked from the first step of a command to its end.
HasLock(a) == Running(a, "sbr") /\ proc[a].todo # <<>> /\ Call(a).op # "start"

Locked(a) == \E b \in Att \ {a} : HasLock(b)

\* The first table no rule refers to.  The listed routes are those of the
\* main table, so no route ever excludes a table.  The code counts up without
\* an end; SbrTables bounds it, and an ADD that finds none free waits.
FreeTables == SbrTables \ {r.table : r \in rules}

RulesOf(a) == {r \in rules : r.src[1] = ip[a]}

HasDefault(table, f) ==
    \E b \in Att : link[b] # NoLink /\ <<table, f, "default">> \in link[b].routes

----------------------------------------------------------------------------

(* ADD: doRoutes *)

SbrAdd(a) ==
    LET table == Min(FreeTables) IN
    /\ proc[a].cmd = "add"
    /\ ~Locked(a)
    /\ IF SbrIPs[a] = {} \/ link[a] = NoLink THEN Error(a)
       ELSE /\ FreeTables # {}
            /\ Do(a, <<[op |-> "rule", fams |-> getIPCfgs(a), table |-> table],
                       [op |-> "list routes", table |-> table]>>)

(* The rule and the default route of one address after the other. *)
AddRule(a) ==
    LET k == Call(a) IN
    /\ At(a, "sbr", "rule")
    /\ \/ k.fams = {} /\ Do(a, Rest(a)) /\ UNCHANGED rules
       \/ \E f \in k.fams :
             LET next == <<[k EXCEPT !.fams = @ \ {f}]>> \o Rest(a) IN
             /\ rules' = rules \cup {[src |-> <<ip[a], f>>, table |-> k.table]}
             /\ Do(a, IF Gateway[a]
                      THEN <<[op |-> "default", f |-> f, table |-> k.table]>> \o next
                      ELSE next)
    /\ UNCHANGED link

AddDefault(a) ==
    LET k == Call(a) IN
    /\ At(a, "sbr", "default")
    /\ IF HasDefault(k.table, k.f) THEN Error(a) /\ UNCHANGED link
       ELSE /\ link' = [link EXCEPT ![a].routes = @ \cup {<<k.table, k.f, "default">>}]
            /\ Do(a, Rest(a))
    /\ UNCHANGED rules

ListRoutes(a) ==
    LET found == {r \in link[a].routes : r[1] = Main} IN
    /\ At(a, "sbr", "list routes")
    /\ Do(a, <<[op |-> "delete", routes |-> found, table |-> Call(a).table]>>)
    /\ UNCHANGED <<link, rules>>

(* A route leaves the main table before it is in the other one. *)
DeleteRoute(a) ==
    LET k == Call(a) IN
    /\ At(a, "sbr", "delete")
    /\ \/ k.routes = {} /\ Do(a, Rest(a)) /\ UNCHANGED link
       \/ \E r \in k.routes :
             /\ link' = [link EXCEPT ![a].routes = @ \ {r}]
             /\ Do(a, <<[op |-> "replace", r |-> r, table |-> k.table],
                        [k EXCEPT !.routes = @ \ {r}]>> \o Rest(a))
    /\ UNCHANGED rules

(* Variant: the routes are copied to table 100, whichever was chosen. *)
ReplaceRouteFixed(a) ==
    LET k == Call(a) IN
    /\ At(a, "sbr", "replace")
    /\ link' = [link EXCEPT ![a].routes = @ \cup {<<100, k.r[2], k.r[3]>>}]
    /\ Do(a, Rest(a))
    /\ UNCHANGED rules

ReplaceRoute(a) ==
    LET k == Call(a)
        new == <<k.table, k.r[2], k.r[3]>> IN
    /\ At(a, "sbr", "replace")
    /\ link' = [b \in Att |->
                   IF b = a THEN [link[b] EXCEPT !.routes = @ \cup {new}]
                   ELSE IF link[b] = NoLink THEN NoLink
                   ELSE [link[b] EXCEPT !.routes = @ \ {new}]]
    /\ Do(a, Rest(a))
    /\ UNCHANGED rules

----------------------------------------------------------------------------

(* Variant: without a result there is nothing to remove. *)
SbrDelOfResult(a) ==
    /\ proc[a].cmd = "del"
    /\ ~Locked(a)
    /\ Do(a, <<[op |-> "tidy", rules |-> IF cache[a] THEN RulesOf(a) ELSE {}]>>)

(* DEL: tidyRules.  The rules of the addresses the interface has; without  *)
(* the interface DEL fails. *)
SbrDel(a) ==
    /\ proc[a].cmd = "del"
    /\ ~Locked(a)
    /\ IF link[a] = NoLink THEN Error(a)
       ELSE Do(a, <<[op |-> "tidy", rules |-> RulesOf(a)]>>)

(* One rule that cannot be deleted does not keep the others, but is returned. *)
DeleteRuleOf(a) ==
    LET k == Call(a) IN
    /\ At(a, "sbr", "tidy")
    /\ \/ k.rules = {} /\ Do(a, Rest(a)) /\ UNCHANGED rules
       \/ \E r \in k.rules :
             /\ rules' = rules \ {r}
             /\ Do(a, <<[k EXCEPT !.rules = @ \ {r}]>> \o Rest(a))
       \/ \E r \in k.rules :
             /\ Fault(a, <<[k EXCEPT !.rules = @ \ {r}]>> \o Failed)
             /\ UNCHANGED rules
    /\ UNCHANGED link

SbrReturnsError(a) ==
    /\ At(a, "sbr", "abort")
    /\ Error(a)
    /\ UNCHANGED <<link, rules>>

SbrCheck(a) ==
    /\ proc[a].cmd = "check"
    /\ Do(a, <<>>)

SbrStart(a) ==
    /\ At(a, "sbr", "start")
    /\ \/ SbrAdd(a)
       \/ SbrDel(a)
       \/ SbrCheck(a)
    /\ UNCHANGED <<link, rules>>

SbrFails(a) ==
    /\ \E op \in {"rule", "default", "list routes", "delete", "replace"} : At(a, "sbr", op)
    /\ Fault(a, Failed)
    /\ UNCHANGED <<link, rules>>

SbrStep(a) ==
    \/ SbrStart(a)
    \/ AddRule(a)
    \/ AddDefault(a)
    \/ ListRoutes(a)
    \/ DeleteRoute(a)
    \/ ReplaceRoute(a)
    \/ DeleteRuleOf(a)
    \/ SbrReturnsError(a)
    \/ SbrFails(a)

----------------------------------------------------------------------------

(* The rules of an attachment that is ready, one for each family of its     *)
(* addresses, lead to one table, with all routes of its interface, those of *)
(* other families too, and a default route where it has a gateway.  Nobody  *)
(* else has a route there, whoever came, failed or left since, but an       *)
(* interface whose own rules a DEL has deleted already (doRoutes of         *)
(* plugins/meta/sbr/main.go).                                               *)
SbrRouted ==
    \A a \in Att : Ready(a, "sbr") => \E t \in SbrTables :
        /\ RulesOf(a) = {[src |-> <<ip[a], f>>, table |-> t] : f \in getIPCfgs(a)}
        /\ \A r \in Fresh[a].routes : <<t, r[2], r[3]>> \in link[a].routes
        /\ Gateway[a] => \A f \in getIPCfgs(a) : <<t, f, "default">> \in link[a].routes
        /\ \A b \in Att \ {a} :
              RulesOf(b) # {} /\ link[b] # NoLink => \A q \in link[b].routes : q[1] # t

(* No rule is left for an address that its attachment has given back. *)
SbrClean ==
    \A r \in rules : \E a \in Att : told[a] # "gone" /\ ip[a] = r.src[1]
=============================================================================
