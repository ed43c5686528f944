------------------------------ MODULE Iptables ------------------------------
(***************************************************************************)
(* The tables of iptables and the calls of pkg/utils/iptables.go on them,  *)
(* one action per iptables command (which holds the lock of xtables).      *)
(* tables[t] maps the chains that exist to their rules.  A chain is a pair *)
(* of a name and an owner.  A rule has conditions on a packet and a field  *)
(* to, the chain it jumps to or its target, a pair too.                    *)
(*                                                                         *)
(* A call of a plugin is a record with the table t, the chain c, the rule  *)
(* r, whether it is inserted first or appended, and the calls that follow  *)
(* when it fails.                                                          *)
(***************************************************************************)
EXTENDS PluginChain, SequencesExt

CONSTANTS Tables,       \* the tables, one per protocol family and kind
          BuiltIn,      \* BuiltIn[t]: the chains table t has from the start
          NoOwner

(* There are the two tables that the plugins use, and the word for "no      *)
(* condition" is no address. *)
ASSUME IptAssumption ==
    /\ {"nat", "filter"} \X {4, 6} \subseteq Tables
    /\ NoOwner \notin Att
    /\ "any" \notin IPs \cup {NoIP}

VARIABLES tables

Shared(name) == <<name, NoOwner>>

Targets == {"DNAT", "MARK", "MASQUERADE", "ACCEPT"}

\* In fail: an error is ignored.
GoOn == <<[op |-> "go on"]>>

\* The rule that matches everything.
Always == [proto |-> "any", ports |-> <<>>, from |-> "any", dst |-> "any",
        comment |-> NoOwner, to |-> Shared("none")]

JumpTo(target) == [Always EXCEPT !.to = target]

IptCall(op, t, c) ==
    [op |-> op, t |-> t, c |-> c, r |-> Always, first |-> FALSE, fail |-> Failed]

Ensure(t, c) == IptCall("ensure", t, c)

Unique(t, c, r, first) ==
    [IptCall("unique", t, c) EXCEPT !.r = r, !.first = first]

Delete(t, c, r) == [IptCall("delete", t, c) EXCEPT !.r = r]

OnError(calls, fail) == [i \in DOMAIN calls |-> [calls[i] EXCEPT !.fail = fail]]

IptInit == tables = [t \in Tables |-> [c \in BuiltIn[t] |-> <<>>]]

ChainExists(t, c) == c \in DOMAIN tables[t]

RulesIn(t, c) == IF ChainExists(t, c) THEN tables[t][c] ELSE <<>>

Exists(t, c, r) == Contains(RulesIn(t, c), r)

Referenced(t, c) ==
    \E d \in DOMAIN tables[t] : \E i \in DOMAIN tables[t][d] : tables[t][d][i].to = c

SetChain(t, c, rules) ==
    tables' = [tables EXCEPT ![t] =
                  [d \in DOMAIN @ \cup {c} |-> IF d = c THEN rules ELSE @[d]]]

----------------------------------------------------------------------------

OnFailure(a) == IF Call(a).fail = GoOn THEN Rest(a) ELSE Call(a).fail

Fail(a) == IF OnFailure(a) = Failed THEN Error(a) ELSE Do(a, OnFailure(a))

(* The chain is created unless it is there; that somebody else creates it *)
(* in between is no error. *)
EnsureChain(a) ==
    LET k == Call(a) IN
    /\ SetChain(k.t, k.c, RulesIn(k.t, k.c))
    /\ Do(a, Rest(a))

(* Exists, and the insertion that follows if the rule was not there then:  *)
(* insertUnique, ensureFirstChainRule and AppendUnique. *)
CheckRule(a) ==
    LET k == Call(a) IN
    /\ Do(a, IF Exists(k.t, k.c, k.r) THEN Rest(a)
             ELSE <<[k EXCEPT !.op = "insert"]>> \o Rest(a))
    /\ UNCHANGED tables

(* Inserting needs the chain, and the chain the rule jumps to. *)
InsertRule(a) ==
    LET k == Call(a) IN
    IF ChainExists(k.t, k.c) /\ (k.r.to[1] \in Targets \/ ChainExists(k.t, k.r.to))
    THEN /\ SetChain(k.t, k.c, IF k.first THEN <<k.r>> \o tables[k.t][k.c]
                               ELSE Append(tables[k.t][k.c], k.r))
         /\ Do(a, Rest(a))
    ELSE Fail(a) /\ UNCHANGED tables

(* Flushes the chain, or creates it. *)
ClearChain(a) ==
    /\ SetChain(Call(a).t, Call(a).c, <<>>)
    /\ Do(a, Rest(a))

(* The rules of chain c that jump to the chain of the call's rule, each to *)
(* be deleted.  An error of the listing counts as an empty list. *)
ListRules(a) ==
    LET k == Call(a)
        rules == RulesIn(k.t, k.c)
        deletes == FlattenSeq([i \in DOMAIN rules |->
                       IF rules[i].to = k.r.to THEN <<Delete(k.t, k.c, rules[i])>> ELSE <<>>]) IN
    /\ Do(a, OnError(deletes, k.fail) \o Rest(a)) \/ Fault(a, Rest(a))
    /\ UNCHANGED tables

(* A rule, or a chain, that is not there any more is no error. *)
DeleteRule(a) ==
    LET k == Call(a) IN
    /\ IF Exists(k.t, k.c, k.r)
       THEN SetChain(k.t, k.c, RemoveFirst(tables[k.t][k.c], k.r))
       ELSE UNCHANGED tables
    /\ Do(a, Rest(a))

(* Fails if the chain has rules or a rule jumps to it; a missing chain is *)
(* no error. *)
DeleteChain(a) ==
    LET k == Call(a) IN
    IF ChainExists(k.t, k.c) /\ (tables[k.t][k.c] # <<>> \/ Referenced(k.t, k.c))
    THEN Fail(a) /\ UNCHANGED tables
    ELSE /\ tables' = [tables EXCEPT ![k.t] = [d \in DOMAIN @ \ {k.c} |-> @[d]]]
         /\ Do(a, Rest(a))

(* A command fails and changes nothing. *)
IptFails(a) ==
    /\ Fault(a, OnFailure(a))
    /\ UNCHANGED tables

(* What an error leaves to do is done, and the error is returned. *)
Abort(a) ==
    /\ Error(a)
    /\ UNCHANGED tables

(* The step of a process whose next call is an iptables command. *)
IptStep(a, plugin) ==
    /\ Running(a, plugin)
    /\ proc[a].todo # <<>>
    /\ LET op == Call(a).op IN
       \/ op = "ensure" /\ EnsureChain(a)
       \/ op = "unique" /\ CheckRule(a)
       \/ op = "insert" /\ InsertRule(a)
       \/ op = "clear" /\ ClearChain(a)
       \/ op = "list" /\ ListRules(a)
       \/ op = "delete" /\ DeleteRule(a)
       \/ op = "delchain" /\ DeleteChain(a)
       \/ op = "abort" /\ Abort(a)
       \/ /\ op \in {"ensure", "unique", "insert", "clear", "delete", "delchain"}
          /\ IptFails(a)
    /\ UNCHANGED link
=============================================================================
