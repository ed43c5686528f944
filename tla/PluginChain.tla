---------------------------- MODULE PluginChain ----------------------------
(***************************************************************************)
(* How a runtime runs the chained plugins of a network (libcni): ADD and   *)
(* CHECK run them in the order of the list, DEL in the reverse order, and  *)
(* the first error ends the command.  The main plugin, which comes before  *)
(* the list, makes the interface and its address in one step here          *)
(* (modules Village and AddressPool have the details).                     *)
(*                                                                         *)
(* A plugin is a process whose remaining system calls are todo, a sequence *)
(* of records with a field op.  The modules of the plugins say what a      *)
(* command puts there and what each call does.  Between two calls any      *)
(* other process may run, and the process may be killed.                   *)
(***************************************************************************)
EXTENDS Naturals, Sequences

CONSTANTS
    Att,            \* attachments, each with one plugin process at most
    IPs,            \* the addresses of the main plugin's IPAM
    NoIP, NoLink,
    Fresh,          \* Fresh[a]: the interface as the main plugin makes it
    Chains,         \* the lists of plugins that are considered
    Persistent,     \* pairs of a list and an attachment whose interface was there
                    \* before and outlives a DEL
    Alone,          \* plugins that the runtime does not run twice at once
    MayFail,        \* pairs of a plugin and a command whose system calls may fail
    CrashIn,        \* commands in which a process may be killed
    MaxFaults       \* bound on the failed calls and the kills of a behaviour

ASSUME ChainAssumption ==
    /\ \A c \in Chains : c \in Seq(STRING) /\ c # <<>>
    /\ NoIP \notin IPs
    /\ \A a \in Att : Fresh[a] # NoLink

VARIABLES
    chain,          \* the list of plugins of the network
    proc,           \* proc[a]: the plugin process of a
    told,           \* what the runtime knows of a
    link,           \* link[a]: the interface of a, with what is attached to it
    ip,             \* the address of a
    cache,          \* whether the runtime has a result of a to pass on
    faults          \* the failed calls and the kills so far

chainVars == <<chain, proc, told, link, ip, cache, faults>>

\* In todo: an error is to be returned.
Failed == <<[op |-> "abort"]>>

Quit == [cmd |-> "none", i |-> 0, todo |-> <<>>]

Begin(cmd, i) == [cmd |-> cmd, i |-> i, todo |-> <<[op |-> "start"]>>]

Stays(a) == <<chain, a>> \in Persistent

ChainInit ==
    /\ chain \in Chains
    /\ proc = [a \in Att |-> Quit]
    /\ told = [a \in Att |-> "gone"]
    /\ link = [a \in Att |-> IF Stays(a) THEN Fresh[a] ELSE NoLink]
    /\ ip = [a \in Att |-> NoIP]
    /\ cache = [a \in Att |-> FALSE]
    /\ faults = 0

Idle(a) == proc[a].cmd = "none"

Running(a, plugin) == ~Idle(a) /\ chain[proc[a].i] = plugin

\* The next call of the process of a is op, in a command cmd of plugin.
At(a, plugin, op) ==
    Running(a, plugin) /\ proc[a].todo # <<>> /\ Head(proc[a].todo).op = op

Call(a) == Head(proc[a].todo)

Rest(a) == Tail(proc[a].todo)

\* The runtime knows that plugin has done its part for a.
Ready(a, plugin) == told[a] = "ready" /\ \E i \in DOMAIN chain : chain[i] = plugin

MayRun(a, plugin) ==
    plugin \in Alone => \A b \in Att \ {a} : ~Running(b, plugin)

----------------------------------------------------------------------------

(* What a plugin's step does to its own process.  They leave link to the step. *)

Do(a, calls) ==
    /\ proc' = [proc EXCEPT ![a].todo = calls]
    /\ UNCHANGED <<chain, told, ip, cache, faults>>

Ends(a) ==
    /\ proc' = [proc EXCEPT ![a] = Quit]
    /\ told' = [told EXCEPT ![a] =
                   IF proc[a].cmd = "check" THEN "refused" ELSE "unknown"]

Error(a) ==
    /\ Ends(a)
    /\ UNCHANGED <<chain, ip, cache, faults>>

(* A call fails for a reason outside the model; calls follow. *)
Fault(a, calls) ==
    /\ ~Idle(a)
    /\ <<chain[proc[a].i], proc[a].cmd>> \in MayFail
    /\ faults < MaxFaults
    /\ faults' = faults + 1
    /\ IF calls = Failed THEN Ends(a)
       ELSE proc' = [proc EXCEPT ![a].todo = calls] /\ UNCHANGED told
    /\ UNCHANGED <<chain, ip, cache>>

----------------------------------------------------------------------------

(* The main plugin has made the interface and printed its result. *)
BeginAdd(a) ==
    /\ Idle(a)
    /\ told[a] = "gone"
    /\ MayRun(a, chain[1])
    /\ \E i \in IPs \ {ip[b] : b \in Att} : ip' = [ip EXCEPT ![a] = i]
    /\ link' = [link EXCEPT ![a] = IF @ = NoLink THEN Fresh[a] ELSE @]
    /\ proc' = [proc EXCEPT ![a] = Begin("add", 1)]
    /\ told' = [told EXCEPT ![a] = "unknown"]
    /\ UNCHANGED <<chain, cache, faults>>

(* A DEL may come at any time, also again, and also without an ADD. *)
BeginDel(a) ==
    /\ Idle(a)
    /\ MayRun(a, chain[Len(chain)])
    /\ proc' = [proc EXCEPT ![a] = Begin("del", Len(chain))]
    /\ told' = [told EXCEPT ![a] = "unknown"]
    /\ UNCHANGED <<chain, link, ip, cache, faults>>

BeginCheck(a) ==
    /\ Idle(a)
    /\ told[a] = "ready"
    /\ MayRun(a, chain[1])
    /\ proc' = [proc EXCEPT ![a] = Begin("check", 1)]
    /\ UNCHANGED <<chain, told, link, ip, cache, faults>>

(* A plugin exits with success and is not the last one of the command. *)
NextPlugin(a) ==
    LET j == IF proc[a].cmd = "del" THEN proc[a].i - 1 ELSE proc[a].i + 1 IN
    /\ ~Idle(a)
    /\ proc[a].todo = <<>>
    /\ j \in 1..Len(chain)
    /\ MayRun(a, chain[j])
    /\ proc' = [proc EXCEPT ![a] = Begin(proc[a].cmd, j)]
    /\ UNCHANGED <<chain, told, link, ip, cache, faults>>

EndAdd(a) ==
    /\ proc[a].cmd \in {"add", "check"}
    /\ proc[a].i = Len(chain)
    /\ proc[a].todo = <<>>
    /\ proc' = [proc EXCEPT ![a] = Quit]
    /\ told' = [told EXCEPT ![a] = "ready"]
    /\ cache' = [cache EXCEPT ![a] = TRUE]
    /\ UNCHANGED <<chain, link, ip, faults>>

(* The main plugin's DEL comes last: it gives the address back and removes *)
(* the interface, unless that was there before. *)
EndDel(a) ==
    /\ proc[a].cmd = "del"
    /\ proc[a].i = 1
    /\ proc[a].todo = <<>>
    /\ proc' = [proc EXCEPT ![a] = Quit]
    /\ told' = [told EXCEPT ![a] = "gone"]
    /\ cache' = [cache EXCEPT ![a] = FALSE]
    /\ ip' = [ip EXCEPT ![a] = NoIP]
    /\ link' = [link EXCEPT ![a] = IF Stays(a) THEN @ ELSE NoLink]
    /\ UNCHANGED <<chain, faults>>

Killed(a) ==
    /\ proc[a].cmd \in CrashIn
    /\ faults < MaxFaults
    /\ faults' = faults + 1
    /\ Ends(a)
    /\ UNCHANGED <<chain, link, ip, cache>>

Runtime(a) ==
    \/ BeginAdd(a)
    \/ BeginDel(a)
    \/ BeginCheck(a)
    \/ NextPlugin(a)
    \/ EndAdd(a)
    \/ EndDel(a)
    \/ Killed(a)

----------------------------------------------------------------------------

(* A CHECK of an attachment whose ADD succeeded succeeds, whatever the     *)
(* commands of other attachments did since to what they share.             *)
CheckAgrees == \A a \in Att : told[a] # "refused"
=============================================================================
