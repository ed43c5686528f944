------------------------------- MODULE Tuning -------------------------------
(***************************************************************************)
(* The tuning plugin: ADD sets sysctls of the network namespace and the    *)
(* address, the MTU and the promiscuous mode of the interface, after it    *)
(* has saved in a file the attributes it is going to change; DEL puts the  *)
(* saved ones back and removes the file.  Every error of DEL is dropped.   *)
(***************************************************************************)
EXTENDS PluginChain, FiniteSets

CONSTANTS
    TuningConf,     \* TuningConf[a]: mac, promisc, mtu and sysctl (key -> value)
    NetKeys,        \* the sysctls below /proc/sys/net
    NoBackup, Torn  \* no file; a file that is cut off

ASSUME TuningAssumption ==
    /\ \A a \in Att : /\ TuningConf[a].mac \in STRING
                       /\ TuningConf[a].mtu \in Nat
                       /\ TuningConf[a].promisc \in BOOLEAN
    /\ NoBackup # Torn
    /\ {NoBackup, Torn} \cap [mac : STRING, mtu : Nat, promisc : {"unset", "on", "off"}] = {}

VARIABLES
    sysctl,         \* sysctl[k]: the value of k in the namespace
    backup          \* backup[a]: the file with the attributes of a to restore

tuningVars == <<sysctl, backup>>

SysctlKeys == UNION {DOMAIN TuningConf[a].sysctl : a \in Att}

TuningInit ==
    /\ sysctl = [k \in SysctlKeys |-> "default"]
    /\ backup = [a \in Att |-> NoBackup]

ChangesLink(conf) == conf.mac # "" \/ conf.mtu # 0 \/ conf.promisc

\* configToRestore: "" and 0 and "unset" stand for an attribute that stays.
ConfigToRestore(conf, attrs) ==
    [mac |-> IF conf.mac # "" THEN attrs.mac ELSE "",
     mtu |-> IF conf.mtu # 0 THEN attrs.mtu ELSE 0,
     promisc |-> IF ~conf.promisc THEN "unset" ELSE IF attrs.promisc THEN "on" ELSE "off"]

----------------------------------------------------------------------------

(* ADD: the sysctls, the file, the attributes *)

TuningAdd(a) ==
    LET conf == TuningConf[a]
        call(wanted, op) == IF wanted THEN <<[op |-> op]>> ELSE <<>> IN
    /\ proc[a].cmd = "add"
    /\ Do(a, <<[op |-> "sysctl", keys |-> DOMAIN conf.sysctl]>>
             \o call(ChangesLink(conf), "read attributes")
             \o call(conf.mac # "", "set mac")
             \o call(conf.promisc, "set promisc")
             \o call(conf.mtu # 0, "set mtu"))

(* The sysctls are written in any order, and one that is not of the network *)
(* ends the command. *)
WriteSysctl(a) ==
    LET k == Call(a) IN
    /\ At(a, "tuning", "sysctl")
    /\ \/ k.keys = {} /\ Do(a, Rest(a)) /\ UNCHANGED sysctl
       \/ \E key \in k.keys :
             IF key \in NetKeys
             THEN /\ sysctl' = [sysctl EXCEPT ![key] = TuningConf[a].sysctl[key]]
                  /\ Do(a, <<[k EXCEPT !.keys = @ \ {key}]>> \o Rest(a))
             ELSE Error(a) /\ UNCHANGED sysctl
    /\ UNCHANGED <<link, backup>>

(* Variant: the file is created after the first change. *)
ReadAttributesLate(a) ==
    /\ At(a, "tuning", "read attributes")
    /\ IF link[a] = NoLink THEN Error(a)
       ELSE Do(a, <<Head(Rest(a)),
                    [op |-> "truncate", file |-> ConfigToRestore(TuningConf[a], link[a])]>>
                  \o Tail(Rest(a)))
    /\ UNCHANGED <<link, tuningVars>>

(* createBackup reads the attributes, truncates the file and writes it. *)
ReadAttributes(a) ==
    /\ At(a, "tuning", "read attributes")
    /\ IF link[a] = NoLink THEN Error(a)
       ELSE Do(a, <<[op |-> "truncate", file |-> ConfigToRestore(TuningConf[a], link[a])]>>
                  \o Rest(a))
    /\ UNCHANGED <<link, tuningVars>>

TruncateBackup(a) ==
    /\ At(a, "tuning", "truncate")
    /\ backup' = [backup EXCEPT ![a] = Torn]
    /\ Do(a, <<[Call(a) EXCEPT !.op = "write"]>> \o Rest(a))
    /\ UNCHANGED <<link, sysctl>>

WriteBackup(a) ==
    /\ At(a, "tuning", "write")
    /\ backup' = [backup EXCEPT ![a] = Call(a).file]
    /\ Do(a, Rest(a))
    /\ UNCHANGED <<link, sysctl>>

SetAttribute(a) ==
    LET conf == TuningConf[a] IN
    /\ \/ /\ At(a, "tuning", "set mac")
          /\ link' = [link EXCEPT ![a].mac = conf.mac]
       \/ /\ At(a, "tuning", "set promisc")
          /\ link' = [link EXCEPT ![a].promisc = TRUE]
       \/ /\ At(a, "tuning", "set mtu")
          /\ link' = [link EXCEPT ![a].mtu = conf.mtu]
    /\ Do(a, Rest(a))
    /\ UNCHANGED tuningVars

TuningFails(a) ==
    /\ \E op \in {"sysctl", "read attributes", "truncate", "write",
                  "set mac", "set promisc", "set mtu"} : At(a, "tuning", op)
    /\ Fault(a, Failed)
    /\ UNCHANGED <<link, tuningVars>>

----------------------------------------------------------------------------

(* DEL: restoreBackup.  Without a file, with one that does not parse and   *)
(* without an interface there is nothing to do, and the file stays. *)
TuningDel(a) ==
    LET call(wanted, op) == IF wanted THEN <<[op |-> op]>> ELSE <<>> IN
    /\ proc[a].cmd = "del"
    /\ IF backup[a] \in {NoBackup, Torn} \/ link[a] = NoLink THEN Do(a, <<>>)
       ELSE Do(a, call(backup[a].mtu # 0, "restore mtu")
                  \o call(backup[a].mac # "", "restore mac")
                  \o call(backup[a].promisc # "unset", "restore promisc")
                  \o <<[op |-> "remove"]>>)

\* The calls that are left without the removal of the file, the last of all.
KeepFile(calls) ==
    IF calls # <<>> /\ calls[Len(calls)].op = "remove"
    THEN SubSeq(calls, 1, Len(calls) - 1) ELSE calls

(* An attribute that cannot be restored keeps the file from being removed, *)
(* and it stays when it cannot be removed. *)
RestoreAttribute(a) ==
    LET file == backup[a] IN
    /\ \/ /\ At(a, "tuning", "restore mtu")
          /\ link' = [link EXCEPT ![a].mtu = file.mtu]
          /\ Do(a, Rest(a))
       \/ /\ At(a, "tuning", "restore mac")
          /\ link' = [link EXCEPT ![a].mac = file.mac]
          /\ Do(a, Rest(a))
       \/ /\ At(a, "tuning", "restore promisc")
          /\ link' = [link EXCEPT ![a].promisc = (file.promisc = "on")]
          /\ Do(a, Rest(a))
       \/ /\ \E op \in {"restore mtu", "restore mac", "restore promisc", "remove"} :
                At(a, "tuning", op)
          /\ Fault(a, KeepFile(Rest(a)))
          /\ UNCHANGED link
    /\ UNCHANGED tuningVars

RemoveBackup(a) ==
    /\ At(a, "tuning", "remove")
    /\ backup' = [backup EXCEPT ![a] = NoBackup]
    /\ Do(a, Rest(a))
    /\ UNCHANGED <<link, sysctl>>

----------------------------------------------------------------------------

TuningCheck(a) ==
    LET conf == TuningConf[a] IN
    /\ proc[a].cmd = "check"
    /\ IF /\ \A k \in DOMAIN conf.sysctl : sysctl[k] = conf.sysctl[k]
          /\ link[a] # NoLink
          /\ conf.mac # "" => link[a].mac = conf.mac
          /\ link[a].promisc = conf.promisc
          /\ conf.mtu # 0 => link[a].mtu = conf.mtu
       THEN Do(a, <<>>)
       ELSE Error(a)

TuningStart(a) ==
    /\ At(a, "tuning", "start")
    /\ \/ TuningAdd(a)
       \/ TuningDel(a)
       \/ TuningCheck(a)
    /\ UNCHANGED <<link, tuningVars>>

TuningStep(a) ==
    \/ TuningStart(a)
    \/ WriteSysctl(a)
    \/ ReadAttributes(a)
    \/ TruncateBackup(a)
    \/ WriteBackup(a)
    \/ SetAttribute(a)
    \/ TuningFails(a)
    \/ RestoreAttribute(a)
    \/ RemoveBackup(a)

----------------------------------------------------------------------------

(* An interface that outlives its attachment has its own attributes again, *)
(* wherever the ADD and the DELs before the last one were cut off: the     *)
(* file is complete before the first change and goes after the last one.   *)
Restored ==
    \A a \in Att : told[a] = "gone" /\ link[a] # NoLink =>
        /\ link[a].mac = Fresh[a].mac
        /\ link[a].mtu = Fresh[a].mtu
        /\ link[a].promisc = Fresh[a].promisc
=============================================================================
