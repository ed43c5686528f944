----------------------------- MODULE DHCPDaemon -----------------------------
(***************************************************************************)
(* The DHCP IPAM plugin: the daemon's Allocate and Release handlers, the   *)
(* goroutine that maintains each lease, the plugin processes that call     *)
(* the daemon, and the DHCP server they talk to.                           *)
(*                                                                         *)
(*   main.go    cmdAdd, cmdDel, cmdCheck: one RPC each                     *)
(*   daemon.go  Allocate, Release and the map of leases behind a mutex     *)
(*   lease.go   AcquireLease, maintain, renew, acquire, release, Stop      *)
(*   client.go  the exchanges with the server                              *)
(*                                                                         *)
(* Every RPC runs in a goroutine of its own and is not told when the       *)
(* plugin process that made it is killed.                                  *)
(***************************************************************************)
EXTENDS Naturals

CONSTANTS
    Client,     \* client ids: container, network and interface
    Lease,      \* DHCPLease objects (a bound on those alive at a time)
    Call,       \* RPC calls (a bound on those running at a time)
    Addr,       \* the addresses the server hands out
    None,       \* a nil pointer, an unbound address, no address
    MaxAge,     \* Expired, or RebindDue if leases are renewed in time
    MayCheck,   \* TRUE: the runtime issues CHECK commands
    MayKill,    \* TRUE: the runtime may kill a plugin that takes too long
    BadAcks     \* TRUE: the server may leave the lease time out of an ACK

\* How old a lease is: which of its three times has passed.
Fresh == 0
RenewalDue == 1
RebindDue == 2
Expired == 3

ASSUME DHCPAssumption ==
    /\ None \notin Client \cup Lease \cup Addr
    /\ MaxAge \in {RebindDue, Expired}
    /\ MayCheck \in BOOLEAN /\ MayKill \in BOOLEAN /\ BadAcks \in BOOLEAN

VARIABLES
    leases,   \* d.leases: the lease of each client id
    lease,    \* the DHCPLease objects and their goroutines
    call,     \* the RPC handlers
    srv,      \* the server: whom each address is bound to
    down,     \* clients whose interface downIface has brought down
    told,     \* the address a successful ADD reported, until the DEL starts
    added     \* a command was issued and no DEL has succeeded since

vars == <<leases, lease, call, srv, down, told, added>>

NoLease == [client |-> None, addr |-> None, state |-> "done", at |-> "top",
            age |-> Fresh, stopping |-> FALSE, errCh |-> "empty"]

NoCall == [pc |-> "idle", op |-> "none", client |-> None, lease |-> None,
           addr |-> None, live |-> FALSE]

Init ==
    /\ leases = [c \in Client |-> None]
    /\ lease  = [l \in Lease |-> NoLease]
    /\ call   = [h \in Call |-> NoCall]
    /\ srv    = [a \in Addr |-> None]
    /\ down   = {}
    /\ told   = [c \in Client |-> None]
    /\ added  = [c \in Client |-> FALSE]

\* The goroutine of the lease is running (its wait group is not zero).
Running(l) == lease[l].state # "done"

\* It got its lease and maintains it.
Maintained(l) == lease[l].state \in {"bound", "renewing", "rebinding"}

\* Nothing refers to the object any more.
Collectable(l) ==
    /\ ~Running(l)
    /\ \A c \in Client : leases[c] # l
    /\ \A h \in Call : call[h].lease # l

-----------------------------------------------------------------------------
(* The server.  A client that has a binding is offered it again.           *)

Offers(c) == IF \E a \in Addr : srv[a] = c
             THEN {a \in Addr : srv[a] = c}
             ELSE {a \in Addr : srv[a] = None}

Bind(c, a) == srv' = [srv EXCEPT ![a] = c]

\* The exchange failed, before or after the server bound an address.
Unanswered(c) == srv' = srv \/ \E a \in Offers(c) : Bind(c, a)

\* A binding ends when the time of all its leases has passed.
ServerExpire(a) ==
    /\ srv[a] # None
    /\ \A l \in Lease :
          Maintained(l) /\ lease[l].client = srv[a] /\ lease[l].addr = a
             => lease[l].age = Expired
    /\ srv' = [srv EXCEPT ![a] = None]
    /\ UNCHANGED <<leases, lease, call, down, told, added>>

-----------------------------------------------------------------------------
(* The runtime and the RPC handlers.                                       *)

\* A plugin process of the client is waiting for the daemon.
Busy(c) == \E h \in Call : call[h].live /\ call[h].client = c

Return(h) == call' = [call EXCEPT ![h] = NoCall]

\* ADD and CHECK both call Allocate, which starts AcquireLease's goroutine.
Allocate(h, c, op) ==
    /\ call[h].pc = "idle"
    /\ ~Busy(c)
    /\ \/ op = "add" /\ ~added[c]
       \/ op = "check" /\ MayCheck /\ told[c] # None
    /\ \E l \in Lease :
          /\ Collectable(l)
          /\ lease' = [lease EXCEPT ![l] = [NoLease EXCEPT !.client = c, !.state = "acquiring"]]
          /\ call' = [call EXCEPT ![h] = [pc |-> "acquire", op |-> op, client |-> c,
                                          lease |-> l, addr |-> None, live |-> TRUE]]
    /\ added' = [added EXCEPT ![c] = TRUE]
    /\ UNCHANGED <<leases, srv, down, told>>

\* AcquireLease reports an error: so does Allocate.
AllocateFails(h) ==
    /\ call[h].pc = "acquire"
    /\ lease[call[h].lease].errCh = "error"
    /\ lease' = [lease EXCEPT ![call[h].lease].errCh = "empty"]
    /\ Return(h)
    /\ UNCHANGED <<leases, srv, down, told, added>>

\* The ACK has no subnet mask: Stop() the lease, then fail.
AllocateNoMask(h) ==
    /\ call[h].pc = "acquire"
    /\ lease[call[h].lease].errCh = "nil"
    /\ BadAcks
    /\ lease' = [lease EXCEPT ![call[h].lease].errCh = "empty",
                              ![call[h].lease].stopping = TRUE]
    /\ call'  = [call EXCEPT ![h].pc = "undo"]
    /\ UNCHANGED <<leases, srv, down, told, added>>

\* l.IPNet() takes the address of the lease.
AllocateRead(h) ==
    /\ call[h].pc = "acquire"
    /\ lease[call[h].lease].errCh = "nil"
    /\ lease' = [lease EXCEPT ![call[h].lease].errCh = "empty"]
    /\ call'  = [call EXCEPT ![h].pc = "set", ![h].addr = lease[call[h].lease].addr]
    /\ UNCHANGED <<leases, srv, down, told, added>>

\* setLease, and the reply, which nobody reads if the plugin was killed.
AllocateSet(h) ==
    /\ call[h].pc = "set"
    /\ leases' = [leases EXCEPT ![call[h].client] = call[h].lease]
    /\ told' = IF call[h].live /\ call[h].op = "add"
               THEN [told EXCEPT ![call[h].client] = call[h].addr] ELSE told
    /\ Return(h)
    /\ UNCHANGED <<lease, srv, down, added>>

\* Variant: Release forgets the lease without stopping it.
ReleaseWithoutStop(h, c) ==
    /\ call[h].pc = "idle"
    /\ ~Busy(c)
    /\ told' = [told EXCEPT ![c] = None]
    /\ call' = [call EXCEPT ![h] = [pc |-> "clear", op |-> "del", client |-> c,
                                    lease |-> leases[c], addr |-> None, live |-> TRUE]]
    /\ added' = [added EXCEPT ![c] = TRUE]
    /\ UNCHANGED <<leases, lease, srv, down>>

\* DEL calls Release: getLease, then Stop() closes the lease's channel.  A
\* client without a lease is done.
Release(h, c) ==
    /\ call[h].pc = "idle"
    /\ ~Busy(c)
    /\ told' = [told EXCEPT ![c] = None]
    /\ call' = [call EXCEPT ![h] =
                  [pc |-> IF leases[c] = None THEN "reply" ELSE "stop", op |-> "del",
                   client |-> c, lease |-> leases[c], addr |-> None, live |-> TRUE]]
    /\ lease' = IF leases[c] = None THEN lease
                ELSE [lease EXCEPT ![leases[c]].stopping = TRUE]
    /\ added' = [added EXCEPT ![c] = TRUE]
    /\ UNCHANGED <<leases, srv, down>>

\* Variant: Stop() does not wait.
StopReturnsAtOnce(h) ==
    /\ call[h].pc \in {"stop", "undo"}
    /\ IF call[h].pc = "stop" THEN call' = [call EXCEPT ![h].pc = "clear"] ELSE Return(h)
    /\ UNCHANGED <<leases, lease, srv, down, told, added>>

\* l.wg.Wait() in Stop(), called by Release or by Allocate.
StopReturns(h) ==
    /\ call[h].pc \in {"stop", "undo"}
    /\ ~Running(call[h].lease)
    /\ IF call[h].pc = "stop" THEN call' = [call EXCEPT ![h].pc = "clear"] ELSE Return(h)
    /\ UNCHANGED <<leases, lease, srv, down, told, added>>

ClearLease(h) ==
    /\ call[h].pc = "clear"
    /\ leases' = [leases EXCEPT ![call[h].client] = None]
    /\ call'   = [call EXCEPT ![h].pc = "reply"]
    /\ UNCHANGED <<lease, srv, down, told, added>>

\* The plugin process learns that its DEL succeeded.
ReleaseReply(h) ==
    /\ call[h].pc = "reply"
    /\ added' = IF call[h].live THEN [added EXCEPT ![call[h].client] = FALSE] ELSE added
    /\ Return(h)
    /\ UNCHANGED <<leases, lease, srv, down, told>>

\* The runtime gives up on the command.  The handler goes on.
Kill(h) ==
    /\ MayKill
    /\ call[h].live
    /\ call' = [call EXCEPT ![h].live = FALSE]
    /\ UNCHANGED <<leases, lease, srv, down, told, added>>

-----------------------------------------------------------------------------
(* The goroutine of a lease.                                               *)

\* Time passes; renewal and rebinding time may be in any order.
Tick(l) ==
    /\ Maintained(l)
    /\ \E t \in lease[l].age + 1 .. MaxAge : lease' = [lease EXCEPT ![l].age = t]
    /\ UNCHANGED <<leases, call, srv, down, told, added>>

\* acquire() and commit(): a new lease, of any address the server offers.
\* It also sets the link up the first time, when it has just looked it up.
Acquire(l) ==
    /\ lease[l].state = "acquiring"
    /\ \E a \in Offers(lease[l].client) :
          /\ Bind(lease[l].client, a)
          /\ lease' = [lease EXCEPT ![l].state = "bound", ![l].addr = a, ![l].errCh = "nil"]
    /\ down' = down \ {lease[l].client}
    /\ UNCHANGED <<leases, call, told, added>>

\* No interface, no answer within backoffRetry, or no lease time in the ACK.
AcquireFails(l) ==
    /\ lease[l].state = "acquiring"
    /\ Unanswered(lease[l].client)
    /\ lease' = [lease EXCEPT ![l] = [NoLease EXCEPT !.errCh = "error"]]
    /\ down' \in {down, down \ {lease[l].client}}
    /\ UNCHANGED <<leases, call, told, added>>

\* maintain, bound: sleep until the renewal time, or renew if it has passed.
Bound(l) ==
    /\ lease[l].state = "bound"
    /\ lease[l].at = "top"
    /\ lease' = IF lease[l].age = Fresh
                THEN [lease EXCEPT ![l].at = "select"]
                ELSE [lease EXCEPT ![l].state = "renewing"]
    /\ UNCHANGED <<leases, call, srv, down, told, added>>

\* renew() got an ACK.  What commit() says of it is ignored: an ACK without a
\* lease time leaves the old times.
Renew(l) ==
    /\ lease[l].state = "renewing"
    /\ lease[l].at = "top"
    /\ srv[lease[l].addr] = lease[l].client
    /\ \/ lease' = [lease EXCEPT ![l].state = "bound", ![l].at = "select", ![l].age = Fresh]
       \/ BadAcks /\ lease' = [lease EXCEPT ![l].state = "bound", ![l].at = "select"]
    /\ UNCHANGED <<leases, call, srv, down, told, added>>

RenewFails(l) ==
    /\ lease[l].state = "renewing"
    /\ lease[l].at = "top"
    /\ lease' = [lease EXCEPT ![l].at = "select",
                   ![l].state = IF lease[l].age >= RebindDue THEN "rebinding" ELSE @]
    /\ UNCHANGED <<leases, call, srv, down, told, added>>

\* acquire() again, for whatever address the server now offers.
Rebind(l) ==
    /\ lease[l].state = "rebinding"
    /\ lease[l].at = "top"
    /\ \E a \in Offers(lease[l].client) :
          /\ Bind(lease[l].client, a)
          /\ lease' = [lease EXCEPT ![l].state = "bound", ![l].at = "select",
                                    ![l].age = Fresh, ![l].addr = a]
    /\ UNCHANGED <<leases, call, down, told, added>>

\* Variant: the interface goes down as soon as rebinding fails.
RebindFailsAtOnce(l) ==
    /\ lease[l].state = "rebinding"
    /\ lease[l].at = "top"
    /\ Unanswered(lease[l].client)
    /\ lease' = [lease EXCEPT ![l].state = "done"]
    /\ down'  = down \cup {lease[l].client}
    /\ UNCHANGED <<leases, call, told, added>>

\* Variant: the expiry is not noticed.
RebindFailsForever(l) ==
    /\ lease[l].state = "rebinding"
    /\ lease[l].at = "top"
    /\ Unanswered(lease[l].client)
    /\ lease' = [lease EXCEPT ![l].at = "select"]
    /\ UNCHANGED <<leases, call, down, told, added>>

\* A lease that expired brings its interface down, if netlink lets it.
RebindFails(l) ==
    /\ lease[l].state = "rebinding"
    /\ lease[l].at = "top"
    /\ Unanswered(lease[l].client)
    /\ IF lease[l].age = Expired
       THEN /\ lease' = [lease EXCEPT ![l].state = "done"]
            /\ down'  \in {down, down \cup {lease[l].client}}
       ELSE /\ lease' = [lease EXCEPT ![l].at = "select"]
            /\ UNCHANGED down
    /\ UNCHANGED <<leases, call, told, added>>

\* The timer fires.  After an attempt the sleep is zero.
Wake(l) ==
    /\ Maintained(l)
    /\ lease[l].at = "select"
    /\ lease[l].state = "bound" => lease[l].age # Fresh
    /\ lease' = [lease EXCEPT ![l].at = "top"]
    /\ UNCHANGED <<leases, call, srv, down, told, added>>

\* Variant: the stop channel is looked at only between renewals.
StopLeaseWhenFresh(l) ==
    /\ lease[l].state = "bound"
    /\ lease[l].at = "select"
    /\ lease[l].age = Fresh
    /\ lease[l].stopping
    /\ srv' = [srv EXCEPT ![lease[l].addr] = None]
    /\ lease' = [lease EXCEPT ![l] = NoLease]
    /\ UNCHANGED <<leases, call, down, told, added>>

\* Stop() was called: release the lease, by a message that may be lost.  The
\* object is not read again.
StopLease(l) ==
    /\ Maintained(l)
    /\ lease[l].at = "select"
    /\ lease[l].stopping
    /\ \/ srv' = srv
       \/ /\ srv[lease[l].addr] = lease[l].client
          /\ srv' = [srv EXCEPT ![lease[l].addr] = None]
    /\ lease' = [lease EXCEPT ![l] = NoLease]
    /\ UNCHANGED <<leases, call, down, told, added>>

-----------------------------------------------------------------------------
Handle(h) == AllocateFails(h) \/ AllocateNoMask(h) \/ AllocateRead(h) \/ AllocateSet(h)
             \/ StopReturns(h) \/ ClearLease(h) \/ ReleaseReply(h)

Maintain(l) == Acquire(l) \/ AcquireFails(l) \/ Bound(l) \/ Renew(l) \/ RenewFails(l)
               \/ Rebind(l) \/ RebindFails(l) \/ Wake(l) \/ StopLease(l)

Next ==
    \/ \E h \in Call, c \in Client :
          (\E op \in {"add", "check"} : Allocate(h, c, op)) \/ Release(h, c)
    \/ \E h \in Call : Handle(h) \/ Kill(h)
    \/ \E l \in Lease : Maintain(l) \/ Tick(l)
    \/ \E a \in Addr : ServerExpire(a)

Spec == Init /\ [][Next]_vars

\* Goroutines are scheduled, backoffRetry gives up after a bounded number of
\* tries, and select picks at random between a ready timer and a closed
\* channel, so the channel is not passed over for ever.
Fairness ==
    /\ \A h \in Call : WF_vars(Handle(h))
    /\ \A l \in Lease : WF_vars(Maintain(l)) /\ SF_vars(StopLease(l))

FairSpec == Spec /\ Fairness

-----------------------------------------------------------------------------
(* Correctness.                                                            *)

LeaseType ==
    [client : Client \cup {None}, addr : Addr \cup {None},
     state : {"done", "acquiring", "bound", "renewing", "rebinding"},
     at : {"top", "select"}, age : 0 .. MaxAge, stopping : BOOLEAN,
     errCh : {"empty", "nil", "error"}]

CallType ==
    [pc : {"idle", "acquire", "undo", "set", "stop", "clear", "reply"},
     op : {"none", "add", "check", "del"}, client : Client \cup {None},
     lease : Lease \cup {None}, addr : Addr \cup {None}, live : BOOLEAN]

TypeOK ==
    /\ leases \in [Client -> Lease \cup {None}]
    /\ lease  \in [Lease -> LeaseType]
    /\ call   \in [Call -> CallType]
    /\ srv    \in [Addr -> Client \cup {None}]
    /\ down   \in SUBSET Client
    /\ told   \in [Client -> Addr \cup {None}]
    /\ added  \in [Client -> BOOLEAN]

(***************************************************************************)
(* "Release stops maintenance of the lease acquired in Allocate() and      *)
(* sends a release msg": when a DEL has succeeded and no call of the       *)
(* client is left, no goroutine maintains a lease for it.                  *)
(***************************************************************************)
DelStops ==
    \A c \in Client :
       ~added[c] /\ (\A h \in Call : call[h].client # c)
          => \A l \in Lease : lease[l].client = c => ~Running(l)

(***************************************************************************)
(* A lease that is maintained and has not expired is the server's binding: *)
(* no release or rebinding of another lease takes it away (release,        *)
(* acquire).                                                               *)
(***************************************************************************)
LeaseBacked ==
    \A l \in Lease :
       Maintained(l) /\ lease[l].age # Expired => srv[lease[l].addr] = lease[l].client

(***************************************************************************)
(* The interface of an attachment in use is brought down only when its     *)
(* lease really expired (maintain, downIface).                             *)
(***************************************************************************)
DownOnlyExpired ==
    \A c \in down :
       told[c] # None => leases[c] # None /\ lease[leases[c]].age = Expired

(***************************************************************************)
(* Every call returns, Release's wait for a goroutine that is retrying     *)
(* included (Stop, backoffRetry).                                          *)
(***************************************************************************)
CallsReturn == \A h \in Call : call[h].pc # "idle" ~> call[h].pc = "idle"

(***************************************************************************)
(* "lease expired, bringing interface DOWN": a maintained lease that has   *)
(* expired is renewed or its goroutine ends (maintain).                    *)
(***************************************************************************)
ExpiryNoticed ==
    \A l \in Lease :
       (Maintained(l) /\ lease[l].age = Expired)
          ~> (~Maintained(l) \/ lease[l].age # Expired)

(***************************************************************************)
(* The daemon implements the abstract pool with one address per client,    *)
(* the one of its lease in the map while that lease is maintained and has  *)
(* not expired: renewing or rebinding it never changes the address, and no *)
(* address is leased to two clients (Allocate, Release, maintain).         *)
(***************************************************************************)
LeasedTo(c) ==
    {lease[l].addr : l \in {x \in Lease :
        leases[c] = x /\ Maintained(x) /\ lease[x].age # Expired}}

Pool == INSTANCE AddressPool
        WITH Att <- Client, Results <- {{a} : a \in Addr},
             assigned <- [c \in Client |-> LeasedTo(c)]
PoolSpec == Pool!Spec
=============================================================================
