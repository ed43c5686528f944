----------------------------- MODULE HostLocal -----------------------------
(***************************************************************************)
(* The host-local IPAM plugin: ADD and DEL commands of concurrent plugin   *)
(* processes over one data directory shared through a file lock.           *)
(*                                                                         *)
(*   main.go                 cmdAdd, cmdDel, cmdCheck                      *)
(*   allocator/allocator.go  Get, Release, GetIter, Next                   *)
(*   disk/backend.go         the store: one file per reserved address, and *)
(*                           one last_reserved_ip.<n> file per range set   *)
(*   disk/lock.go            the flock around every access to the store    *)
(*                                                                         *)
(* The container runtime runs at most one plugin process per attachment    *)
(* at a time, so the attachment names the process.  A process can be       *)
(* killed between any two of its steps; the kernel then drops its lock.    *)
(***************************************************************************)
EXTENDS Naturals, Sequences

CONSTANTS
    Att,            \* attachments: (container id, interface name) pairs
    Cont,           \* container ids
    ContainerOf,    \* the container of each attachment
    Ranges,         \* ipamConf.Ranges: range sets, each a sequence of ranges
    Requests,       \* the sets of addresses an ADD may ask for (IPArgs)
    LegacyIDs,      \* containers that may own files of a previous version
    NoFile,         \* no file of that name in the data directory
    EmptyFile,      \* a file that was created and not yet written
    StrictRuntime,  \* TRUE: no second ADD before the DEL, as CNI asks
    MayCrash,       \* TRUE: plugin processes may be killed
    LockMayFail,    \* TRUE: flock may return an error, which the code ignores
    IOMayFail       \* TRUE: creating, writing or removing a file may fail

NoIP == 0           \* a nil net.IP

\* A Range after Canonicalize: both ends are inclusive.
Addrs(r) == r.start .. r.end

Sets == DOMAIN Ranges
SetAddrs == [k \in Sets |-> UNION {Addrs(Ranges[k][i]) : i \in DOMAIN Ranges[k]}]
IP == UNION {SetAddrs[k] : k \in Sets}

ASSUME AttAssumption ==
    /\ ContainerOf \in [Att -> Cont]
    /\ LegacyIDs \subseteq Cont
    /\ Att \cap Cont = {}
    /\ NoFile \notin Att \cup Cont
    /\ EmptyFile \notin Att \cup Cont
    /\ NoFile # EmptyFile

\* What LoadIPAMConfig has checked: at least one range set, none of them
\* empty, no two ranges overlapping, in the same set or in two of them.
ASSUME RangesAssumption ==
    /\ Ranges \in Seq(Seq([start : Nat \ {NoIP}, end : Nat, gw : Nat]))
    /\ Len(Ranges) > 0
    /\ \A k \in Sets : Len(Ranges[k]) > 0
    /\ \A k \in Sets : \A i \in DOMAIN Ranges[k] :
          Ranges[k][i].start <= Ranges[k][i].end
    /\ \A k, l \in Sets : \A i \in DOMAIN Ranges[k] : \A j \in DOMAIN Ranges[l] :
          <<k, i>> # <<l, j>> =>
             Addrs(Ranges[k][i]) \cap Addrs(Ranges[l][j]) = {}

ASSUME RequestsAssumption ==
    /\ Requests \subseteq SUBSET (Nat \ {NoIP})
    /\ StrictRuntime \in BOOLEAN
    /\ MayCrash \in BOOLEAN
    /\ LockMayFail \in BOOLEAN
    /\ IOMayFail \in BOOLEAN

VARIABLES
    (* the data directory *)
    files,    \* the content of the file named after each address
    last,     \* the content of last_reserved_ip.<n>, NoIP if absent or empty
    lock,     \* the processes holding the flock
    (* the plugin process of each attachment *)
    pc,       \* where it is
    op,       \* the command it runs
    n,        \* ADD: the range set in turn; release: how many are left to do
    req,      \* requestedIPs not used yet
    want,     \* requestedIP of this Get, NoIP to take any
    iter,     \* the RangeIter
    got,      \* result.IPs
    walk,     \* what ReleaseByID is looking for
    (* the runtime *)
    held,     \* addresses a successful ADD reported, until the DEL starts
    added     \* an ADD was issued and no DEL has succeeded since

store == <<files, last>>
proc  == <<pc, op, n, req, want, iter, got, walk>>
vars  == <<store, lock, proc, held, added>>

-----------------------------------------------------------------------------
(* The range iterator.                                                     *)

NoIter == [rangeIdx |-> 1, cur |-> NoIP, startIP |-> NoIP, startRange |-> 1]

\* RangeSet.Contains / RangeFor: the first range that holds the address.
Contains(R, ip) == \E i \in DOMAIN R : ip \in Addrs(R[i])
RangeFor(R, ip) == CHOOSE i \in DOMAIN R : ip \in Addrs(R[i])

\* Variants: the search always starts at the beginning; it stops at the last
\* reserved address without trying it.
GetIterFromStart(R, lastIP) == [NoIter EXCEPT !.startIP = R[1].start]
GetIterSkipsLast(R, lastIP) ==
    IF Contains(R, lastIP)
    THEN [NoIter EXCEPT !.rangeIdx = RangeFor(R, lastIP), !.cur = lastIP,
                        !.startRange = RangeFor(R, lastIP), !.startIP = lastIP]
    ELSE [NoIter EXCEPT !.startIP = R[1].start]

\* Start after the last reserved address, or at the beginning of the set.
GetIter(R, lastIP) ==
    IF Contains(R, lastIP)
    THEN [NoIter EXCEPT !.rangeIdx = RangeFor(R, lastIP), !.cur = lastIP,
                        !.startRange = RangeFor(R, lastIP)]
    ELSE [NoIter EXCEPT !.startIP = R[1].start]

\* Variants: the end of a range is exclusive; the start is not recorded.
AdvancePastEnd(R, it) ==
    IF it.cur = NoIP
    THEN [it EXCEPT !.cur = R[it.rangeIdx].start, !.startIP = R[it.rangeIdx].start]
    ELSE [it EXCEPT !.cur = @ + 1]
AdvanceForgetsStart(R, it) ==
    LET r == R[it.rangeIdx]
    IN  IF it.cur \in {NoIP, r.end}
        THEN [it EXCEPT !.cur = r.start, !.startIP = IF it.cur = NoIP THEN r.start ELSE @]
        ELSE [it EXCEPT !.cur = @ + 1]

\* The cursor's move in RangeIter.Next().
Advance(R, it) ==
    LET r   == R[it.rangeIdx]
        idx == IF it.cur = r.end THEN (it.rangeIdx % Len(R)) + 1 ELSE it.rangeIdx
        cur == IF it.cur = r.end THEN R[idx].start ELSE it.cur + 1
    IN  IF it.cur = NoIP
        THEN [it EXCEPT !.cur = r.start, !.startIP = r.start]
        ELSE [it EXCEPT !.rangeIdx = idx, !.cur = cur,
                        !.startIP = IF @ = NoIP THEN cur ELSE @]

\* Next() returns nil: the move from it came back to where it started.
LoopedBack(R, it) ==
    LET nx == Advance(R, it)
    IN  /\ it.cur # NoIP
        /\ it.startIP # NoIP
        /\ nx.rangeIdx = nx.startRange
        /\ nx.cur = nx.startIP

AtGateway(R, it) == it.cur = R[it.rangeIdx].gw

-----------------------------------------------------------------------------
(* The store.                                                              *)

\* GetByID: files written for this attachment, or for its
\* container by a previous version.
OwnedBy(a) == {ip \in IP : files[ip] \in {a, ContainerOf[a]}}

\* Variant: the key is the container id alone.
MatchingContainer(a) == {ip \in IP : files[ip] = ContainerOf[a]}

\* The files ReleaseByKey matches in the pass ReleaseByID has reached.
Matching(a) ==
    {ip \in IP : files[ip] = IF walk[a] = "old" THEN ContainerOf[a] ELSE a}

\* A failed flock returns at once; the error is dropped and the caller goes
\* on without the lock.
Lock(a) ==
    \/ lock = {} /\ lock' = {a}
    \/ LockMayFail /\ lock' = lock

Unlock(a) == lock' = lock \ {a}

\* The address this Get is trying to reserve.
Target(a) == IF want[a] # NoIP THEN want[a] ELSE iter[a].cur

-----------------------------------------------------------------------------
Init ==
    /\ files \in [IP -> {NoFile} \cup LegacyIDs]
    /\ last  = [k \in Sets |-> NoIP]
    /\ lock  = {}
    /\ pc    = [a \in Att |-> "idle"]
    /\ op    = [a \in Att |-> "none"]
    /\ n     = [a \in Att |-> 0]
    /\ req   = [a \in Att |-> {}]
    /\ want  = [a \in Att |-> NoIP]
    /\ iter  = [a \in Att |-> NoIter]
    /\ got   = [a \in Att |-> {}]
    /\ walk  = [a \in Att |-> "new"]
    /\ held  = [a \in Att |-> {}]
    /\ added = [a \in Att |-> FALSE]

\* The process ends, whatever it answers; its file descriptors are closed.
Exit(a) ==
    /\ pc'   = [pc   EXCEPT ![a] = "idle"]
    /\ op'   = [op   EXCEPT ![a] = "none"]
    /\ n'    = [n    EXCEPT ![a] = 0]
    /\ req'  = [req  EXCEPT ![a] = {}]
    /\ want' = [want EXCEPT ![a] = NoIP]
    /\ iter' = [iter EXCEPT ![a] = NoIter]
    /\ got'  = [got  EXCEPT ![a] = {}]
    /\ walk' = [walk EXCEPT ![a] = "new"]
    /\ Unlock(a)

Goto(a, label) == pc' = [pc EXCEPT ![a] = label]

\* cmdAdd gives up after done range sets: one Release for each of them.
Rollback(a, done) ==
    IF done = 0
    THEN Exit(a)
    ELSE /\ Goto(a, "release")
         /\ n'    = [n    EXCEPT ![a] = done]
         /\ got'  = [got  EXCEPT ![a] = {}]
         /\ req'  = [req  EXCEPT ![a] = {}]
         /\ want' = [want EXCEPT ![a] = NoIP]
         /\ iter' = [iter EXCEPT ![a] = NoIter]
         /\ Unlock(a)
         /\ UNCHANGED <<op, walk>>

\* Get returns an error for the range set in turn.
GetFails(a) == Rollback(a, n[a] - 1)

-----------------------------------------------------------------------------
(* ADD.                                                                    *)

\* The runtime starts the plugin; cmdAdd loads the configuration.
BeginAdd(a) ==
    /\ pc[a] = "idle"
    /\ StrictRuntime => ~added[a]
    /\ \E R \in Requests : req' = [req EXCEPT ![a] = R]
    /\ Goto(a, "get")
    /\ op'    = [op EXCEPT ![a] = "add"]
    /\ n'     = [n EXCEPT ![a] = 1]
    /\ added' = [added EXCEPT ![a] = TRUE]
    /\ UNCHANGED <<store, lock, want, iter, got, walk, held>>

\* cmdAdd looks for a requested address in the range set, in the random order
\* of a Go map; Get takes the lock.
EnterGet(a) ==
    /\ pc[a] = "get"
    /\ \E ip \in req[a] \cup {NoIP} :
          /\ ip = NoIP <=> req[a] \cap SetAddrs[n[a]] = {}
          /\ ip # NoIP => ip \in SetAddrs[n[a]]
          /\ want' = [want EXCEPT ![a] = ip]
          /\ req'  = [req EXCEPT ![a] = @ \ {ip}]
    /\ Lock(a)
    /\ Goto(a, "try")
    /\ UNCHANGED <<store, op, n, iter, got, walk, held, added>>

\* Variant: without the gateway test.
TryRequestedUnchecked(a) ==
    /\ pc[a] = "try"
    /\ want[a] # NoIP
    /\ Goto(a, "create")
    /\ UNCHANGED <<store, lock, op, n, req, want, iter, got, walk, held, added>>

\* A requested address must not be its range's gateway.
TryRequested(a) ==
    /\ pc[a] = "try"
    /\ want[a] # NoIP
    /\ LET R == Ranges[n[a]]
       IN  IF want[a] = R[RangeFor(R, want[a])].gw
           THEN GetFails(a)
           ELSE Goto(a, "create") /\ UNCHANGED <<lock, op, n, req, want, iter, got, walk>>
    /\ UNCHANGED <<store, held, added>>

\* Otherwise the attachment must have no address in this range set yet, and
\* the search starts after the last address reserved from it.
TryAny(a) ==
    /\ pc[a] = "try"
    /\ want[a] = NoIP
    /\ IF OwnedBy(a) \cap SetAddrs[n[a]] # {}
       THEN GetFails(a)
       ELSE /\ iter' = [iter EXCEPT ![a] = GetIter(Ranges[n[a]], last[n[a]])]
            /\ Goto(a, "next")
            /\ UNCHANGED <<lock, op, n, req, want, got, walk>>
    /\ UNCHANGED <<store, held, added>>

\* Variant: gateways are returned like any other address.
IterNextAnyAddress(a) ==
    LET R == Ranges[n[a]]
    IN  /\ pc[a] = "next"
        /\ iter' = [iter EXCEPT ![a] = Advance(R, @)]
        /\ Goto(a, IF LoopedBack(R, iter[a]) THEN "full" ELSE "create")
        /\ UNCHANGED <<store, lock, op, n, req, want, got, walk, held, added>>

\* One call of RangeIter.Next(); a gateway makes it call itself again.
IterNext(a) ==
    LET R == Ranges[n[a]]
    IN  /\ pc[a] = "next"
        /\ iter' = [iter EXCEPT ![a] = Advance(R, @)]
        /\ Goto(a, IF LoopedBack(R, iter[a]) THEN "full"
                   ELSE IF AtGateway(R, Advance(R, iter[a])) THEN "next"
                   ELSE "create")
        /\ UNCHANGED <<store, lock, op, n, req, want, got, walk, held, added>>

\* "no IP addresses available in range set"
Exhausted(a) ==
    /\ pc[a] = "full"
    /\ GetFails(a)
    /\ UNCHANGED <<store, held, added>>

\* Variant: opened without O_EXCL.
CreateOverwrites(a) ==
    /\ pc[a] = "create"
    /\ files' = [files EXCEPT ![Target(a)] = EmptyFile]
    /\ Goto(a, "write")
    /\ UNCHANGED <<last, lock, op, n, req, want, iter, got, walk, held, added>>

\* Store.Reserve: the file is created only if there is none.
Create(a) ==
    /\ pc[a] = "create"
    /\ files[Target(a)] = NoFile
    /\ files' = [files EXCEPT ![Target(a)] = EmptyFile]
    /\ Goto(a, "write")
    /\ UNCHANGED <<last, lock, op, n, req, want, iter, got, walk, held, added>>

\* The address is taken: an error for a requested one, else on to the next.
CreateExists(a) ==
    /\ pc[a] = "create"
    /\ files[Target(a)] # NoFile
    /\ IF want[a] # NoIP
       THEN GetFails(a)
       ELSE Goto(a, "next") /\ UNCHANGED <<lock, op, n, req, want, iter, got, walk>>
    /\ UNCHANGED <<store, held, added>>

WriteID(a) ==
    /\ pc[a] = "write"
    /\ files' = [files EXCEPT ![Target(a)] = a]
    /\ Goto(a, "trunc")
    /\ UNCHANGED <<last, lock, op, n, req, want, iter, got, walk, held, added>>

\* ioutil.WriteFile first truncates the file it is going to write.
TruncateLast(a) ==
    /\ pc[a] = "trunc"
    /\ last' = [last EXCEPT ![n[a]] = NoIP]
    /\ Goto(a, "last")
    /\ UNCHANGED <<files, lock, op, n, req, want, iter, got, walk, held, added>>

\* Get returns the address; cmdAdd goes on to the next range set, or fails if
\* a requested address was in no range set, or prints its result.
WriteLast(a) ==
    /\ pc[a] = "last"
    /\ last' = [last EXCEPT ![n[a]] = Target(a)]
    /\ \/ /\ n[a] < Len(Ranges)
          /\ got'  = [got EXCEPT ![a] = @ \cup {Target(a)}]
          /\ n'    = [n EXCEPT ![a] = @ + 1]
          /\ want' = [want EXCEPT ![a] = NoIP]
          /\ iter' = [iter EXCEPT ![a] = NoIter]
          /\ Goto(a, "get")
          /\ Unlock(a)
          /\ UNCHANGED <<op, req, walk, held>>
       \/ /\ n[a] = Len(Ranges)
          /\ req[a] # {}
          /\ Rollback(a, Len(Ranges))
          /\ UNCHANGED held
       \/ /\ n[a] = Len(Ranges)
          /\ req[a] = {}
          /\ held' = [held EXCEPT ![a] = @ \cup got[a] \cup {Target(a)}]
          /\ Exit(a)
    /\ UNCHANGED <<files, added>>

\* The error returns of Reserve.  A failed write removes the new file; a
\* failure on last_reserved_ip leaves it behind.
ReserveFails(a) ==
    /\ IOMayFail
    /\ pc[a] \in {"create", "write", "trunc", "last"}
    /\ files' = IF pc[a] = "write"
                THEN [files EXCEPT ![Target(a)] = NoFile] ELSE files
    /\ GetFails(a)
    /\ UNCHANGED <<last, held, added>>

-----------------------------------------------------------------------------
(* DEL, and the releases a failed ADD makes.                               *)

\* The runtime has given the addresses up when it starts the DEL.
BeginDel(a) ==
    /\ pc[a] = "idle"
    /\ Goto(a, "release")
    /\ op'   = [op EXCEPT ![a] = "del"]
    /\ n'    = [n EXCEPT ![a] = Len(Ranges)]
    /\ held' = [held EXCEPT ![a] = {}]
    /\ UNCHANGED <<store, lock, req, want, iter, got, walk, added>>

EnterRelease(a) ==
    /\ pc[a] = "release"
    /\ Lock(a)
    /\ Goto(a, "walk")
    /\ walk' = [walk EXCEPT ![a] = "new"]
    /\ UNCHANGED <<store, op, n, req, want, iter, got, held, added>>

\* ReleaseByKey removes the files it matches one by one.
WalkRemove(a) ==
    /\ pc[a] = "walk"
    /\ \E ip \in Matching(a) : files' = [files EXCEPT ![ip] = NoFile]
    /\ walk' = [walk EXCEPT ![a] = IF @ = "new" THEN "found" ELSE @]
    /\ UNCHANGED <<last, lock, pc, op, n, req, want, iter, got, held, added>>

\* The walk is over.  If it found nothing, ReleaseByID walks again for files
\* of a previous version.  Errors of os.Remove are swallowed.
WalkEnd(a) ==
    /\ pc[a] = "walk"
    /\ Matching(a) = {} \/ IOMayFail
    /\ \/ /\ walk[a] = "new"
          /\ walk' = [walk EXCEPT ![a] = "old"]
          /\ UNCHANGED <<lock, pc, op, n, req, want, iter, got, added>>
       \/ /\ walk[a] # "new"
          /\ n[a] > 1
          /\ n' = [n EXCEPT ![a] = @ - 1]
          /\ Goto(a, "release")
          /\ Unlock(a)
          /\ UNCHANGED <<op, req, want, iter, got, walk, added>>
       \/ /\ walk[a] # "new"
          /\ n[a] = 1
          /\ added' = [added EXCEPT ![a] = IF op[a] = "del" THEN FALSE ELSE @]
          /\ Exit(a)
    /\ UNCHANGED <<store, held>>

\* The plugin process is killed.
Crash(a) ==
    /\ MayCrash
    /\ pc[a] # "idle"
    /\ Exit(a)
    /\ UNCHANGED <<store, held, added>>

-----------------------------------------------------------------------------
\* Steps a running process takes by itself, once it has what it waits for.
Step(a) ==
    \/ TryRequested(a) \/ TryAny(a) \/ IterNext(a) \/ Exhausted(a)
    \/ Create(a) \/ CreateExists(a) \/ WriteID(a) \/ TruncateLast(a)
    \/ WriteLast(a) \/ WalkRemove(a) \/ WalkEnd(a)

\* Steps that wait for the lock.
Enter(a) == EnterGet(a) \/ EnterRelease(a)

Next ==
    \E a \in Att :
       \/ BeginAdd(a) \/ BeginDel(a)
       \/ Enter(a) \/ Step(a) \/ ReserveFails(a)
       \/ Crash(a)

Spec == Init /\ [][Next]_vars

\* A plugin process keeps running, and the kernel does not pass over the same
\* waiter of a flock for ever.  Nothing obliges the runtime to start commands.
Fairness == \A a \in Att : WF_vars(Step(a)) /\ SF_vars(Enter(a))

FairSpec == Spec /\ Fairness
-----------------------------------------------------------------------------
(* Correctness.                                                            *)

Labels == {"idle", "get", "try", "next", "full", "create", "write", "trunc",
           "last", "release", "walk"}

IterType == [rangeIdx : Nat, cur : {NoIP} \cup IP, startIP : {NoIP} \cup IP,
             startRange : Nat]

TypeOK ==
    /\ files \in [IP -> Att \cup Cont \cup {NoFile, EmptyFile}]
    /\ last  \in [Sets -> {NoIP} \cup IP]
    /\ lock  \in SUBSET Att
    /\ pc    \in [Att -> Labels]
    /\ op    \in [Att -> {"none", "add", "del"}]
    /\ n     \in [Att -> 0 .. Len(Ranges)]
    /\ req   \in [Att -> SUBSET (Nat \ {NoIP})]
    /\ want  \in [Att -> {NoIP} \cup IP]
    /\ iter  \in [Att -> IterType]
    /\ got   \in [Att -> SUBSET IP]
    /\ walk  \in [Att -> {"new", "found", "old"}]
    /\ held  \in [Att -> SUBSET IP]
    /\ added \in [Att -> BOOLEAN]

(***************************************************************************)
(* An address the plugin reported for an attachment stays reserved under   *)
(* that attachment's name until its DEL: no rollback, release, crash,      *)
(* failed write or lost lock of any process gives it away (Reserve's       *)
(* O_EXCL and ReleaseByID's match).                                        *)
(***************************************************************************)
HeldReserved == \A a \in Att : \A ip \in held[a] : files[ip] = a

(***************************************************************************)
(* Once a DEL has succeeded, whatever ADDs were killed or failed before    *)
(* it, no file is left under the attachment's name (ReleaseByID).          *)
(***************************************************************************)
DelForgets == \A a \in Att : ~added[a] => \A ip \in IP : files[ip] # a

\* The addresses of a range set that Next() may return.
Allocatable == [k \in Sets |->
    UNION {Addrs(Ranges[k][i]) \ {Ranges[k][i].gw} : i \in DOMAIN Ranges[k]}]

(***************************************************************************)
(* Get gives up with "no IP addresses available" only when every address   *)
(* of the range set is really taken, wherever the search started           *)
(* (GetIter, Next).                                                        *)
(***************************************************************************)
FullIsFull ==
    \A a \in Att :
       pc[a] = "full" => \A ip \in Allocatable[n[a]] : files[ip] # NoFile

\* The order of a range set's addresses, and those met on the way from x to y:
\* from the beginning if x is in none of its ranges.
Before(R, x, y) ==
    \/ RangeFor(R, x) < RangeFor(R, y)
    \/ RangeFor(R, x) = RangeFor(R, y) /\ x < y

Between(k, x, y) ==
    LET R == Ranges[k]
    IN  {z \in Allocatable[k] :
            IF ~Contains(R, x) THEN Before(R, z, y)
            ELSE IF Before(R, x, y) THEN Before(R, x, z) /\ Before(R, z, y)
            ELSE z # y /\ (Before(R, x, z) \/ Before(R, z, y))}

(***************************************************************************)
(* "a crash-looping container will not see the same IP until the entire    *)
(* range has been run through": the search takes the first free address    *)
(* after the last one reserved, in the order of the ranges and around      *)
(* their end (GetIter, Next, Reserve's last_reserved_ip).                  *)
(***************************************************************************)
RoundRobin ==
    \A a \in Att :
       pc[a] = "write" /\ want[a] = NoIP =>
          \A ip \in Between(n[a], last[n[a]], iter[a].cur) : files[ip] # NoFile

(***************************************************************************)
(* Every command returns: nobody waits for ever for the lock, and the      *)
(* search for a free address ends (Get, Next, Lock).                       *)
(***************************************************************************)
CommandsReturn == \A a \in Att : pc[a] # "idle" ~> pc[a] = "idle"

\* What an ADD may answer: one address of each range set, never a gateway.
Results ==
    {S \in SUBSET IP : \A k \in Sets :
        \E ip \in Allocatable[k] : S \cap SetAddrs[k] = {ip}}

(***************************************************************************)
(* The plugin implements the abstract pool: whole results appear and       *)
(* disappear at once, made of addresses no other attachment holds          *)
(* (cmdAdd, cmdDel).                                                       *)
(***************************************************************************)
Pool == INSTANCE AddressPool WITH assigned <- held
PoolSpec == Pool!Spec
=============================================================================
