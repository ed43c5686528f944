-------------------------- MODULE DHCPDaemonProofs --------------------------
(***************************************************************************)
(* Proofs about the DHCP daemon, for any number of clients, lease objects, *)
(* concurrent calls and addresses.                                         *)
(***************************************************************************)
EXTENDS DHCPDaemon, TLAPS

\* An Allocate that has a lease of its own, not in the map yet.
Allocating == {"acquire", "undo", "set"}

\* The handler of a call: one for each plugin process that is waiting.
CallOK(h) ==
    /\ call[h].pc = "idle" => call[h] = NoCall
    /\ call[h].pc # "idle" =>
          /\ call[h].live
          /\ call[h].client \in Client
          /\ added[call[h].client]
          /\ told[call[h].client] = None
    /\ call[h].pc \in Allocating =>
          /\ call[h].op = "add"
          /\ call[h].lease \in Lease
          /\ leases[call[h].client] = None
    /\ call[h].pc \in {"stop", "clear"} =>
          /\ call[h].lease \in Lease
          /\ call[h].lease = leases[call[h].client]
    /\ call[h].pc = "clear" => ~Running(call[h].lease)
    /\ call[h].pc = "reply" => leases[call[h].client] = None

\* No two calls are about the same client or the same lease, and no lease
\* belongs to two clients.
Apart ==
    /\ \A h, g \in Call :
          h # g /\ call[h].client = call[g].client => call[h].client = None
    /\ \A h, g \in Call :
          h # g /\ call[h].lease = call[g].lease => call[h].lease = None
    /\ \A h \in Call : \A c \in Client :
          call[h].lease = leases[c] => leases[c] = None \/ call[h].client = c
    /\ \A c, d \in Client : c # d /\ leases[c] = leases[d] => leases[c] = None

\* What the runtime knows agrees with the map.
ClientOK(c) ==
    /\ leases[c] # None => added[c]
    /\ told[c] # None => leases[c] # None

\* Call h is acquiring lease l for its client.
AcquiredBy(h, l) ==
    /\ call[h].pc \in Allocating
    /\ call[h].lease = l
    /\ call[h].client = lease[l].client

\* A goroutine that runs is known to the map or to the Allocate that started it.
LeaseOK(l) ==
    /\ Running(l) => /\ lease[l].client \in Client
                     /\ leases[lease[l].client] = l \/ \E h \in Call : AcquiredBy(h, l)
    /\ lease[l].state = "acquiring" =>
          /\ lease[l].errCh = "empty"
          /\ \E h \in Call : AcquiredBy(h, l) /\ call[h].pc = "acquire"
    /\ Maintained(l) => lease[l].addr \in Addr
    /\ lease[l].errCh = "error" => ~Running(l)

OwnInv == /\ \A h \in Call : CallOK(h)
          /\ Apart
          /\ \A c \in Client : ClientOK(c)
          /\ \A l \in Lease : LeaseOK(l)

\* The server binds one address to a client.
OneBinding == \A a, b \in Addr : srv[a] = srv[b] /\ a # b => srv[a] = None

\* The lease ended because it expired.
EndedExpired(l) == lease[l].state = "done" /\ lease[l].age = Expired

\* The Allocate has a lease to report.
Acquired(h) ==
    \/ call[h].pc = "set"
    \/ call[h].pc = "acquire" /\ lease[call[h].lease].errCh = "nil"

\* An interface that is down belongs to a lease that ended, or to none.
DownOK(c) ==
    c \in down =>
       /\ told[c] # None => EndedExpired(leases[c])
       /\ \A h \in Call :
             call[h].client = c /\ Acquired(h) => EndedExpired(call[h].lease)

DownInv == \A c \in Client : DownOK(c)
-----------------------------------------------------------------------------
(* Types and effects.                                                      *)

\* A handler that has a lease object has a real one, and so does a goroutine
\* that runs have a client.
TypeInv ==
    /\ TypeOK
    /\ \A h \in Call : call[h].pc \in Allocating => call[h].lease \in Lease
    /\ \A l \in Lease : Running(l) => lease[l].client \in Client

\* A step of one goroutine or of one handler leaves the others alone.
OneLease(l) == \A m \in Lease \ {l} : lease'[m] = lease[m]
OneCall(h)  == \A g \in Call \ {h} : call'[g] = call[g]

LEMMA Ages == /\ MaxAge \in Nat /\ Expired \in Nat /\ Fresh # Expired
              /\ Fresh \in 0 .. MaxAge
  BY DHCPAssumption DEF RebindDue, Expired, Fresh

LEMMA NoneTyped == NoLease \in LeaseType /\ NoCall \in CallType
  BY Ages DEF NoLease, LeaseType, NoCall, CallType

LEMMA OffersTyped ==
  ASSUME NEW c
  PROVE  Offers(c) \subseteq Addr
  BY DEF Offers

LEMMA TypeInit == Init => TypeInv
<1> SUFFICES ASSUME Init PROVE TypeInv
  OBVIOUS
<1>1. TypeOK
  BY NoneTyped DEF Init, TypeOK
<1>2. \A h \in Call : call[h].pc \notin Allocating
  BY DEF Init, NoCall, Allocating
<1>3. \A l \in Lease : ~Running(l)
  BY DEF Init, NoLease, Running
<1> QED
  BY <1>1, <1>2, <1>3 DEF TypeInv

\* What a step of the goroutine of lease l does to the objects: only its own
\* changes, and it goes on for the same client, with an address of the server.
GoStep(l) ==
    /\ UNCHANGED <<call, leases, told, added>>
    /\ Running(l)
    /\ OneLease(l)
    /\ lease'[l].state # "acquiring"
    /\ Running(l)' => lease'[l].client = lease[l].client
    /\ Maintained(l)' => lease'[l].addr \in Addr \/ (Maintained(l) /\ lease'[l].addr = lease[l].addr)
    /\ lease'[l].errCh = "error" => ~Running(l)' \/ lease[l].errCh = "error"

LEMMA GoTyped ==
  ASSUME TypeInv, NEW l \in Lease, GoStep(l), lease' \in [Lease -> LeaseType],
         srv' \in [Addr -> Client \cup {None}], down' \in SUBSET Client
  PROVE  TypeInv'
<1>1. TypeOK'
  BY DEF TypeInv, TypeOK, GoStep
<1>2. \A h \in Call : call'[h].pc \in Allocating => call'[h].lease \in Lease
  BY DEF TypeInv, GoStep
<1>3. \A m \in Lease : Running(m)' => lease'[m].client \in Client
  <2> SUFFICES ASSUME NEW m \in Lease, Running(m)' PROVE lease'[m].client \in Client
    OBVIOUS
  <2>1. CASE m = l
    BY <2>1 DEF TypeInv, GoStep
  <2>2. CASE m # l
    BY <2>2 DEF TypeInv, GoStep, OneLease, Running
  <2> QED
    BY <2>1, <2>2
<1> QED
  BY <1>1, <1>2, <1>3 DEF TypeInv

\* What a goroutine does to the server and to the interface: it binds what the
\* server offers, or gives its own address back at the end; a lease that is
\* maintained afterwards and has not expired was granted, renewed or just kept.
GoServer(l) ==
    /\ \/ srv' = srv
       \/ \E a \in Offers(lease[l].client) : Bind(lease[l].client, a)
       \/ /\ ~Running(l)'
          /\ srv[lease[l].addr] = lease[l].client
          /\ srv' = [srv EXCEPT ![lease[l].addr] = None]
    /\ Maintained(l)' /\ lease'[l].age # Expired =>
          \/ srv'[lease'[l].addr] = lease[l].client
          \/ /\ Maintained(l) /\ lease[l].age # Expired
             /\ lease'[l].addr = lease[l].addr
             /\ srv' = srv \/ \E a \in Offers(lease[l].client) : Bind(lease[l].client, a)
    /\ Maintained(l)' /\ Maintained(l) /\ lease[l].age # Expired =>
          lease'[l].addr = lease[l].addr \/ lease'[l].addr \in Offers(lease[l].client)

\* And to the interface: only the end of an expired lease brings it down, and
\* the first binding brings it up.
GoDown(l) ==
    /\ down' \subseteq down \cup {lease[l].client}
    /\ lease[l].client \in down' \ down => EndedExpired(l)'
    /\ lease'[l].errCh = "nil" => lease[l].errCh = "nil" \/ lease[l].client \notin down'

Go(l) == GoStep(l) /\ GoServer(l) /\ GoDown(l)
LEMMA GoFacts ==
  ASSUME TypeInv, NEW l \in Lease, Maintain(l) \/ Tick(l)
  PROVE  Go(l) /\ TypeInv'
<1> DEFINE c == lease[l].client
<1> USE DEF TypeInv
<1>t. lease[l] \in LeaseType /\ TypeOK
  BY DEF TypeOK
<1>0. ASSUME Go(l), lease' \in [Lease -> LeaseType],
             srv' \in [Addr -> Client \cup {None}], down' \in SUBSET Client
      PROVE  Go(l) /\ TypeInv'
  BY <1>0, GoTyped DEF Go
<1>u. ASSUME Unanswered(c) PROVE srv' \in [Addr -> Client \cup {None}]
  BY <1>u, <1>t DEF Unanswered, Bind, TypeOK, LeaseType
<1>k. ASSUME NEW r \in LeaseType, lease' = [lease EXCEPT ![l] = r]
      PROVE  /\ lease' \in [Lease -> LeaseType] /\ lease'[l] = r /\ OneLease(l)
  BY <1>k DEF TypeOK, OneLease
<1>1. CASE Acquire(l)
  <2>1. PICK a \in Offers(c) :
           /\ Bind(c, a)
           /\ lease' = [lease EXCEPT ![l].state = "bound", ![l].addr = a, ![l].errCh = "nil"]
    BY <1>1 DEF Acquire
  <2>2. /\ down' = down \ {c} /\ UNCHANGED <<leases, call, told, added>>
        /\ lease[l].state = "acquiring"
    BY <1>1 DEF Acquire
  <2>3. a \in Addr /\ c \in Client
    BY <2>2, OffersTyped DEF Running
  <2> DEFINE r == [lease[l] EXCEPT !.state = "bound", !.addr = a, !.errCh = "nil"]
  <2>4. /\ r \in LeaseType /\ r.state = "bound" /\ r.addr = a /\ r.errCh = "nil"
        /\ r.client = c
    BY <1>t, <2>3 DEF LeaseType
  <2>5. lease' = [lease EXCEPT ![l] = r]
    BY <2>1 DEF TypeOK
  <2> HIDE DEF r
  <2>6. /\ lease' \in [Lease -> LeaseType] /\ lease'[l] = r /\ OneLease(l)
    BY <2>4, <2>5, <1>k
  <2>7. GoStep(l)
    BY <2>2, <2>3, <2>4, <2>6 DEF GoStep, Running, Maintained
  <2>8. srv' \in [Addr -> Client \cup {None}] /\ srv'[a] = c
    BY <2>1, <2>3 DEF Bind, TypeOK
  <2>9. GoServer(l)
    BY <2>1, <2>2, <2>3, <2>4, <2>6, <2>8 DEF GoServer, Maintained, Running
  <2>10. GoDown(l)
    BY <2>2 DEF GoDown
  <2>11. down' \in SUBSET Client
    BY <2>2 DEF TypeOK
  <2> QED
    BY <2>6, <2>7, <2>8, <2>9, <2>10, <2>11, <1>0 DEF Go
<1>2. CASE AcquireFails(l)
  <2>1. /\ lease' = [lease EXCEPT ![l] = [NoLease EXCEPT !.errCh = "error"]]
        /\ UNCHANGED <<leases, call, told, added>> /\ Unanswered(c)
        /\ lease[l].state = "acquiring" /\ down' \in {down, down \ {c}}
    BY <1>2 DEF AcquireFails
  <2> DEFINE r == [NoLease EXCEPT !.errCh = "error"]
  <2>2. r \in LeaseType /\ r.state = "done" /\ r.errCh = "error"
    BY NoneTyped DEF NoLease, LeaseType
  <2> HIDE DEF r
  <2>3. /\ lease' \in [Lease -> LeaseType] /\ lease'[l] = r /\ OneLease(l)
    BY <2>1, <2>2, <1>k DEF r
  <2>4. GoStep(l) /\ GoServer(l)
    BY <2>1, <2>2, <2>3 DEF GoStep, GoServer, Running, Maintained, Unanswered
  <2>5. GoDown(l)
    BY <2>1, <2>2, <2>3 DEF GoDown
  <2>6. down' \in SUBSET Client
    BY <2>1 DEF TypeOK
  <2> QED
    BY <2>1, <2>3, <2>4, <2>5, <2>6, <1>0, <1>u DEF Go
<1>3. CASE Bound(l) \/ Wake(l) \/ RenewFails(l)
  <2>1. PICK s \in {"bound", "renewing", "rebinding"}, w \in {"top", "select"} :
           lease' = [lease EXCEPT ![l] = [lease[l] EXCEPT !.state = s, !.at = w]]
    <3>1. CASE Bound(l)
      <4>1. CASE lease[l].age = Fresh
        <5>1. lease[l] = [lease[l] EXCEPT !.state = "bound"]
          BY <3>1, <1>t DEF Bound, LeaseType
        <5>2. lease' = [lease EXCEPT ![l] = [lease[l] EXCEPT !.state = "bound", !.at = "select"]]
          BY <3>1, <4>1, <5>1 DEF Bound, TypeOK
        <5> QED
          BY <5>2
      <4>2. CASE lease[l].age # Fresh
        <5>1. [lease[l] EXCEPT !.state = "renewing"] = [lease[l] EXCEPT !.state = "renewing", !.at = "top"]
          BY <3>1, <1>t DEF Bound, LeaseType
        <5>2. lease' = [lease EXCEPT ![l] = [lease[l] EXCEPT !.state = "renewing", !.at = "top"]]
          BY <3>1, <4>2, <5>1 DEF Bound, TypeOK
        <5> QED
          BY <5>2
      <4> QED
        BY <4>1, <4>2
    <3>2. CASE Wake(l)
      <4>1. [lease[l] EXCEPT !.at = "top"] = [lease[l] EXCEPT !.state = lease[l].state, !.at = "top"]
        BY <1>t DEF LeaseType
      <4>2. lease[l].state \in {"bound", "renewing", "rebinding"}
        BY <3>2 DEF Wake, Maintained
      <4>3. lease' = [lease EXCEPT ![l] = [lease[l] EXCEPT !.state = lease[l].state, !.at = "top"]]
        BY <3>2, <4>1 DEF Wake, TypeOK
      <4> QED
        BY <4>2, <4>3
    <3>3. CASE RenewFails(l)
      <4> DEFINE s == IF lease[l].age >= RebindDue THEN "rebinding" ELSE "renewing"
      <4>1. [lease[l] EXCEPT !.at = "select",
               !.state = IF lease[l].age >= RebindDue THEN "rebinding" ELSE @]
            = [lease[l] EXCEPT !.state = s, !.at = "select"]
        BY <3>3, <1>t DEF LeaseType, RenewFails
      <4>2. lease' = [lease EXCEPT ![l] = [lease[l] EXCEPT !.state = s, !.at = "select"]]
        BY <3>3, <4>1 DEF RenewFails, TypeOK
      <4> QED
        BY <4>2
    <3> QED
      BY <1>3, <3>1, <3>2, <3>3
  <2>2. UNCHANGED <<leases, call, srv, down, told, added>> /\ Maintained(l)
    BY <1>3 DEF Bound, Wake, RenewFails, Maintained
  <2> DEFINE r == [lease[l] EXCEPT !.state = s, !.at = w]
  <2>3. /\ r \in LeaseType /\ r.state = s /\ r.addr = lease[l].addr
        /\ r.errCh = lease[l].errCh /\ r.client = c /\ r.age = lease[l].age
    BY <1>t DEF LeaseType
  <2> HIDE DEF r
  <2>4. /\ lease' \in [Lease -> LeaseType] /\ lease'[l] = r /\ OneLease(l)
    BY <2>1, <2>3, <1>k DEF r
  <2>5. GoStep(l)
    BY <2>2, <2>3, <2>4 DEF GoStep, Running, Maintained
  <2>6. GoServer(l) /\ GoDown(l)
    BY <2>2, <2>3, <2>4 DEF GoServer, GoDown, Maintained
  <2>7. srv' \in [Addr -> Client \cup {None}] /\ down' \in SUBSET Client
    BY <2>2 DEF TypeOK
  <2> QED
    BY <2>4, <2>5, <2>6, <2>7, <1>0 DEF Go
<1>4. CASE Renew(l)
  <2>1. PICK t \in {Fresh, lease[l].age} :
           lease' = [lease EXCEPT ![l] = [lease[l] EXCEPT !.state = "bound", !.at = "select", !.age = t]]
    <3>1. [lease[l] EXCEPT !.state = "bound", !.at = "select"]
          = [lease[l] EXCEPT !.state = "bound", !.at = "select", !.age = lease[l].age]
      BY <1>t DEF LeaseType
    <3> QED
      BY <1>4, <3>1 DEF Renew, TypeOK
  <2>2. /\ UNCHANGED <<leases, call, srv, down, told, added>> /\ Maintained(l)
        /\ srv[lease[l].addr] = c
    BY <1>4 DEF Renew, Maintained
  <2> DEFINE r == [lease[l] EXCEPT !.state = "bound", !.at = "select", !.age = t]
  <2>3. /\ r \in LeaseType /\ r.state = "bound" /\ r.addr = lease[l].addr
        /\ r.errCh = lease[l].errCh /\ r.client = c
    BY <1>t, Ages DEF LeaseType
  <2> HIDE DEF r
  <2>4. /\ lease' \in [Lease -> LeaseType] /\ lease'[l] = r /\ OneLease(l)
    BY <2>1, <2>3, <1>k DEF r
  <2>5. GoStep(l)
    BY <2>2, <2>3, <2>4 DEF GoStep, Running, Maintained
  <2>7. GoServer(l) /\ GoDown(l)
    BY <2>2, <2>3, <2>4 DEF GoServer, GoDown
  <2>8. srv' \in [Addr -> Client \cup {None}] /\ down' \in SUBSET Client
    BY <2>2 DEF TypeOK
  <2> QED
    BY <2>4, <2>5, <2>7, <2>8, <1>0 DEF Go
<1>5. CASE Rebind(l)
  <2>1. PICK a \in Offers(c) :
           /\ Bind(c, a)
           /\ lease' = [lease EXCEPT ![l].state = "bound", ![l].at = "select",
                                     ![l].age = Fresh, ![l].addr = a]
    BY <1>5 DEF Rebind
  <2>2. UNCHANGED <<leases, call, down, told, added>> /\ Maintained(l) /\ Running(l)
    BY <1>5 DEF Rebind, Maintained, Running
  <2>3. a \in Addr /\ c \in Client
    BY <2>2, OffersTyped
  <2> DEFINE r == [lease[l] EXCEPT !.state = "bound", !.at = "select", !.age = Fresh, !.addr = a]
  <2>4. /\ r \in LeaseType /\ r.state = "bound" /\ r.addr = a
        /\ r.errCh = lease[l].errCh /\ r.client = c
    BY <1>t, <2>3, Ages DEF LeaseType
  <2>5. lease' = [lease EXCEPT ![l] = r]
    BY <2>1 DEF TypeOK
  <2> HIDE DEF r
  <2>6. /\ lease' \in [Lease -> LeaseType] /\ lease'[l] = r /\ OneLease(l)
    BY <2>4, <2>5, <1>k
  <2>7. GoStep(l)
    BY <2>2, <2>3, <2>4, <2>6 DEF GoStep, Running, Maintained
  <2>8. srv' \in [Addr -> Client \cup {None}] /\ srv'[a] = c
    BY <2>1, <2>3 DEF Bind, TypeOK
  <2>9. GoServer(l)
    BY <2>1, <2>3, <2>4, <2>6, <2>8 DEF GoServer
  <2>10. GoDown(l) /\ down' \in SUBSET Client
    BY <2>2, <2>4, <2>6 DEF GoDown, TypeOK
  <2> QED
    BY <2>6, <2>7, <2>8, <2>9, <2>10, <1>0 DEF Go
<1>6. CASE RebindFails(l)
  <2>1. /\ UNCHANGED <<leases, call, told, added>> /\ Unanswered(c)
        /\ Maintained(l) /\ Running(l)
    BY <1>6 DEF RebindFails, Maintained, Running
  <2>2. c \in Client
    BY <2>1
  <2>3. CASE lease[l].age = Expired
    <3>1. /\ lease' = [lease EXCEPT ![l].state = "done"]
          /\ down' \in {down, down \cup {c}}
      BY <1>6, <2>3 DEF RebindFails
    <3> DEFINE r == [lease[l] EXCEPT !.state = "done"]
    <3>2. /\ r \in LeaseType /\ r.state = "done" /\ r.errCh = lease[l].errCh
          /\ r.age = Expired
      BY <1>t, <2>3 DEF LeaseType
    <3>3. lease' = [lease EXCEPT ![l] = r]
      BY <3>1 DEF TypeOK
    <3> HIDE DEF r
    <3>4. /\ lease' \in [Lease -> LeaseType] /\ lease'[l] = r /\ OneLease(l)
      BY <3>2, <3>3, <1>k
    <3>5. GoStep(l) /\ GoServer(l)
      BY <2>1, <3>2, <3>4 DEF GoStep, GoServer, Running, Maintained, Unanswered
    <3>6. GoDown(l)
      BY <3>1, <3>2, <3>4 DEF GoDown, EndedExpired
    <3>7. down' \in SUBSET Client
      BY <2>2, <3>1 DEF TypeOK
    <3> QED
      BY <2>1, <3>4, <3>5, <3>6, <3>7, <1>0, <1>u DEF Go
  <2>4. CASE lease[l].age # Expired
    <3>1. lease' = [lease EXCEPT ![l].at = "select"] /\ down' = down
      BY <1>6, <2>4 DEF RebindFails
    <3> DEFINE r == [lease[l] EXCEPT !.at = "select"]
    <3>2. /\ r \in LeaseType /\ r.state = lease[l].state /\ r.addr = lease[l].addr
          /\ r.errCh = lease[l].errCh /\ r.client = c /\ r.age = lease[l].age
      BY <1>t DEF LeaseType
    <3>3. lease' = [lease EXCEPT ![l] = r]
      BY <3>1 DEF TypeOK
    <3> HIDE DEF r
    <3>4. /\ lease' \in [Lease -> LeaseType] /\ lease'[l] = r /\ OneLease(l)
      BY <3>2, <3>3, <1>k
    <3>5. GoStep(l)
      BY <2>1, <3>2, <3>4 DEF GoStep, Running, Maintained
    <3>6. GoServer(l)
      BY <2>1, <2>4, <3>2, <3>4 DEF GoServer, Unanswered
    <3>7. GoDown(l) /\ down' \in SUBSET Client
      BY <3>1, <3>2, <3>4 DEF GoDown, TypeOK
    <3> QED
      BY <2>1, <3>4, <3>5, <3>6, <3>7, <1>0, <1>u DEF Go
  <2> QED
    BY <2>3, <2>4
<1>7. CASE StopLease(l)
  <2>1. /\ lease' = [lease EXCEPT ![l] = NoLease]
        /\ UNCHANGED <<leases, call, down, told, added>> /\ Maintained(l) /\ Running(l)
        /\ \/ srv' = srv
           \/ srv[lease[l].addr] = c /\ srv' = [srv EXCEPT ![lease[l].addr] = None]
    BY <1>7 DEF StopLease, Maintained, Running
  <2>2. /\ lease' \in [Lease -> LeaseType] /\ lease'[l] = NoLease /\ OneLease(l)
    BY <2>1, <1>k, NoneTyped
  <2>3. NoLease.state = "done" /\ NoLease.errCh = "empty"
    BY DEF NoLease
  <2>4. GoStep(l) /\ GoServer(l)
    BY <2>1, <2>2, <2>3 DEF GoStep, GoServer, Running, Maintained
  <2>5. GoDown(l)
    BY <2>1, <2>2, <2>3 DEF GoDown
  <2>6. srv' \in [Addr -> Client \cup {None}] /\ down' \in SUBSET Client
    BY <2>1 DEF TypeOK
  <2> QED
    BY <2>2, <2>4, <2>5, <2>6, <1>0 DEF Go
<1>8. CASE Tick(l)
  <2>1. PICK t \in lease[l].age + 1 .. MaxAge : lease' = [lease EXCEPT ![l].age = t]
    BY <1>8 DEF Tick
  <2>2. UNCHANGED <<leases, call, srv, down, told, added>> /\ Maintained(l)
    BY <1>8 DEF Tick
  <2>3. t \in 0 .. MaxAge /\ (t # Expired => lease[l].age # Expired)
    <3>1. lease[l].age \in 0 .. MaxAge /\ MaxAge <= Expired /\ MaxAge \in Nat /\ Expired \in Nat
      BY <1>t, DHCPAssumption DEF LeaseType, RebindDue, Expired
    <3>2. t \in Nat /\ lease[l].age < t /\ t <= MaxAge
      BY <3>1
    <3> QED
      BY <3>1, <3>2
  <2> DEFINE r == [lease[l] EXCEPT !.age = t]
  <2>4. /\ r \in LeaseType /\ r.state = lease[l].state /\ r.addr = lease[l].addr
        /\ r.errCh = lease[l].errCh /\ r.client = c /\ r.age = t
    BY <1>t, <2>3 DEF LeaseType
  <2>5. lease' = [lease EXCEPT ![l] = r]
    BY <2>1 DEF TypeOK
  <2> HIDE DEF r
  <2>6. /\ lease' \in [Lease -> LeaseType] /\ lease'[l] = r /\ OneLease(l)
    BY <2>4, <2>5, <1>k
  <2>7. GoStep(l)
    BY <2>2, <2>4, <2>6 DEF GoStep, Running, Maintained
  <2>8. GoServer(l) /\ GoDown(l)
    BY <2>2, <2>3, <2>4, <2>6 DEF GoServer, GoDown
  <2>9. srv' \in [Addr -> Client \cup {None}] /\ down' \in SUBSET Client
    BY <2>2 DEF TypeOK
  <2> QED
    BY <2>6, <2>7, <2>8, <2>9, <1>0 DEF Go
<1> QED
  BY <1>1, <1>2, <1>3, <1>4, <1>5, <1>6, <1>7, <1>8 DEF Maintain

\* A handler does not change what its lease is, only its channels.
Touched ==
    \A m \in Lease :
       /\ lease'[m].state = lease[m].state
       /\ lease'[m].client = lease[m].client
       /\ lease'[m].addr = lease[m].addr
       /\ lease'[m].age = lease[m].age
       /\ lease'[m].errCh \in {lease[m].errCh, "empty"}

\* The call goes on from one place to the next, and keeps client and lease.
Proceeds(h, label) ==
    /\ OneCall(h)
    /\ call'[h].pc = label
    /\ call'[h].client = call[h].client
    /\ call'[h].lease = call[h].lease
    /\ call'[h].live = call[h].live
    /\ call'[h].op = call[h].op

Returns(h) == OneCall(h) /\ call'[h] = NoCall

LEMMA TouchSame == lease' = lease => Touched
  BY DEF Touched

LEMMA TouchLease ==
  ASSUME TypeOK, NEW l \in Lease, NEW e \in {lease[l].errCh, "empty"}, NEW s \in BOOLEAN,
         lease' = [lease EXCEPT ![l] = [lease[l] EXCEPT !.errCh = e, !.stopping = s]]
  PROVE  Touched /\ lease' \in [Lease -> LeaseType] /\ lease'[l].errCh = e
<1> DEFINE r == [lease[l] EXCEPT !.errCh = e, !.stopping = s]
<1>1. lease[l] \in LeaseType
  BY DEF TypeOK
<1>2. /\ r \in LeaseType /\ r.state = lease[l].state /\ r.addr = lease[l].addr
      /\ r.errCh = e /\ r.client = lease[l].client /\ r.age = lease[l].age
  BY <1>1 DEF LeaseType
<1> HIDE DEF r
<1>3. /\ lease' \in [Lease -> LeaseType] /\ lease'[l] = r
      /\ \A m \in Lease \ {l} : lease'[m] = lease[m]
  BY <1>2 DEF TypeOK, r
<1> QED
  BY <1>2, <1>3 DEF Touched

LEMMA ReturnCall ==
  ASSUME TypeOK, NEW h \in Call, Return(h)
  PROVE  Returns(h) /\ call' \in [Call -> CallType]
  BY NoneTyped DEF Return, Returns, OneCall, TypeOK

LEMMA ProceedCall ==
  ASSUME TypeOK, NEW h \in Call, NEW a \in Addr \cup {None},
         NEW label \in {"undo", "set", "clear", "reply"},
         call' = [call EXCEPT ![h] = [call[h] EXCEPT !.pc = label, !.addr = a]]
  PROVE  Proceeds(h, label) /\ call' \in [Call -> CallType]
<1> DEFINE r == [call[h] EXCEPT !.pc = label, !.addr = a]
<1>1. call[h] \in CallType
  BY DEF TypeOK
<1>2. /\ r \in CallType /\ r.pc = label /\ r.client = call[h].client
      /\ r.lease = call[h].lease /\ r.live = call[h].live /\ r.op = call[h].op
  BY <1>1 DEF CallType
<1> HIDE DEF r
<1>3. /\ call' \in [Call -> CallType] /\ call'[h] = r
      /\ \A g \in Call \ {h} : call'[g] = call[g]
  BY <1>2 DEF TypeOK, r
<1> QED
  BY <1>2, <1>3 DEF Proceeds, OneCall

\* The types after a step of a handler.
LEMMA HandlerTyped ==
  ASSUME TypeInv, NEW h \in Call, Touched, OneCall(h), UNCHANGED <<srv, down>>,
         lease' \in [Lease -> LeaseType], call' \in [Call -> CallType],
         leases' \in [Client -> Lease \cup {None}],
         told' \in [Client -> Addr \cup {None}], added' \in [Client -> BOOLEAN],
         call'[h].pc \in Allocating => call'[h].lease \in Lease
  PROVE  TypeInv'
<1>1. TypeOK'
  BY DEF TypeInv, TypeOK
<1>2. \A g \in Call : call'[g].pc \in Allocating => call'[g].lease \in Lease
  BY DEF TypeInv, OneCall
<1>3. \A m \in Lease : Running(m)' => lease'[m].client \in Client
  BY DEF TypeInv, Touched, Running
<1> QED
  BY <1>1, <1>2, <1>3 DEF TypeInv

\* Each step of a handler, field by field.
AllocateFailsE(h) ==
    /\ call[h].pc = "acquire" /\ lease[call[h].lease].errCh = "error"
    /\ Returns(h) /\ UNCHANGED <<leases, told, added>>
AllocateNoMaskE(h) ==
    /\ call[h].pc = "acquire" /\ lease[call[h].lease].errCh = "nil"
    /\ Proceeds(h, "undo") /\ UNCHANGED <<leases, told, added>>
AllocateReadE(h) ==
    /\ call[h].pc = "acquire" /\ lease[call[h].lease].errCh = "nil"
    /\ Proceeds(h, "set") /\ UNCHANGED <<leases, told, added>>
StopReturnsE(h) ==
    /\ \/ call[h].pc = "stop" /\ Proceeds(h, "clear")
       \/ call[h].pc = "undo" /\ Returns(h)
    /\ ~Running(call[h].lease)
    /\ UNCHANGED <<leases, told, added>>
ClearLeaseE(h) ==
    /\ call[h].pc = "clear" /\ Proceeds(h, "reply")
    /\ leases' = [leases EXCEPT ![call[h].client] = None]
    /\ UNCHANGED <<told, added>>

HandleE(h) == \/ AllocateFailsE(h) \/ AllocateNoMaskE(h) \/ AllocateReadE(h)
              \/ (AllocateSet(h) /\ Returns(h)) \/ StopReturnsE(h) \/ ClearLeaseE(h)
              \/ (ReleaseReply(h) /\ Returns(h))

LEMMA HandleFacts ==
  ASSUME TypeInv, NEW h \in Call, Handle(h)
  PROVE  TypeInv' /\ Touched /\ OneCall(h) /\ UNCHANGED <<srv, down>> /\ HandleE(h)
<1> DEFINE l == call[h].lease
<1> USE DEF TypeInv
<1>t. TypeOK /\ call[h] \in CallType
  BY DEF TypeOK
<1>l. call[h].pc \in Allocating => l \in Lease /\ lease[l] \in LeaseType
  BY DEF TypeOK
<1>r. ASSUME Return(h) PROVE Returns(h) /\ call' \in [Call -> CallType] /\ call'[h].pc = "idle"
  <2>1. Returns(h) /\ call' \in [Call -> CallType]
    BY <1>r, <1>t, ReturnCall
  <2>2. NoCall.pc = "idle"
    BY DEF NoCall
  <2> QED
    BY <2>1, <2>2 DEF Returns
<1>0. ASSUME Touched, OneCall(h), HandleE(h), UNCHANGED <<srv, down>>,
             lease' \in [Lease -> LeaseType], call' \in [Call -> CallType],
             leases' \in [Client -> Lease \cup {None}],
             told' \in [Client -> Addr \cup {None}], added' \in [Client -> BOOLEAN],
             call'[h].pc \in Allocating => call'[h].lease \in Lease
      PROVE  TypeInv' /\ Touched /\ OneCall(h) /\ UNCHANGED <<srv, down>> /\ HandleE(h)
  BY <1>0, HandlerTyped
<1>1. CASE AllocateFails(h)
  <2>1. /\ call[h].pc = "acquire" /\ lease[l].errCh = "error"
        /\ lease' = [lease EXCEPT ![l].errCh = "empty"]
        /\ UNCHANGED <<leases, srv, down, told, added>> /\ Return(h)
    BY <1>1 DEF AllocateFails
  <2>2. l \in Lease /\ lease[l] \in LeaseType
    BY <1>l, <2>1 DEF Allocating
  <2>3. [lease[l] EXCEPT !.errCh = "empty"]
        = [lease[l] EXCEPT !.errCh = "empty", !.stopping = lease[l].stopping]
    BY <2>2 DEF LeaseType
  <2>4. lease' = [lease EXCEPT ![l] =
                    [lease[l] EXCEPT !.errCh = "empty", !.stopping = lease[l].stopping]]
    BY <2>1, <2>3 DEF TypeOK
  <2>5. lease[l].stopping \in BOOLEAN
    BY <2>2 DEF LeaseType
  <2>6. Touched /\ lease' \in [Lease -> LeaseType]
    BY <2>2, <2>4, <2>5, TouchLease
  <2>7. HandleE(h) /\ OneCall(h) /\ call' \in [Call -> CallType] /\ call'[h].pc = "idle"
    BY <2>1, <1>r DEF HandleE, AllocateFailsE, Returns
  <2> QED
    BY <2>1, <2>6, <2>7, <1>0 DEF TypeOK, Allocating
<1>2. CASE AllocateNoMask(h)
  <2>1. /\ call[h].pc = "acquire" /\ lease[l].errCh = "nil"
        /\ lease' = [lease EXCEPT ![l].errCh = "empty", ![l].stopping = TRUE]
        /\ call' = [call EXCEPT ![h].pc = "undo"]
        /\ UNCHANGED <<leases, srv, down, told, added>>
    BY <1>2 DEF AllocateNoMask
  <2>2. l \in Lease /\ lease[l] \in LeaseType
    BY <1>l, <2>1 DEF Allocating
  <2>3. lease' = [lease EXCEPT ![l] = [lease[l] EXCEPT !.errCh = "empty", !.stopping = TRUE]]
    BY <2>1 DEF TypeOK
  <2>4. Touched /\ lease' \in [Lease -> LeaseType]
    BY <2>2, <2>3, TouchLease
  <2>5. [call[h] EXCEPT !.pc = "undo"] = [call[h] EXCEPT !.pc = "undo", !.addr = call[h].addr]
    BY <1>t DEF CallType
  <2>6. call' = [call EXCEPT ![h] = [call[h] EXCEPT !.pc = "undo", !.addr = call[h].addr]]
    BY <2>1, <2>5 DEF TypeOK
  <2>7. call[h].addr \in Addr \cup {None}
    BY <1>t DEF CallType
  <2>8. Proceeds(h, "undo") /\ call' \in [Call -> CallType]
    BY <2>6, <2>7, <1>t, ProceedCall
  <2>9. HandleE(h) /\ OneCall(h) /\ call'[h].lease = l
    BY <2>1, <2>8 DEF HandleE, AllocateNoMaskE, Proceeds
  <2> QED
    BY <2>1, <2>2, <2>4, <2>8, <2>9, <1>0 DEF TypeOK
<1>3. CASE AllocateRead(h)
  <2>1. /\ call[h].pc = "acquire" /\ lease[l].errCh = "nil"
        /\ lease' = [lease EXCEPT ![l].errCh = "empty"]
        /\ call' = [call EXCEPT ![h].pc = "set", ![h].addr = lease[l].addr]
        /\ UNCHANGED <<leases, srv, down, told, added>>
    BY <1>3 DEF AllocateRead
  <2>2. l \in Lease /\ lease[l] \in LeaseType
    BY <1>l, <2>1 DEF Allocating
  <2>3. [lease[l] EXCEPT !.errCh = "empty"]
        = [lease[l] EXCEPT !.errCh = "empty", !.stopping = lease[l].stopping]
    BY <2>2 DEF LeaseType
  <2>4. lease' = [lease EXCEPT ![l] =
                    [lease[l] EXCEPT !.errCh = "empty", !.stopping = lease[l].stopping]]
    BY <2>1, <2>3 DEF TypeOK
  <2>5. lease[l].stopping \in BOOLEAN /\ lease[l].addr \in Addr \cup {None}
    BY <2>2 DEF LeaseType
  <2>6. Touched /\ lease' \in [Lease -> LeaseType]
    BY <2>2, <2>4, <2>5, TouchLease
  <2>7. call' = [call EXCEPT ![h] = [call[h] EXCEPT !.pc = "set", !.addr = lease[l].addr]]
    BY <2>1 DEF TypeOK
  <2>8. Proceeds(h, "set") /\ call' \in [Call -> CallType]
    BY <2>5, <2>7, <1>t, ProceedCall
  <2>9. HandleE(h) /\ OneCall(h) /\ call'[h].lease = l
    BY <2>1, <2>8 DEF HandleE, AllocateReadE, Proceeds
  <2> QED
    BY <2>1, <2>2, <2>6, <2>8, <2>9, <1>0 DEF TypeOK
<1>4. CASE AllocateSet(h)
  <2>1. /\ call[h].pc = "set"
        /\ leases' = [leases EXCEPT ![call[h].client] = l]
        /\ told' \in {told, [told EXCEPT ![call[h].client] = call[h].addr]}
        /\ UNCHANGED <<lease, srv, down, added>> /\ Return(h)
    BY <1>4 DEF AllocateSet
  <2>2. l \in Lease /\ call[h].addr \in Addr \cup {None}
    BY <1>l, <1>t, <2>1 DEF Allocating, CallType
  <2>3. leases' \in [Client -> Lease \cup {None}] /\ told' \in [Client -> Addr \cup {None}]
    BY <2>1, <2>2 DEF TypeOK
  <2>4. HandleE(h) /\ OneCall(h) /\ call' \in [Call -> CallType] /\ call'[h].pc = "idle"
    BY <1>4, <2>1, <1>r DEF HandleE, Returns
  <2> QED
    BY <2>1, <2>3, <2>4, <1>0, TouchSame DEF TypeOK, Allocating
<1>5. CASE StopReturns(h)
  <2>1. /\ call[h].pc \in {"stop", "undo"} /\ ~Running(l)
        /\ UNCHANGED <<leases, lease, srv, down, told, added>>
    BY <1>5 DEF StopReturns
  <2>2. CASE call[h].pc = "stop"
    <3>1. [call[h] EXCEPT !.pc = "clear"] = [call[h] EXCEPT !.pc = "clear", !.addr = call[h].addr]
      BY <1>t DEF CallType
    <3>2. call' = [call EXCEPT ![h] = [call[h] EXCEPT !.pc = "clear", !.addr = call[h].addr]]
      BY <1>5, <2>2, <3>1 DEF StopReturns, TypeOK
    <3>3. call[h].addr \in Addr \cup {None}
      BY <1>t DEF CallType
    <3>4. Proceeds(h, "clear") /\ call' \in [Call -> CallType]
      BY <3>2, <3>3, <1>t, ProceedCall
    <3>5. HandleE(h) /\ OneCall(h) /\ call'[h].pc = "clear"
      BY <2>1, <2>2, <3>4 DEF HandleE, StopReturnsE, Proceeds
    <3> QED
      BY <2>1, <3>4, <3>5, <1>0, TouchSame DEF TypeOK, Allocating
  <2>3. CASE call[h].pc = "undo"
    <3>1. HandleE(h) /\ OneCall(h) /\ call' \in [Call -> CallType] /\ call'[h].pc = "idle"
      BY <1>5, <2>1, <2>3, <1>r DEF HandleE, StopReturns, StopReturnsE, Returns
    <3> QED
      BY <2>1, <3>1, <1>0, TouchSame DEF TypeOK, Allocating
  <2> QED
    BY <2>1, <2>2, <2>3
<1>6. CASE ClearLease(h)
  <2>1. /\ call[h].pc = "clear" /\ call' = [call EXCEPT ![h].pc = "reply"]
        /\ leases' = [leases EXCEPT ![call[h].client] = None]
        /\ UNCHANGED <<lease, srv, down, told, added>>
    BY <1>6 DEF ClearLease
  <2>2. [call[h] EXCEPT !.pc = "reply"] = [call[h] EXCEPT !.pc = "reply", !.addr = call[h].addr]
    BY <1>t DEF CallType
  <2>3. call' = [call EXCEPT ![h] = [call[h] EXCEPT !.pc = "reply", !.addr = call[h].addr]]
    BY <2>1, <2>2 DEF TypeOK
  <2>4. call[h].addr \in Addr \cup {None}
    BY <1>t DEF CallType
  <2>5. Proceeds(h, "reply") /\ call' \in [Call -> CallType]
    BY <2>3, <2>4, <1>t, ProceedCall
  <2>6. HandleE(h) /\ OneCall(h) /\ call'[h].pc = "reply"
    BY <2>1, <2>5 DEF HandleE, ClearLeaseE, Proceeds
  <2>7. leases' \in [Client -> Lease \cup {None}]
    BY <2>1 DEF TypeOK
  <2> QED
    BY <2>1, <2>5, <2>6, <2>7, <1>0, TouchSame DEF TypeOK, Allocating
<1>7. CASE ReleaseReply(h)
  <2>1. /\ UNCHANGED <<leases, lease, srv, down, told>> /\ Return(h)
        /\ added' \in {added, [added EXCEPT ![call[h].client] = FALSE]}
    BY <1>7 DEF ReleaseReply
  <2>2. added' \in [Client -> BOOLEAN]
    BY <2>1 DEF TypeOK
  <2>3. HandleE(h) /\ OneCall(h) /\ call' \in [Call -> CallType] /\ call'[h].pc = "idle"
    BY <1>7, <2>1, <1>r DEF HandleE, Returns
  <2> QED
    BY <2>1, <2>2, <2>3, <1>0, TouchSame DEF TypeOK, Allocating
<1> QED
  BY <1>1, <1>2, <1>3, <1>4, <1>5, <1>6, <1>7 DEF Handle

\* The start of a command, field by field.
AllocateE(h, c, l) ==
    /\ call[h].pc = "idle" /\ ~Busy(c) /\ Collectable(l)
    /\ OneLease(l)
    /\ lease'[l].client = c /\ lease'[l].state = "acquiring" /\ lease'[l].errCh = "empty"
    /\ OneCall(h)
    /\ call'[h].pc = "acquire" /\ call'[h].client = c /\ call'[h].lease = l /\ call'[h].live
    /\ added' = [added EXCEPT ![c] = TRUE]
    /\ UNCHANGED <<leases, srv, down, told>>

LEMMA AllocateFacts ==
  ASSUME TypeInv, NEW h \in Call, NEW c \in Client, NEW op \in {"add", "check"},
         Allocate(h, c, op)
  PROVE  /\ TypeInv'
         /\ \E l \in Lease : AllocateE(h, c, l) /\ call'[h].op = op
         /\ \/ op = "add" /\ ~added[c]
            \/ op = "check" /\ MayCheck /\ told[c] # None
<1> USE DEF TypeInv
<1> DEFINE r == [NoLease EXCEPT !.client = c, !.state = "acquiring"]
           k(l) == [pc |-> "acquire", op |-> op, client |-> c,
                    lease |-> l, addr |-> None, live |-> TRUE]
<1>1. PICK l \in Lease :
         /\ Collectable(l)
         /\ lease' = [lease EXCEPT ![l] = r]
         /\ call' = [call EXCEPT ![h] = k(l)]
  BY DEF Allocate
<1>2. /\ call[h].pc = "idle" /\ ~Busy(c) /\ added' = [added EXCEPT ![c] = TRUE]
      /\ UNCHANGED <<leases, srv, down, told>>
      /\ \/ op = "add" /\ ~added[c]
         \/ op = "check" /\ MayCheck /\ told[c] # None
  BY DEF Allocate
<1>3. r \in LeaseType /\ r.client = c /\ r.state = "acquiring" /\ r.errCh = "empty"
  BY NoneTyped DEF NoLease, LeaseType
<1>4. /\ k(l) \in CallType /\ k(l).pc = "acquire" /\ k(l).client = c
      /\ k(l).lease = l /\ k(l).live /\ k(l).op = op
  BY DEF CallType
<1> HIDE DEF r, k
<1>5. lease' \in [Lease -> LeaseType] /\ lease'[l] = r /\ OneLease(l)
  BY <1>1, <1>3 DEF TypeOK, OneLease
<1>6. call' \in [Call -> CallType] /\ call'[h] = k(l) /\ OneCall(h)
  BY <1>1, <1>4 DEF TypeOK, OneCall
<1>7. TypeOK'
  BY <1>2, <1>5, <1>6 DEF TypeOK
<1>8. \A g \in Call : call'[g].pc \in Allocating => call'[g].lease \in Lease
  BY <1>4, <1>6 DEF OneCall
<1>9. \A m \in Lease : Running(m)' => lease'[m].client \in Client
  BY <1>3, <1>5 DEF OneLease, Running
<1>10. AllocateE(h, c, l) /\ call'[h].op = op
  BY <1>1, <1>2, <1>3, <1>4, <1>5, <1>6 DEF AllocateE
<1> QED
  BY <1>2, <1>7, <1>8, <1>9, <1>10

ReleaseE(h, c) ==
    /\ call[h].pc = "idle" /\ ~Busy(c)
    /\ Touched
    /\ OneCall(h)
    /\ call'[h].pc = IF leases[c] = None THEN "reply" ELSE "stop"
    /\ call'[h].client = c /\ call'[h].lease = leases[c] /\ call'[h].live
    /\ told' = [told EXCEPT ![c] = None]
    /\ added' = [added EXCEPT ![c] = TRUE]
    /\ UNCHANGED <<leases, srv, down>>

LEMMA ReleaseFacts ==
  ASSUME TypeInv, NEW h \in Call, NEW c \in Client, Release(h, c)
  PROVE  TypeInv' /\ ReleaseE(h, c)
<1> USE DEF TypeInv
<1> DEFINE k == [pc |-> IF leases[c] = None THEN "reply" ELSE "stop", op |-> "del",
                 client |-> c, lease |-> leases[c], addr |-> None, live |-> TRUE]
<1>1. /\ call[h].pc = "idle" /\ ~Busy(c) /\ told' = [told EXCEPT ![c] = None]
      /\ call' = [call EXCEPT ![h] = k] /\ added' = [added EXCEPT ![c] = TRUE]
      /\ UNCHANGED <<leases, srv, down>>
  BY DEF Release
<1>2. /\ k \in CallType /\ k.pc = (IF leases[c] = None THEN "reply" ELSE "stop")
      /\ k.client = c /\ k.lease = leases[c] /\ k.live
  BY DEF CallType, TypeOK
<1> HIDE DEF k
<1>3. call' \in [Call -> CallType] /\ call'[h] = k /\ OneCall(h)
  BY <1>1, <1>2 DEF TypeOK, OneCall
<1>4. Touched /\ lease' \in [Lease -> LeaseType]
  <2>1. CASE leases[c] = None
    BY <2>1, TouchSame DEF Release, TypeOK
  <2>2. CASE leases[c] # None
    <3> DEFINE l == leases[c]
    <3>1. l \in Lease /\ lease[l] \in LeaseType
      BY <2>2 DEF TypeOK
    <3>2. [lease[l] EXCEPT !.stopping = TRUE]
          = [lease[l] EXCEPT !.errCh = lease[l].errCh, !.stopping = TRUE]
      BY <3>1 DEF LeaseType
    <3>3. lease' = [lease EXCEPT ![l] = [lease[l] EXCEPT !.errCh = lease[l].errCh, !.stopping = TRUE]]
      BY <2>2, <3>2 DEF Release, TypeOK
    <3> QED
      BY <3>1, <3>3, TouchLease
  <2> QED
    BY <2>1, <2>2
<1>5. ReleaseE(h, c)
  BY <1>1, <1>2, <1>3, <1>4 DEF ReleaseE
<1>6. told' \in [Client -> Addr \cup {None}] /\ added' \in [Client -> BOOLEAN]
  BY <1>1 DEF TypeOK
<1>7. call'[h].pc \notin Allocating
  BY <1>2, <1>3 DEF Allocating
<1>8. leases' \in [Client -> Lease \cup {None}] /\ UNCHANGED <<srv, down>>
  BY <1>1 DEF TypeOK
<1> QED
  BY <1>3, <1>4, <1>5, <1>6, <1>7, <1>8, HandlerTyped

LEMMA KillTyped ==
  ASSUME TypeInv, NEW h \in Call, Kill(h)
  PROVE  TypeInv'
<1> USE DEF TypeInv
<1> DEFINE k == [call[h] EXCEPT !.live = FALSE]
<1>1. call[h] \in CallType
  BY DEF TypeOK
<1>2. k \in CallType /\ k.pc = call[h].pc /\ k.lease = call[h].lease
  BY <1>1 DEF CallType
<1>3. call' = [call EXCEPT ![h] = k] /\ UNCHANGED <<leases, lease, srv, down, told, added>>
  BY DEF Kill, TypeOK
<1> HIDE DEF k
<1>4. call' \in [Call -> CallType] /\ call'[h] = k /\ OneCall(h)
  BY <1>2, <1>3 DEF TypeOK, OneCall
<1>5. call'[h].pc \in Allocating => call'[h].lease \in Lease
  BY <1>2, <1>4
<1> QED
  BY <1>3, <1>4, <1>5, HandlerTyped, TouchSame DEF TypeOK

LEMMA ExpireTyped ==
  ASSUME TypeInv, NEW a \in Addr, ServerExpire(a)
  PROVE  TypeInv'
<1>1. TypeOK'
  BY DEF ServerExpire, TypeInv, TypeOK
<1> QED
  BY <1>1 DEF ServerExpire, TypeInv, Running

LEMMA TypeStep == TypeInv /\ [Next]_vars => TypeInv'
<1> SUFFICES ASSUME TypeInv, [Next]_vars PROVE TypeInv'
  OBVIOUS
<1>1. ASSUME NEW h \in Call, NEW c \in Client, NEW op \in {"add", "check"}, Allocate(h, c, op)
      PROVE  TypeInv'
  BY <1>1, AllocateFacts
<1>2. ASSUME NEW h \in Call, NEW c \in Client, Release(h, c) PROVE TypeInv'
  BY <1>2, ReleaseFacts
<1>3. ASSUME NEW h \in Call, Handle(h) PROVE TypeInv'
  BY <1>3, HandleFacts
<1>4. ASSUME NEW h \in Call, Kill(h) PROVE TypeInv'
  BY <1>4, KillTyped
<1>5. ASSUME NEW l \in Lease, Maintain(l) \/ Tick(l) PROVE TypeInv'
  BY <1>5, GoFacts
<1>6. ASSUME NEW a \in Addr, ServerExpire(a) PROVE TypeInv'
  BY <1>6, ExpireTyped
<1>7. CASE UNCHANGED vars
  BY <1>7 DEF vars, TypeInv, TypeOK, Running
<1> QED
  BY <1>1, <1>2, <1>3, <1>4, <1>5, <1>6, <1>7 DEF Next

(***************************************************************************)
(* The daemon's state always has its type, with CHECKs, killed plugins and *)
(* bad ACKs: a handler that waits for a lease has one, and every goroutine *)
(* that runs belongs to a client.                                          *)
(***************************************************************************)
THEOREM TypeCorrect == Spec => []TypeOK
<1>1. TypeInv => TypeOK
  BY DEF TypeInv
<1> QED
  BY TypeInit, TypeStep, <1>1, PTL DEF Spec

-----------------------------------------------------------------------------
(* Ownership: with no CHECK and no plugin killed, there is one lease, and  *)
(* one call, for each client.                                              *)

LEMMA OwnInit == Init => OwnInv
  BY DHCPAssumption DEF Init, OwnInv, CallOK, Apart, ClientOK, LeaseOK, AcquiredBy,
     NoCall, NoLease, Running, Maintained, Allocating

\* The lease an Allocate is acquiring is for its client.
LEMMA AcquiringOwner ==
  ASSUME OwnInv, NEW h \in Call, call[h].pc \in Allocating,
         call[h].lease \in Lease, Running(call[h].lease)
  PROVE  lease[call[h].lease].client = call[h].client
<1> DEFINE l == call[h].lease
<1>1. CallOK(h) /\ LeaseOK(l) /\ Apart
  BY DEF OwnInv
<1>2. leases[call[h].client] = None /\ lease[l].client \in Client /\ l # None
  BY <1>1, DHCPAssumption DEF CallOK, LeaseOK
<1>3. leases[lease[l].client] # l
  BY <1>1, <1>2 DEF Apart
<1>4. PICK g \in Call : AcquiredBy(g, l)
  BY <1>1, <1>3 DEF LeaseOK
<1> QED
  BY <1>1, <1>2, <1>4 DEF AcquiredBy, Apart

\* No client has two goroutines.
LEMMA OneGoroutine ==
  ASSUME OwnInv, NEW l \in Lease, NEW m \in Lease, Running(l), Running(m),
         lease[l].client = lease[m].client
  PROVE  l = m
<1> DEFINE c == lease[l].client
<1>1. LeaseOK(l) /\ LeaseOK(m) /\ Apart /\ \A h \in Call : CallOK(h)
  BY DEF OwnInv
<1>2. c \in Client /\ l # None /\ m # None /\ c # None
  BY <1>1, DHCPAssumption DEF LeaseOK
<1>3. ASSUME NEW h \in Call, AcquiredBy(h, l) \/ AcquiredBy(h, m) PROVE leases[c] = None
  BY <1>1, <1>3 DEF AcquiredBy, CallOK
<1>4. CASE leases[c] = l \/ leases[c] = m
  BY <1>1, <1>2, <1>3, <1>4 DEF LeaseOK
<1>5. CASE leases[c] # l /\ leases[c] # m
  <2>1. PICK h \in Call : AcquiredBy(h, l)
    BY <1>1, <1>5 DEF LeaseOK
  <2>2. PICK g \in Call : AcquiredBy(g, m)
    BY <1>1, <1>5 DEF LeaseOK
  <2> QED
    BY <1>1, <1>2, <2>1, <2>2 DEF AcquiredBy, Apart
<1> QED
  BY <1>4, <1>5

LEMMA OwnGo ==
  ASSUME TypeInv, OwnInv, NEW l \in Lease, GoStep(l)
  PROVE  OwnInv'
<1>1. \A m \in Lease : Running(m)' => Running(m) /\ lease'[m].client = lease[m].client
  BY DEF GoStep, OneLease, Running
<1>2. \A h \in Call : CallOK(h)'
  <2> SUFFICES ASSUME NEW h \in Call PROVE CallOK(h)'
    OBVIOUS
  <2>1. CallOK(h)
    BY DEF OwnInv
  <2>2. UNCHANGED <<call, leases, told, added>>
    BY DEF GoStep
  <2>3. call[h].pc = "clear" => ~Running(call[h].lease)'
    BY <1>1, <2>1, <2>2 DEF CallOK, Running
  <2> QED
    BY <2>1, <2>2, <2>3 DEF CallOK
<1>3. Apart' /\ \A c \in Client : ClientOK(c)'
  BY DEF OwnInv, Apart, ClientOK, GoStep
<1>4. \A m \in Lease : LeaseOK(m)'
  <2> SUFFICES ASSUME NEW m \in Lease PROVE LeaseOK(m)'
    OBVIOUS
  <2>1. LeaseOK(m) /\ UNCHANGED <<call, leases>>
    BY DEF OwnInv, GoStep
  <2>2. CASE m # l
    <3>1. lease'[m] = lease[m]
      BY <2>2 DEF GoStep, OneLease
    <3> QED
      BY <2>1, <3>1 DEF LeaseOK, AcquiredBy, Running, Maintained
  <2>3. CASE m = l
    <3>1. Running(l)' => lease'[l].client = lease[l].client /\ Running(l)
      BY DEF GoStep
    <3>2. lease'[l].state # "acquiring" /\ (Maintained(l)' => lease'[l].addr \in Addr)
      BY <2>1, <2>3 DEF GoStep, LeaseOK
    <3>3. lease'[l].errCh = "error" => ~Running(l)'
      BY <2>1, <2>3 DEF GoStep, LeaseOK
    <3> QED
      BY <2>1, <2>3, <3>1, <3>2, <3>3 DEF LeaseOK, AcquiredBy
  <2> QED
    BY <2>2, <2>3
<1> QED
  BY <1>2, <1>3, <1>4 DEF OwnInv

LEMMA OwnAllocate ==
  ASSUME TypeInv, OwnInv, NEW h \in Call, NEW c \in Client, NEW l \in Lease,
         AllocateE(h, c, l), ~added[c], call'[h].op = "add"
  PROVE  OwnInv'
<1>0. c # None /\ l # None /\ added \in [Client -> BOOLEAN]
  BY DHCPAssumption DEF TypeInv, TypeOK
<1>1. leases[c] = None /\ told[c] = None
  BY DEF OwnInv, ClientOK
<1>2. \A g \in Call : call[g].client # c /\ call[g].lease # l
  <2>1. \A g \in Call : call[g].client = c => call[g].live
    BY <1>0 DEF OwnInv, CallOK, NoCall
  <2> QED
    BY <2>1 DEF AllocateE, Busy, Collectable
<1>3. \A d \in Client : leases[d] # l
  BY DEF AllocateE, Collectable
<1>4. ~Running(l)
  BY DEF AllocateE, Collectable
<1>5. \A d \in Client : added[d] => added'[d]
  BY <1>0 DEF AllocateE
<1>6. added'[c]
  BY <1>0 DEF AllocateE
<1>7. \A g \in Call : CallOK(g)'
  <2> SUFFICES ASSUME NEW g \in Call PROVE CallOK(g)'
    OBVIOUS
  <2>1. CASE g = h
    BY <1>1, <1>6, <2>1 DEF AllocateE, CallOK, Allocating
  <2>2. CASE g # h
    <3>1. CallOK(g) /\ call'[g] = call[g] /\ UNCHANGED <<leases, told>>
      BY <2>2 DEF OwnInv, AllocateE, OneCall
    <3>2. call[g].pc = "clear" => ~Running(call[g].lease)'
      BY <1>2, <3>1 DEF CallOK, AllocateE, OneLease, Running
    <3> QED
      BY <1>5, <3>1, <3>2 DEF CallOK
  <2> QED
    BY <2>1, <2>2
<1>8. Apart'
  BY <1>0, <1>1, <1>2, <1>3 DEF OwnInv, Apart, AllocateE, OneCall
<1>9. \A d \in Client : ClientOK(d)'
  BY <1>5 DEF OwnInv, ClientOK, AllocateE
<1>10. \A m \in Lease : LeaseOK(m)'
  <2> SUFFICES ASSUME NEW m \in Lease PROVE LeaseOK(m)'
    OBVIOUS
  <2>1. CASE m = l
    <3>1. AcquiredBy(h, l)' /\ call'[h].pc = "acquire"
      BY DEF AllocateE, AcquiredBy, Allocating
    <3> QED
      BY <2>1, <3>1 DEF AllocateE, LeaseOK, Running, Maintained
  <2>2. CASE m # l
    <3>1. LeaseOK(m) /\ lease'[m] = lease[m] /\ leases' = leases
      BY <2>2 DEF OwnInv, AllocateE, OneLease
    <3>2. \A g \in Call : AcquiredBy(g, m) => AcquiredBy(g, m)' /\ call'[g].pc = call[g].pc
      BY <3>1 DEF AcquiredBy, AllocateE, OneCall, Allocating
    <3> QED
      BY <3>1, <3>2 DEF LeaseOK, Running, Maintained
  <2> QED
    BY <2>1, <2>2
<1> QED
  BY <1>7, <1>8, <1>9, <1>10 DEF OwnInv

LEMMA OwnRelease ==
  ASSUME TypeInv, OwnInv, NEW h \in Call, NEW c \in Client, ReleaseE(h, c)
  PROVE  OwnInv'
<1>0. /\ c # None /\ None \notin Lease /\ added \in [Client -> BOOLEAN]
      /\ leases \in [Client -> Lease \cup {None}] /\ told \in [Client -> Addr \cup {None}]
  BY DHCPAssumption DEF TypeInv, TypeOK
<1>2. \A g \in Call : call[g].client # c
  <2>1. \A g \in Call : call[g].client = c => call[g].live
    BY <1>0 DEF OwnInv, CallOK, NoCall
  <2> QED
    BY <2>1 DEF ReleaseE, Busy
<1>3. \A m \in Lease : Running(m)' <=> Running(m)
  BY DEF ReleaseE, Touched, Running
<1>5. added'[c] /\ told'[c] = None /\ \A d \in Client \ {c} : added'[d] = added[d] /\ told'[d] = told[d]
  BY <1>0 DEF ReleaseE
<1>6. leases[c] # None => \A g \in Call : call[g].lease # leases[c]
  BY <1>2 DEF OwnInv, Apart
<1>7. \A g \in Call : CallOK(g)'
  <2> SUFFICES ASSUME NEW g \in Call PROVE CallOK(g)'
    OBVIOUS
  <2>1. CASE g = h
    BY <1>0, <1>5, <2>1 DEF ReleaseE, CallOK, Allocating
  <2>2. CASE g # h
    <3>1. CallOK(g) /\ call'[g] = call[g] /\ UNCHANGED leases
      BY <2>2 DEF OwnInv, ReleaseE, OneCall
    <3>2. call[g].pc = "clear" => ~Running(call[g].lease)'
      BY <1>3, <3>1 DEF CallOK
    <3>3. call[g].client # c
      BY <1>2
    <3> QED
      BY <1>5, <3>1, <3>2, <3>3 DEF CallOK
  <2> QED
    BY <2>1, <2>2
<1>8. Apart'
  BY <1>0, <1>2, <1>6 DEF OwnInv, Apart, ReleaseE, OneCall
<1>9. \A d \in Client : ClientOK(d)'
  BY <1>5 DEF OwnInv, ClientOK, ReleaseE
<1>10. \A m \in Lease : LeaseOK(m)'
  <2> SUFFICES ASSUME NEW m \in Lease PROVE LeaseOK(m)'
    OBVIOUS
  <2>1. LeaseOK(m) /\ leases' = leases
    BY DEF OwnInv, ReleaseE
  <2>2. /\ lease'[m].state = lease[m].state /\ lease'[m].client = lease[m].client
        /\ lease'[m].addr = lease[m].addr /\ lease'[m].errCh \in {lease[m].errCh, "empty"}
    BY DEF ReleaseE, Touched
  <2>3. \A g \in Call : AcquiredBy(g, m) => AcquiredBy(g, m)' /\ call'[g].pc = call[g].pc
    BY <2>2 DEF AcquiredBy, ReleaseE, OneCall, Allocating
  <2> QED
    BY <2>1, <2>2, <2>3 DEF LeaseOK, Running, Maintained
<1> QED
  BY <1>7, <1>8, <1>9, <1>10 DEF OwnInv

\* A handler that goes on or returns, while the map, or what the runtime knows
\* of its client, may change with it.
LEMMA OwnCallFrame ==
  ASSUME OwnInv, Touched, NEW h \in Call, NEW g \in Call, g # h, OneCall(h),
         \A c \in Client : c # call[h].client =>
            leases'[c] = leases[c] /\ told'[c] = told[c] /\ added'[c] = added[c],
         call[h].client # None
  PROVE  CallOK(g)'
<1>1. CallOK(g) /\ call'[g] = call[g]
  BY DEF OwnInv, OneCall
<1>2. call[g].pc # "idle" => call[g].client \in Client /\ call[g].client # call[h].client
  BY <1>1 DEF OwnInv, Apart, CallOK
<1>3. \A m \in Lease : Running(m)' <=> Running(m)
  BY DEF Touched, Running
<1>4. call[g].pc = "clear" => ~Running(call[g].lease)'
  BY <1>1, <1>3 DEF CallOK, Running
<1> QED
  BY <1>1, <1>2, <1>4 DEF CallOK, Allocating

LEMMA OwnLeaseFrame ==
  ASSUME OwnInv, Touched, NEW h \in Call, OneCall(h), NEW m \in Lease,
         \A c \in Client : leases[c] = m => leases'[c] = m \/ ~Running(m),
         AcquiredBy(h, m) =>
            \/ ~Running(m)
            \/ leases'[call[h].client] = m
            \/ AcquiredBy(h, m)',
         call[h].pc = "acquire" => lease[call[h].lease].errCh # "empty"
  PROVE  LeaseOK(m)'
<1>1. LeaseOK(m)
  BY DEF OwnInv
<1>2. /\ lease'[m].state = lease[m].state /\ lease'[m].client = lease[m].client
      /\ lease'[m].addr = lease[m].addr /\ lease'[m].errCh \in {lease[m].errCh, "empty"}
  BY DEF Touched
<1>3. \A g \in Call \ {h} : AcquiredBy(g, m) => AcquiredBy(g, m)' /\ call'[g].pc = call[g].pc
  BY <1>2 DEF AcquiredBy, OneCall
<1>4. lease[m].state = "acquiring" => ~(AcquiredBy(h, m) /\ call[h].pc = "acquire")
  BY <1>1 DEF LeaseOK, AcquiredBy
<1>5. lease[m].state = "acquiring" =>
         \E g \in Call : AcquiredBy(g, m)' /\ call'[g].pc = "acquire"
  BY <1>1, <1>3, <1>4 DEF LeaseOK
<1>6. Running(m) => /\ lease[m].client \in Client
                    /\ leases'[lease[m].client] = m \/ \E g \in Call : AcquiredBy(g, m)'
  <2> SUFFICES ASSUME Running(m)
               PROVE  /\ lease[m].client \in Client
                      /\ leases'[lease[m].client] = m \/ \E g \in Call : AcquiredBy(g, m)'
    OBVIOUS
  <2>1. lease[m].client \in Client
    BY <1>1 DEF LeaseOK
  <2>2. CASE leases[lease[m].client] = m
    BY <2>1, <2>2
  <2>3. ASSUME NEW g \in Call, AcquiredBy(g, m)
        PROVE  leases'[lease[m].client] = m \/ \E k \in Call : AcquiredBy(k, m)'
    <3>1. CASE g = h
      BY <2>3, <3>1 DEF AcquiredBy
    <3>2. CASE g # h
      BY <1>3, <2>3, <3>2
    <3> QED
      BY <3>1, <3>2
  <2> QED
    BY <1>1, <2>1, <2>2, <2>3 DEF LeaseOK
<1> QED
  BY <1>1, <1>2, <1>5, <1>6 DEF LeaseOK, Running, Maintained

LEMMA OwnHandle ==
  ASSUME TypeInv, OwnInv, NEW h \in Call, Touched, OneCall(h), HandleE(h)
  PROVE  OwnInv'
<1> DEFINE c == call[h].client
           l == call[h].lease
<1>t. /\ leases \in [Client -> Lease \cup {None}] /\ told \in [Client -> Addr \cup {None}]
      /\ added \in [Client -> BOOLEAN] /\ None \notin Lease /\ None \notin Client
  BY DHCPAssumption DEF TypeInv, TypeOK
<1>0. CallOK(h) /\ Apart /\ (\A g \in Call : CallOK(g)) /\ \A d \in Client : ClientOK(d)
  BY DEF OwnInv
<1>n. NoCall.pc = "idle" /\ NoCall.client = None /\ NoCall.lease = None
  BY DEF NoCall
<1>p. call[h].pc # "idle"
  BY DEF HandleE, AllocateFailsE, AllocateNoMaskE, AllocateReadE, StopReturnsE,
     ClearLeaseE, AllocateSet, ReleaseReply
<1>c. c \in Client /\ c # None /\ added[c] /\ told[c] = None /\ call[h].live
  BY <1>0, <1>p, <1>t DEF CallOK
<1>r. \A m \in Lease : Running(m)' <=> Running(m)
  BY DEF Touched, Running
<1>1. CASE AllocateFailsE(h)
  <2>1. /\ call[h].pc = "acquire" /\ lease[l].errCh = "error" /\ call'[h] = NoCall
        /\ UNCHANGED <<leases, told, added>> /\ l \in Lease
    BY <1>0, <1>1 DEF AllocateFailsE, Returns, CallOK, Allocating
  <2>2. ~Running(l)
    BY <2>1 DEF OwnInv, LeaseOK
  <2>3. CallOK(h)'
    BY <2>1, <1>n DEF CallOK, Allocating
  <2>4. \A g \in Call : CallOK(g)'
    BY <1>c, <2>1, <2>3, OwnCallFrame
  <2>5. Apart' /\ \A d \in Client : ClientOK(d)'
    BY <1>0, <1>n, <1>t, <2>1 DEF Apart, ClientOK, OneCall
  <2>6. \A m \in Lease : LeaseOK(m)'
    BY <2>1, <2>2, OwnLeaseFrame DEF AcquiredBy
  <2> QED
    BY <2>4, <2>5, <2>6 DEF OwnInv
<1>2. CASE AllocateNoMaskE(h) \/ AllocateReadE(h)
  <2>1. /\ call[h].pc = "acquire" /\ lease[l].errCh = "nil"
        /\ call'[h].pc \in {"undo", "set"}
        /\ call'[h].client = c /\ call'[h].lease = l /\ call'[h].live = call[h].live
        /\ call'[h].op = call[h].op
        /\ UNCHANGED <<leases, told, added>> /\ l \in Lease
    BY <1>0, <1>2 DEF AllocateNoMaskE, AllocateReadE, Proceeds, CallOK, Allocating
  <2>3. CallOK(h)'
    BY <1>0, <2>1 DEF CallOK, Allocating
  <2>4. \A g \in Call : CallOK(g)'
    BY <1>c, <2>1, <2>3, OwnCallFrame
  <2>5. Apart' /\ \A d \in Client : ClientOK(d)'
    BY <1>0, <2>1 DEF Apart, ClientOK, OneCall
  <2>6. \A m \in Lease : LeaseOK(m)'
    <3> SUFFICES ASSUME NEW m \in Lease PROVE LeaseOK(m)'
      OBVIOUS
    <3>1. AcquiredBy(h, m) => AcquiredBy(h, m)'
      BY <2>1 DEF AcquiredBy, Touched, Allocating
    <3> QED
      BY <2>1, <3>1, OwnLeaseFrame
  <2> QED
    BY <2>4, <2>5, <2>6 DEF OwnInv
<1>3. CASE AllocateSet(h) /\ Returns(h)
  <2>1. /\ call[h].pc = "set" /\ call'[h] = NoCall /\ added' = added
        /\ leases' = [leases EXCEPT ![c] = l]
        /\ told' \in {told, [told EXCEPT ![c] = call[h].addr]}
    BY <1>3 DEF AllocateSet, Returns
  <2>2. l \in Lease /\ leases[c] = None /\ l # None
    BY <1>0, <1>t, <2>1 DEF CallOK, Allocating
  <2>3. leases'[c] = l /\ \A d \in Client \ {c} : leases'[d] = leases[d] /\ told'[d] = told[d]
    BY <1>c, <1>t, <2>1
  <2>4. CallOK(h)'
    BY <2>1, <1>n DEF CallOK, Allocating
  <2>5. \A g \in Call : CallOK(g)'
    BY <1>c, <2>1, <2>3, <2>4, OwnCallFrame
  <2>6. \A d \in Client : leases[d] # l
    BY <1>0, <2>2 DEF Apart
  <2>7. Apart'
    BY <1>0, <1>c, <1>n, <1>t, <2>1, <2>2, <2>3, <2>6 DEF Apart, OneCall
  <2>8. \A d \in Client : ClientOK(d)'
    BY <1>0, <1>c, <2>1, <2>2, <2>3 DEF ClientOK
  <2>9. \A m \in Lease : LeaseOK(m)'
    <3> SUFFICES ASSUME NEW m \in Lease PROVE LeaseOK(m)'
      OBVIOUS
    <3>1. \A d \in Client : leases[d] = m => leases'[d] = m
      BY <2>2, <2>3, <1>t
    <3>2. AcquiredBy(h, m) => leases'[c] = m
      BY <2>3 DEF AcquiredBy
    <3> QED
      BY <2>1, <3>1, <3>2, OwnLeaseFrame
  <2> QED
    BY <2>5, <2>7, <2>8, <2>9 DEF OwnInv
<1>4. CASE StopReturnsE(h)
  <2>1. ~Running(l) /\ UNCHANGED <<leases, told, added>>
    BY <1>4 DEF StopReturnsE
  <2>2. CASE call[h].pc = "stop" /\ Proceeds(h, "clear")
    <3>1. /\ call'[h].pc = "clear" /\ call'[h].client = c /\ call'[h].lease = l
          /\ call'[h].live = call[h].live
      BY <2>2 DEF Proceeds
    <3>2. l \in Lease /\ l = leases[c]
      BY <1>0, <2>2 DEF CallOK
    <3>3. ~Running(call[h].lease)'
      BY <1>r, <2>1, <3>1, <3>2 DEF Running
    <3>4. CallOK(h)'
      BY <1>0, <1>c, <2>1, <3>1, <3>2, <3>3 DEF CallOK, Allocating
    <3>5. \A g \in Call : CallOK(g)'
      BY <1>c, <2>1, <3>4, OwnCallFrame
    <3>6. Apart' /\ \A d \in Client : ClientOK(d)'
      BY <1>0, <2>1, <3>1 DEF Apart, ClientOK, OneCall
    <3>7. \A m \in Lease : LeaseOK(m)'
      BY <2>1, <2>2, OwnLeaseFrame DEF AcquiredBy
    <3> QED
      BY <3>5, <3>6, <3>7 DEF OwnInv
  <2>3. CASE call[h].pc = "undo" /\ Returns(h)
    <3>1. call'[h] = NoCall
      BY <2>3 DEF Returns
    <3>4. CallOK(h)'
      BY <3>1, <1>n DEF CallOK, Allocating
    <3>5. \A g \in Call : CallOK(g)'
      BY <1>c, <2>1, <3>4, OwnCallFrame
    <3>6. Apart' /\ \A d \in Client : ClientOK(d)'
      BY <1>0, <1>n, <1>t, <2>1, <3>1 DEF Apart, ClientOK, OneCall
    <3>7. \A m \in Lease : LeaseOK(m)'
      BY <2>1, <2>3, OwnLeaseFrame DEF AcquiredBy
    <3> QED
      BY <3>5, <3>6, <3>7 DEF OwnInv
  <2> QED
    BY <1>4, <2>2, <2>3 DEF StopReturnsE
<1>5. CASE ClearLeaseE(h)
  <2>1. /\ call[h].pc = "clear" /\ call'[h].pc = "reply" /\ call'[h].client = c
        /\ call'[h].lease = l /\ call'[h].live = call[h].live
        /\ leases' = [leases EXCEPT ![c] = None] /\ UNCHANGED <<told, added>>
    BY <1>5 DEF ClearLeaseE, Proceeds
  <2>2. leases'[c] = None /\ \A d \in Client \ {c} : leases'[d] = leases[d]
    BY <1>c, <1>t, <2>1
  <2>3. l \in Lease /\ ~Running(l) /\ leases[c] = l
    BY <1>0, <2>1 DEF CallOK
  <2>4. CallOK(h)'
    BY <1>c, <2>1, <2>2 DEF CallOK, Allocating
  <2>5. \A g \in Call : CallOK(g)'
    BY <1>c, <2>1, <2>2, <2>4, OwnCallFrame
  <2>6. Apart'
    BY <1>0, <1>t, <2>1, <2>2, <2>3 DEF Apart, OneCall
  <2>7. \A d \in Client : ClientOK(d)'
    BY <1>0, <1>c, <2>1, <2>2 DEF ClientOK
  <2>8. \A m \in Lease : LeaseOK(m)'
    <3> SUFFICES ASSUME NEW m \in Lease PROVE LeaseOK(m)'
      OBVIOUS
    <3>1. \A d \in Client : leases[d] = m => leases'[d] = m \/ ~Running(m)
      BY <2>2, <2>3
    <3>2. ~AcquiredBy(h, m)
      BY <2>1 DEF AcquiredBy, Allocating
    <3> QED
      BY <2>1, <3>1, <3>2, OwnLeaseFrame
  <2> QED
    BY <2>5, <2>6, <2>7, <2>8 DEF OwnInv
<1>6. CASE ReleaseReply(h) /\ Returns(h)
  <2>1. /\ call[h].pc = "reply" /\ call'[h] = NoCall /\ UNCHANGED <<leases, told>>
        /\ added' \in {added, [added EXCEPT ![c] = FALSE]}
    BY <1>6 DEF ReleaseReply, Returns
  <2>2. leases[c] = None
    BY <1>0, <2>1 DEF CallOK
  <2>3. \A d \in Client \ {c} : added'[d] = added[d]
    BY <1>c, <1>t, <2>1
  <2>4. CallOK(h)'
    BY <2>1, <1>n DEF CallOK, Allocating
  <2>5. \A g \in Call : CallOK(g)'
    BY <1>c, <2>1, <2>3, <2>4, OwnCallFrame
  <2>6. Apart'
    BY <1>0, <1>n, <1>t, <2>1 DEF Apart, OneCall
  <2>7. \A d \in Client : ClientOK(d)'
    BY <1>0, <2>1, <2>2, <2>3 DEF ClientOK
  <2>8. \A m \in Lease : LeaseOK(m)'
    <3> SUFFICES ASSUME NEW m \in Lease PROVE LeaseOK(m)'
      OBVIOUS
    <3>1. ~AcquiredBy(h, m)
      BY <2>1 DEF AcquiredBy, Allocating
    <3> QED
      BY <2>1, <3>1, OwnLeaseFrame
  <2> QED
    BY <2>5, <2>6, <2>7, <2>8 DEF OwnInv
<1> QED
  BY <1>1, <1>2, <1>3, <1>4, <1>5, <1>6 DEF HandleE

LEMMA OwnStep ==
  ASSUME ~MayCheck, ~MayKill, TypeInv, OwnInv, [Next]_vars
  PROVE  OwnInv'
<1>1. ASSUME NEW h \in Call, NEW c \in Client, NEW op \in {"add", "check"}, Allocate(h, c, op)
      PROVE  OwnInv'
  BY <1>1, AllocateFacts, OwnAllocate
<1>2. ASSUME NEW h \in Call, NEW c \in Client, Release(h, c) PROVE OwnInv'
  BY <1>2, ReleaseFacts, OwnRelease
<1>3. ASSUME NEW h \in Call, Handle(h) PROVE OwnInv'
  BY <1>3, HandleFacts, OwnHandle
<1>4. ASSUME NEW h \in Call, Kill(h) PROVE OwnInv'
  BY <1>4 DEF Kill
<1>5. ASSUME NEW l \in Lease, Maintain(l) \/ Tick(l) PROVE OwnInv'
  BY <1>5, GoFacts, OwnGo DEF Go
<1>6. CASE UNCHANGED <<leases, lease, call, told, added>>
  BY <1>6 DEF OwnInv, CallOK, Apart, ClientOK, LeaseOK, AcquiredBy, Running, Maintained
<1>7. ASSUME NEW a \in Addr, ServerExpire(a) PROVE OwnInv'
  BY <1>6, <1>7 DEF ServerExpire
<1>8. CASE UNCHANGED vars
  BY <1>6, <1>8 DEF vars
<1> QED
  BY <1>1, <1>2, <1>3, <1>4, <1>5, <1>7, <1>8 DEF Next

(***************************************************************************)
(* A DEL that succeeded has stopped every goroutine of the client, for any *)
(* number of concurrent calls, expiries and bad ACKs.  It needs commands   *)
(* that are neither CHECK, which starts a second lease, nor killed.        *)
(***************************************************************************)
THEOREM DelStopsMaintenance == ~MayCheck /\ ~MayKill => (Spec => []DelStops)
<1> SUFFICES ASSUME ~MayCheck, ~MayKill PROVE Spec => []DelStops
  OBVIOUS
<1>1. TypeInv /\ OwnInv /\ [Next]_vars => (TypeInv /\ OwnInv)'
  BY TypeStep, OwnStep
<1>2. OwnInv => DelStops
  <2> SUFFICES ASSUME OwnInv, NEW c \in Client, ~added[c], \A h \in Call : call[h].client # c,
                      NEW l \in Lease, lease[l].client = c, Running(l)
               PROVE  FALSE
    BY DEF DelStops
  <2>1. LeaseOK(l) /\ ClientOK(c)
    BY DEF OwnInv
  <2>2. leases[c] = l
    BY <2>1 DEF LeaseOK, AcquiredBy
  <2> QED
    BY <2>1, <2>2, DHCPAssumption DEF ClientOK
<1> QED
  BY TypeInit, OwnInit, <1>1, <1>2, PTL DEF Spec

-----------------------------------------------------------------------------
(* Leases and the server's bindings.                                       *)

\* What the server offers a client is its own binding, or is free and then the
\* client has none.
LEMMA OfferFacts ==
  ASSUME NEW c, NEW a \in Offers(c)
  PROVE  /\ a \in Addr
         /\ srv[a] = c \/ (srv[a] = None /\ \A b \in Addr : srv[b] # c)
  BY DEF Offers

\* A goroutine does not touch the bindings of other clients.
LEMMA OtherBindings ==
  ASSUME TypeInv, OwnInv, NEW l \in Lease, GoStep(l), GoServer(l),
         NEW a \in Addr, srv[a] # None, srv[a] # lease[l].client
  PROVE  srv'[a] = srv[a]
<1>1. srv \in [Addr -> Client \cup {None}]
  BY DEF TypeInv, TypeOK
<1> QED
  BY <1>1, OfferFacts DEF GoServer, Bind

LEMMA BackedGo ==
  ASSUME TypeInv, OwnInv, OwnInv', LeaseBacked, OneBinding, NEW l \in Lease,
         GoStep(l), GoServer(l)
  PROVE  LeaseBacked' /\ OneBinding'
<1> DEFINE c == lease[l].client
<1>t. srv \in [Addr -> Client \cup {None}] /\ None \notin Client
  BY DHCPAssumption DEF TypeInv, TypeOK
<1>c. Running(l) /\ c \in Client
  BY DEF GoStep, OwnInv, LeaseOK
<1>1. OneBinding'
  <2>1. CASE srv' = srv
    BY <2>1 DEF OneBinding
  <2>2. ASSUME NEW a \in Offers(c), Bind(c, a) PROVE OneBinding'
    BY <1>t, <2>2, OfferFacts DEF OneBinding, Bind
  <2>3. CASE srv' = [srv EXCEPT ![lease[l].addr] = None]
    BY <1>t, <2>3 DEF OneBinding
  <2> QED
    BY <2>1, <2>2, <2>3 DEF GoServer
<1>2. ASSUME NEW m \in Lease, Maintained(m)', lease'[m].age # Expired
      PROVE  srv'[lease'[m].addr] = lease'[m].client
  <2>1. CASE m # l
    <3>1. lease'[m] = lease[m] /\ Maintained(m) /\ Running(m) /\ lease[m].age # Expired
      BY <1>2, <2>1 DEF GoStep, OneLease, Maintained, Running
    <3>2. srv[lease[m].addr] = lease[m].client
      BY <3>1 DEF LeaseBacked
    <3>3. lease[m].client \in Client /\ lease[m].client # c /\ lease[m].addr \in Addr
      BY <1>c, <2>1, <3>1, OneGoroutine DEF OwnInv, LeaseOK
    <3> QED
      BY <1>t, <3>1, <3>2, <3>3, OtherBindings
  <2>2. CASE m = l
    <3>1. lease'[l].client = c
      BY <1>2, <2>2 DEF GoStep, Maintained, Running
    <3>2. CASE srv'[lease'[l].addr] = c
      BY <2>2, <3>1, <3>2
    <3>3. CASE /\ Maintained(l) /\ lease[l].age # Expired
               /\ lease'[l].addr = lease[l].addr
               /\ srv' = srv \/ \E a \in Offers(c) : Bind(c, a)
      <4>1. srv[lease[l].addr] = c /\ lease[l].addr \in Addr
        BY <3>3 DEF LeaseBacked, OwnInv, LeaseOK
      <4>2. ASSUME NEW a \in Offers(c), Bind(c, a) PROVE srv'[lease[l].addr] = c
        BY <1>t, <4>1, <4>2 DEF Bind
      <4> QED
        BY <2>2, <3>1, <3>3, <4>1, <4>2
    <3> QED
      BY <1>2, <2>2, <3>2, <3>3 DEF GoServer
  <2> QED
    BY <2>1, <2>2
<1> QED
  BY <1>1, <1>2 DEF LeaseBacked

LEMMA BackedInit == Init => LeaseBacked /\ OneBinding
  BY DEF Init, LeaseBacked, OneBinding, NoLease, Maintained

LEMMA BackedStep ==
  ASSUME TypeInv, OwnInv, OwnInv', LeaseBacked, OneBinding, [Next]_vars
  PROVE  LeaseBacked' /\ OneBinding'
<1>0. ASSUME Touched, srv' = srv PROVE LeaseBacked' /\ OneBinding'
  BY <1>0 DEF Touched, LeaseBacked, OneBinding, Maintained
<1>1. ASSUME NEW h \in Call, NEW c \in Client, NEW op \in {"add", "check"}, Allocate(h, c, op)
      PROVE  LeaseBacked' /\ OneBinding'
  <2>1. PICK l \in Lease : AllocateE(h, c, l)
    BY <1>1, AllocateFacts
  <2> QED
    BY <2>1 DEF AllocateE, OneLease, LeaseBacked, OneBinding, Maintained
<1>2. ASSUME NEW h \in Call, NEW c \in Client, Release(h, c) PROVE LeaseBacked' /\ OneBinding'
  BY <1>0, <1>2, ReleaseFacts DEF ReleaseE
<1>3. ASSUME NEW h \in Call, Handle(h) PROVE LeaseBacked' /\ OneBinding'
  BY <1>0, <1>3, HandleFacts
<1>4. ASSUME NEW h \in Call, Kill(h) PROVE LeaseBacked' /\ OneBinding'
  BY <1>0, <1>4, TouchSame DEF Kill
<1>5. ASSUME NEW l \in Lease, Maintain(l) \/ Tick(l) PROVE LeaseBacked' /\ OneBinding'
  BY <1>5, GoFacts, BackedGo DEF Go
<1>6. ASSUME NEW a \in Addr, ServerExpire(a) PROVE LeaseBacked' /\ OneBinding'
  <2>1. /\ srv' = [srv EXCEPT ![a] = None] /\ lease' = lease
        /\ \A l \in Lease :
              Maintained(l) /\ lease[l].client = srv[a] /\ lease[l].addr = a
                 => lease[l].age = Expired
    BY <1>6 DEF ServerExpire
  <2>2. srv \in [Addr -> Client \cup {None}]
    BY DEF TypeInv, TypeOK
  <2>3. OneBinding'
    BY <2>1, <2>2 DEF OneBinding
  <2>4. LeaseBacked'
    BY <2>1, <2>2 DEF LeaseBacked, Maintained
  <2> QED
    BY <2>3, <2>4
<1>7. CASE UNCHANGED vars
  BY <1>0, <1>7, TouchSame DEF vars
<1> QED
  BY <1>1, <1>2, <1>3, <1>4, <1>5, <1>6, <1>7 DEF Next

(***************************************************************************)
(* A lease that is maintained and has not expired is the server's binding  *)
(* of its address to its client, whatever is renewed, rebound, released or *)
(* lost meanwhile.  It rests on there being one lease per client.          *)
(***************************************************************************)
THEOREM LeasesAreBacked == ~MayCheck /\ ~MayKill => (Spec => []LeaseBacked)
<1> SUFFICES ASSUME ~MayCheck, ~MayKill PROVE Spec => []LeaseBacked
  OBVIOUS
<1>1. TypeInv /\ OwnInv /\ LeaseBacked /\ OneBinding /\ [Next]_vars
         => (TypeInv /\ OwnInv /\ LeaseBacked /\ OneBinding)'
  BY TypeStep, OwnStep, BackedStep
<1> QED
  BY TypeInit, OwnInit, BackedInit, <1>1, PTL DEF Spec

-----------------------------------------------------------------------------
(* Interfaces.                                                             *)

LEMMA DownGo ==
  ASSUME TypeInv, OwnInv, DownInv, NEW l \in Lease, GoStep(l), GoDown(l)
  PROVE  DownInv'
<1> DEFINE c == lease[l].client
<1>1. /\ Running(l) /\ OneLease(l) /\ UNCHANGED <<call, leases, told, added>> /\ LeaseOK(l)
      /\ c \in Client /\ Apart /\ (\A h \in Call : CallOK(h)) /\ None \notin Lease
  BY DHCPAssumption DEF GoStep, OwnInv, LeaseOK
<1>2. ~EndedExpired(l)
  BY <1>1 DEF EndedExpired, Running
<1> SUFFICES ASSUME NEW d \in Client, d \in down' PROVE DownOK(d)'
  BY DEF DownInv, DownOK
<1>4. d \in down \/ (d = c /\ EndedExpired(l)')
  BY DEF GoDown
<1>5. told'[d] # None => EndedExpired(leases[d])'
  <2> SUFFICES ASSUME told[d] # None PROVE EndedExpired(leases[d])'
    BY <1>1
  <2>1. leases[d] \in Lease
    BY <1>1 DEF OwnInv, ClientOK, TypeInv, TypeOK
  <2>2. CASE d \in down
    <3>1. EndedExpired(leases[d])
      BY <2>2 DEF DownInv, DownOK
    <3>2. leases[d] # l
      BY <1>2, <3>1
    <3> QED
      BY <1>1, <2>1, <3>1, <3>2 DEF EndedExpired, OneLease
  <2>3. CASE d = c /\ EndedExpired(l)'
    <3>1. \A h \in Call : ~AcquiredBy(h, l)
      BY <1>1, <2>3 DEF AcquiredBy, CallOK, Allocating
    <3>2. leases[d] = l
      BY <1>1, <2>3, <3>1 DEF LeaseOK
    <3> QED
      BY <1>1, <2>3, <3>2 DEF EndedExpired
  <2> QED
    BY <1>4, <2>2, <2>3
<1>6. ASSUME NEW h \in Call, call[h].client = d, Acquired(h)'
      PROVE  EndedExpired(call[h].lease)'
  <2>1. call[h].pc \in Allocating /\ call[h].lease \in Lease /\ leases[d] = None
    BY <1>1, <1>6 DEF Acquired, CallOK, Allocating
  <2>2. CASE call[h].lease # l
    <3>1. lease'[call[h].lease] = lease[call[h].lease]
      BY <1>1, <2>1, <2>2 DEF OneLease
    <3>2. Acquired(h)
      BY <1>1, <1>6, <3>1 DEF Acquired
    <3>3. d # c \/ d \in down
      <4> SUFFICES ASSUME d = c PROVE FALSE
        OBVIOUS
      <4>1. PICK g \in Call : AcquiredBy(g, l)
        BY <1>1, <2>1 DEF LeaseOK
      <4> QED
        BY <1>1, <1>6, <2>2, <4>1, DHCPAssumption DEF AcquiredBy, Apart
    <3>4. EndedExpired(call[h].lease)
      BY <1>4, <1>6, <3>2, <3>3 DEF DownInv, DownOK
    <3> QED
      BY <1>1, <3>1, <3>4 DEF EndedExpired
  <2>3. CASE call[h].lease = l
    <3>1. d = c
      BY <1>1, <1>6, <2>1, <2>3, AcquiringOwner
    <3>2. CASE EndedExpired(l)'
      BY <1>1, <2>3, <3>2 DEF EndedExpired
    <3>3. CASE d \in down
      <4>1. call[h].pc = "set" \/ lease'[l].errCh = "nil"
        BY <1>1, <1>6, <2>3 DEF Acquired
      <4>2. lease'[l].errCh = "nil" => lease[l].errCh = "nil"
        BY <3>1 DEF GoDown
      <4>3. Acquired(h)
        BY <1>1, <1>6, <2>3, <4>1, <4>2 DEF Acquired
      <4>4. EndedExpired(l)
        BY <1>6, <2>3, <3>3, <4>3 DEF DownInv, DownOK
      <4> QED
        BY <1>2, <4>4
    <3> QED
      BY <1>4, <3>2, <3>3
  <2> QED
    BY <2>2, <2>3
<1> QED
  BY <1>1, <1>5, <1>6 DEF DownOK

LEMMA DownHandle ==
  ASSUME TypeInv, OwnInv, DownInv, NEW h \in Call, Touched, OneCall(h), down' = down,
         HandleE(h)
  PROVE  DownInv'
<1> DEFINE c == call[h].client
           l == call[h].lease
<1>t. /\ leases \in [Client -> Lease \cup {None}] /\ told \in [Client -> Addr \cup {None}]
      /\ None \notin Lease
  BY DHCPAssumption DEF TypeInv, TypeOK
<1>e. \A m \in Lease : EndedExpired(m) => EndedExpired(m)'
  BY DEF Touched, EndedExpired
<1>k. \A g \in Call : CallOK(g)
  BY DEF OwnInv
<1>p. call[h].pc # "idle"
  BY DEF HandleE, AllocateFailsE, AllocateNoMaskE, AllocateReadE, StopReturnsE,
     ClearLeaseE, AllocateSet, ReleaseReply
<1>c. c \in Client /\ told[c] = None
  BY <1>k, <1>p DEF CallOK
<1>n. NoCall.pc = "idle"
  BY DEF NoCall
<1> SUFFICES ASSUME NEW d \in Client, d \in down PROVE DownOK(d)'
  BY DEF DownInv, DownOK
<1>1. \A g \in Call \ {h} : Acquired(g)' => Acquired(g) /\ call'[g] = call[g]
  <2> SUFFICES ASSUME NEW g \in Call \ {h}, Acquired(g)' PROVE Acquired(g) /\ call'[g] = call[g]
    OBVIOUS
  <2>1. call'[g] = call[g] /\ (call[g].pc \in Allocating => call[g].lease \in Lease)
    BY <1>k DEF OneCall, CallOK
  <2>2. call[g].pc = "acquire" => lease'[call[g].lease].errCh \in {lease[call[g].lease].errCh, "empty"}
    BY <2>1 DEF Touched, Allocating
  <2> QED
    BY <2>1, <2>2 DEF Acquired
<1>2. Acquired(h)' => Acquired(h) /\ call'[h].lease = l /\ call'[h].client = c
  BY <1>n DEF HandleE, AllocateFailsE, AllocateNoMaskE, AllocateReadE, StopReturnsE,
     ClearLeaseE, Returns, Proceeds, Acquired
<1>3. ASSUME NEW g \in Call, call'[g].client = d, Acquired(g)' PROVE EndedExpired(call[g].lease)'
  <2>1. Acquired(g) /\ call'[g].lease = call[g].lease /\ call'[g].client = call[g].client
    BY <1>1, <1>2, <1>3
  <2>2. call[g].lease \in Lease
    BY <1>k, <2>1 DEF Acquired, CallOK, Allocating
  <2>3. EndedExpired(call[g].lease)
    BY <1>3, <2>1 DEF DownInv, DownOK
  <2> QED
    BY <1>e, <2>1, <2>2, <2>3 DEF EndedExpired
<1>4. ASSUME told'[d] # None PROVE EndedExpired(leases[d])'
  <2>1. CASE leases'[d] = leases[d] /\ told[d] # None
    <3>1. EndedExpired(leases[d]) /\ leases[d] \in Lease
      BY <1>t, <2>1 DEF DownInv, DownOK, OwnInv, ClientOK
    <3> QED
      BY <1>e, <2>1, <3>1 DEF EndedExpired
  <2>2. CASE AllocateSet(h)
    <3>1. /\ call[h].pc = "set" /\ leases' = [leases EXCEPT ![c] = l]
          /\ told' \in {told, [told EXCEPT ![c] = call[h].addr]}
      BY <2>2 DEF AllocateSet
    <3>2. CASE d = c
      <4>1. EndedExpired(l) /\ l \in Lease
        BY <1>k, <3>1, <3>2 DEF Acquired, DownInv, DownOK, CallOK, Allocating
      <4>2. leases'[d] = l
        BY <1>t, <3>1, <3>2
      <4> QED
        BY <1>e, <4>1, <4>2 DEF EndedExpired
    <3>3. CASE d # c
      BY <1>4, <1>t, <2>1, <3>1, <3>3
    <3> QED
      BY <3>2, <3>3
  <2>3. CASE ClearLeaseE(h)
    BY <1>4, <1>c, <1>t, <2>1, <2>3 DEF ClearLeaseE
  <2>4. CASE UNCHANGED <<leases, told>>
    BY <1>4, <2>1, <2>4
  <2> QED
    BY <2>2, <2>3, <2>4 DEF HandleE, AllocateFailsE, AllocateNoMaskE, AllocateReadE,
       StopReturnsE, ReleaseReply
<1> QED
  BY <1>3, <1>4 DEF DownOK

LEMMA DownInit == Init => DownInv
  BY DEF Init, DownInv, DownOK

LEMMA DownStep ==
  ASSUME ~MayCheck, ~MayKill, TypeInv, OwnInv, DownInv, [Next]_vars
  PROVE  DownInv'
<1>0. CASE UNCHANGED <<lease, leases, call, down, told>>
  BY <1>0 DEF DownInv, DownOK, Acquired, EndedExpired
<1>1. ASSUME NEW h \in Call, NEW c \in Client, NEW op \in {"add", "check"}, Allocate(h, c, op)
      PROVE  DownInv'
  <2>1. PICK l \in Lease : AllocateE(h, c, l)
    BY <1>1, AllocateFacts
  <2>2. ASSUME NEW d \in Client, d \in down, told[d] # None PROVE EndedExpired(leases[d])'
    <3>1. leases[d] # l /\ leases[d] \in Lease /\ EndedExpired(leases[d]) /\ leases' = leases
      BY <2>1, <2>2 DEF AllocateE, Collectable, DownInv, DownOK, OwnInv, ClientOK, TypeInv, TypeOK
    <3> QED
      BY <2>1, <3>1 DEF AllocateE, OneLease, EndedExpired
  <2>3. ASSUME NEW d \in Client, d \in down, NEW g \in Call, call'[g].client = d, Acquired(g)'
        PROVE  EndedExpired(call[g].lease)'
    <3>1. g # h
      BY <2>1, <2>3 DEF AllocateE, Acquired
    <3>2. call'[g] = call[g] /\ call[g].lease # l
      BY <2>1, <3>1 DEF AllocateE, OneCall, Collectable
    <3>3. call[g].lease \in Lease
      BY <2>3, <3>2 DEF Acquired, OwnInv, CallOK, Allocating
    <3>4. lease'[call[g].lease] = lease[call[g].lease]
      BY <2>1, <3>2, <3>3 DEF AllocateE, OneLease
    <3>5. EndedExpired(call[g].lease)
      BY <2>3, <3>2, <3>4 DEF DownInv, DownOK, Acquired
    <3> QED
      BY <3>2, <3>4, <3>5 DEF EndedExpired
  <2>4. UNCHANGED <<down, told, leases>>
    BY <2>1 DEF AllocateE
  <2> QED
    BY <2>2, <2>3, <2>4 DEF DownInv, DownOK
<1>2. ASSUME NEW h \in Call, NEW c \in Client, Release(h, c) PROVE DownInv'
  <2>1. ReleaseE(h, c)
    BY <1>2, ReleaseFacts
  <2>2. \A m \in Lease : EndedExpired(m) => EndedExpired(m)'
    BY <2>1 DEF ReleaseE, Touched, EndedExpired
  <2>3. ASSUME NEW d \in Client, d \in down, told'[d] # None PROVE EndedExpired(leases[d])'
    <3>1. told[d] # None /\ leases' = leases
      BY <2>1, <2>3 DEF ReleaseE, TypeInv, TypeOK
    <3>2. leases[d] \in Lease /\ EndedExpired(leases[d])
      BY <2>3, <3>1 DEF DownInv, DownOK, OwnInv, ClientOK, TypeInv, TypeOK
    <3> QED
      BY <2>2, <3>1, <3>2 DEF EndedExpired
  <2>4. ASSUME NEW d \in Client, d \in down, NEW g \in Call, call'[g].client = d, Acquired(g)'
        PROVE  EndedExpired(call[g].lease)'
    <3>1. g # h
      BY <2>1, <2>4 DEF ReleaseE, Acquired
    <3>2. call'[g] = call[g]
      BY <2>1, <3>1 DEF ReleaseE, OneCall
    <3>3. call[g].lease \in Lease
      BY <2>4, <3>2 DEF Acquired, OwnInv, CallOK, Allocating
    <3>4. Acquired(g)
      BY <2>1, <2>4, <3>2, <3>3 DEF Acquired, ReleaseE, Touched
    <3>5. EndedExpired(call[g].lease)
      BY <2>4, <3>2, <3>4 DEF DownInv, DownOK
    <3> QED
      BY <2>2, <3>2, <3>3, <3>5 DEF EndedExpired
  <2>5. down' = down
    BY <2>1 DEF ReleaseE
  <2> QED
    BY <2>3, <2>4, <2>5 DEF DownInv, DownOK
<1>3. ASSUME NEW h \in Call, Handle(h) PROVE DownInv'
  BY <1>3, HandleFacts, DownHandle
<1>4. ASSUME NEW h \in Call, Kill(h) PROVE DownInv'
  BY <1>4 DEF Kill
<1>5. ASSUME NEW l \in Lease, Maintain(l) \/ Tick(l) PROVE DownInv'
  BY <1>5, GoFacts, DownGo DEF Go
<1>6. ASSUME NEW a \in Addr, ServerExpire(a) PROVE DownInv'
  BY <1>0, <1>6 DEF ServerExpire
<1>7. CASE UNCHANGED vars
  BY <1>0, <1>7 DEF vars
<1> QED
  BY <1>1, <1>2, <1>3, <1>4, <1>5, <1>6, <1>7 DEF Next

(***************************************************************************)
(* The interface of an attachment in use is brought down only when the     *)
(* lease in the map really expired: neither a rebinding that fails before  *)
(* that nor the lease of an earlier ADD does it.                           *)
(***************************************************************************)
THEOREM DownMeansExpired == ~MayCheck /\ ~MayKill => (Spec => []DownOnlyExpired)
<1> SUFFICES ASSUME ~MayCheck, ~MayKill PROVE Spec => []DownOnlyExpired
  OBVIOUS
<1>1. TypeInv /\ OwnInv /\ DownInv /\ [Next]_vars => (TypeInv /\ OwnInv /\ DownInv)'
  BY TypeStep, OwnStep, DownStep
<1>2. TypeInv /\ OwnInv /\ DownInv => DownOnlyExpired
  BY DEF TypeInv, TypeOK, OwnInv, ClientOK, DownInv, DownOK, EndedExpired, DownOnlyExpired
<1> QED
  BY TypeInit, OwnInit, DownInit, <1>1, <1>2, PTL DEF Spec

-----------------------------------------------------------------------------
(* The abstract pool.                                                      *)

\* The client has a lease in the map that is maintained and has not expired.
Holds(c) ==
    /\ leases[c] \in Lease
    /\ Maintained(leases[c])
    /\ lease[leases[c]].age # Expired

LEMMA LeasedIs ==
  ASSUME NEW c \in Client
  PROVE  LeasedTo(c) = IF Holds(c) THEN {lease[leases[c]].addr} ELSE {}
  BY DEF LeasedTo, Holds

\* A goroutine known to the map runs for the client it is listed under.
LEMMA MapOwner ==
  ASSUME OwnInv, NEW c \in Client, leases[c] \in Lease, Running(leases[c])
  PROVE  lease[leases[c]].client = c
<1>1. LeaseOK(leases[c]) /\ Apart
  BY DEF OwnInv
<1> QED
  BY <1>1, DHCPAssumption DEF LeaseOK, Apart, AcquiredBy

LEMMA HoldsBound ==
  ASSUME OwnInv, LeaseBacked, NEW c \in Client, Holds(c)
  PROVE  /\ lease[leases[c]].addr \in Addr
         /\ srv[lease[leases[c]].addr] = c
         /\ lease[leases[c]].client = c
<1>1. Running(leases[c]) /\ LeaseOK(leases[c])
  BY DEF Holds, Maintained, Running, OwnInv
<1> QED
  BY <1>1, MapOwner DEF Holds, LeaseBacked, LeaseOK

\* No address is leased to two clients, and a client has at most one.
Leased ==
    /\ \A c \in Client : LeasedTo(c) = {} \/ \E a \in Addr : LeasedTo(c) = {a}
    /\ \A c, d \in Client : c # d => LeasedTo(c) \cap LeasedTo(d) = {}

LEMMA LeasedLemma == OwnInv /\ LeaseBacked => Leased
<1> SUFFICES ASSUME OwnInv, LeaseBacked PROVE Leased
  OBVIOUS
<1>1. \A c \in Client : LeasedTo(c) = {} \/ \E a \in Addr : LeasedTo(c) = {a}
  BY LeasedIs, HoldsBound
<1>2. ASSUME NEW c \in Client, NEW d \in Client, NEW a, a \in LeasedTo(c), a \in LeasedTo(d)
      PROVE  c = d
  BY <1>2, LeasedIs, HoldsBound
<1> QED
  BY <1>1, <1>2 DEF Leased

\* The mapped variable.
assigned == [c \in Client |-> LeasedTo(c)]

\* A step that gives one client an address, or takes it away.
LEMMA PoolOne ==
  ASSUME Leased, Leased', NEW c \in Client,
         \A d \in Client \ {c} : LeasedTo(d)' = LeasedTo(d),
         LeasedTo(c) = {} \/ LeasedTo(c)' \subseteq LeasedTo(c)
  PROVE  [Pool!Next]_assigned
<1>1. assigned' = [assigned EXCEPT ![c] = LeasedTo(c)']
  BY DEF assigned
<1>2. CASE LeasedTo(c)' = {}
  <2>1. Pool!Revoke(c)
    BY <1>1, <1>2 DEF Pool!Revoke, assigned
  <2> QED
    BY <2>1 DEF Pool!Next
<1>3. CASE LeasedTo(c)' # {} /\ LeasedTo(c) # {}
  <2>1. LeasedTo(c)' = LeasedTo(c)
    BY <1>3 DEF Leased
  <2>2. assigned' = assigned
    BY <1>1, <2>1 DEF assigned
  <2> QED
    BY <2>2
<1>4. CASE LeasedTo(c)' # {} /\ LeasedTo(c) = {}
  <2>1. PICK a \in Addr : LeasedTo(c)' = {a}
    BY <1>4 DEF Leased
  <2>2. \A d \in Client : LeasedTo(d) \cap {a} = {}
    BY <1>4, <2>1 DEF Leased
  <2>3. Pool!Assign(c)
    <3>1. assigned[c] = {} /\ \A d \in Client : assigned[d] \cap {a} = {}
      BY <1>4, <2>2 DEF assigned
    <3>2. assigned' = [assigned EXCEPT ![c] = {a}]
      BY <1>1, <2>1
    <3>3. {a} \in {{x} : x \in Addr}
      OBVIOUS
    <3> QED
      BY <3>1, <3>2, <3>3 DEF Pool!Assign, assigned
  <2> QED
    BY <2>3 DEF Pool!Next
<1> QED
  BY <1>2, <1>3, <1>4

LEMMA PoolStep ==
  ASSUME TypeInv, OwnInv, LeaseBacked, OneBinding, Leased, Leased', [Next]_vars
  PROVE  [Pool!Next]_assigned
<1>t. None \notin Lease /\ leases \in [Client -> Lease \cup {None}]
  BY DHCPAssumption DEF TypeInv, TypeOK
<1>s. ASSUME \A c \in Client : LeasedTo(c)' = LeasedTo(c) PROVE [Pool!Next]_assigned
  BY <1>s DEF assigned
<1>0. ASSUME Touched, NEW c \in Client, leases'[c] = leases[c]
      PROVE  LeasedTo(c)' = LeasedTo(c)
  BY <1>0 DEF LeasedTo, Touched, Maintained
<1>1. ASSUME NEW h \in Call, NEW c \in Client, NEW op \in {"add", "check"}, Allocate(h, c, op)
      PROVE  [Pool!Next]_assigned
  <2>1. PICK l \in Lease : AllocateE(h, c, l)
    BY <1>1, AllocateFacts
  <2>2. ASSUME NEW d \in Client PROVE LeasedTo(d)' = LeasedTo(d)
    BY <2>1 DEF AllocateE, Collectable, OneLease, LeasedTo, Maintained
  <2> QED
    BY <1>s, <2>2
<1>2. ASSUME NEW h \in Call, NEW c \in Client, Release(h, c) PROVE [Pool!Next]_assigned
  BY <1>0, <1>2, <1>s, ReleaseFacts DEF ReleaseE
<1>3. ASSUME NEW h \in Call, Handle(h) PROVE [Pool!Next]_assigned
  <2>1. Touched /\ HandleE(h) /\ CallOK(h)
    BY <1>3, HandleFacts DEF OwnInv
  <2>2. CASE leases' = leases
    BY <1>0, <1>s, <2>1, <2>2
  <2>3. CASE AllocateSet(h) \/ ClearLeaseE(h)
    <3>c. PICK c \in Client : c = call[h].client
      BY <2>1, <2>3 DEF AllocateSet, ClearLeaseE, CallOK
    <3>1. \A d \in Client \ {c} : leases'[d] = leases[d]
      BY <1>t, <2>3, <3>c DEF AllocateSet, ClearLeaseE
    <3>2. \A d \in Client \ {c} : LeasedTo(d)' = LeasedTo(d)
      BY <1>0, <2>1, <3>1
    <3>3. LeasedTo(c) = {} \/ LeasedTo(c)' = {}
      BY <1>t, <2>1, <2>3, <3>c DEF AllocateSet, ClearLeaseE, CallOK, Allocating, LeasedTo
    <3> QED
      BY <3>2, <3>3, PoolOne
  <2> QED
    BY <2>1, <2>2, <2>3 DEF HandleE, AllocateFailsE, AllocateNoMaskE, AllocateReadE,
       StopReturnsE, ReleaseReply
<1>4. ASSUME NEW h \in Call, Kill(h) PROVE [Pool!Next]_assigned
  BY <1>0, <1>4, <1>s, TouchSame DEF Kill
<1>5. ASSUME NEW l \in Lease, Maintain(l) \/ Tick(l) PROVE [Pool!Next]_assigned
  <2>1. GoStep(l) /\ GoServer(l)
    BY <1>5, GoFacts DEF Go
  <2>2. ASSUME NEW d \in Client, leases[d] # l PROVE LeasedTo(d)' = LeasedTo(d)
    BY <2>1, <2>2 DEF GoStep, OneLease, LeasedTo, Maintained
  <2>3. ASSUME NEW c \in Client, leases[c] = l PROVE [Pool!Next]_assigned
    <3>1. \A d \in Client \ {c} : leases[d] # l
      BY <1>t, <2>3 DEF OwnInv, Apart
    <3>2. ASSUME Holds(c), Holds(c)' PROVE lease'[l].addr = lease[l].addr
      <4>1. /\ lease[l].addr \in Addr /\ srv[lease[l].addr] = c /\ lease[l].client = c
        BY <2>3, <3>2, HoldsBound
      <4>2. leases' = leases
        BY <2>1 DEF GoStep
      <4>3. Maintained(l) /\ Maintained(l)' /\ lease[l].age # Expired
        BY <2>3, <3>2, <4>2 DEF Holds, Maintained
      <4>4. CASE lease'[l].addr \in Offers(lease[l].client)
        BY <4>1, <4>4, <1>t, DHCPAssumption DEF Offers, OneBinding
      <4> QED
        BY <2>1, <4>3, <4>4 DEF GoServer
    <3>3. LeasedTo(c) = {} \/ LeasedTo(c)' \subseteq LeasedTo(c)
      <4>1. leases' = leases
        BY <2>1 DEF GoStep
      <4>2. LeasedTo(c)' = IF Holds(c)' THEN {lease'[l].addr} ELSE {}
        BY <2>3, <4>1 DEF LeasedTo, Holds, Maintained
      <4>3. LeasedTo(c) = IF Holds(c) THEN {lease[l].addr} ELSE {}
        BY <2>3, LeasedIs
      <4> QED
        BY <3>2, <4>2, <4>3
    <3> QED
      BY <2>2, <3>1, <3>3, PoolOne
  <2> QED
    BY <1>s, <2>2, <2>3
<1>6. ASSUME NEW a \in Addr, ServerExpire(a) PROVE [Pool!Next]_assigned
  BY <1>0, <1>6, <1>s, TouchSame DEF ServerExpire
<1>7. CASE UNCHANGED vars
  BY <1>0, <1>7, <1>s, TouchSame DEF vars
<1> QED
  BY <1>1, <1>2, <1>3, <1>4, <1>5, <1>6, <1>7 DEF Next

(***************************************************************************)
(* The daemon implements the abstract pool for any number of clients and   *)
(* addresses: a client's address never changes while its lease lasts, no   *)
(* address is leased to two clients, and renewing after an expiry is a new *)
(* assignment of an address nobody else has.                               *)
(***************************************************************************)
THEOREM ImplementsPool == ~MayCheck /\ ~MayKill => (Spec => PoolSpec)
<1> SUFFICES ASSUME ~MayCheck, ~MayKill PROVE Spec => PoolSpec
  OBVIOUS
<1> DEFINE Inv == TypeInv /\ OwnInv /\ LeaseBacked /\ OneBinding
<1>1. Init => Inv
  BY TypeInit, OwnInit, BackedInit
<1>2. Inv /\ [Next]_vars => Inv'
  BY TypeStep, OwnStep, BackedStep
<1>3. Init => Pool!Init
  <2> SUFFICES ASSUME Init PROVE Pool!Init
    OBVIOUS
  <2>1. \A c \in Client : LeasedTo(c) = {}
    BY DHCPAssumption DEF Init, LeasedTo
  <2> QED
    BY <2>1 DEF Pool!Init
<1>4. Inv => Leased
  BY LeasedLemma
<1>5. Inv /\ Leased /\ Leased' /\ [Next]_vars => [Pool!Next]_assigned
  BY PoolStep
<1>6. [Pool!Next]_assigned <=> [Pool!Next]_([c \in Client |-> LeasedTo(c)])
  BY DEF assigned
<1> QED
  BY <1>1, <1>2, <1>3, <1>4, <1>5, <1>6, PTL DEF Spec, PoolSpec, Pool!Spec
=============================================================================
