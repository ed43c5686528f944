-------------------------- MODULE HostLocalProofs --------------------------
(***************************************************************************)
(* Proofs about the host-local plugin, for any number of attachments and   *)
(* containers and any ranges that LoadIPAMConfig accepts.                  *)
(***************************************************************************)
EXTENDS HostLocal, SequenceTheorems, TLAPS

Reserving == {"create", "write", "trunc", "last"}
Adding    == {"get", "try", "next", "full"} \cup Reserving

\* The iterator of a Get points into the range it says it is in.
IterOK(a) ==
    /\ iter[a].rangeIdx \in DOMAIN Ranges[n[a]]
    /\ iter[a].cur \in {NoIP} \cup Addrs(Ranges[n[a]][iter[a].rangeIdx])

\* Control: what a process has established by the time it gets to a label.
Control(a) ==
    /\ pc[a] # "idle" => n[a] >= 1
    /\ pc[a] = "next" => want[a] = NoIP
    /\ pc[a] \in {"next"} \cup Reserving /\ want[a] = NoIP => IterOK(a)
    /\ pc[a] \in Reserving => Target(a) \in IP
    /\ pc[a] \in Adding => added[a]

CtlInv == TypeOK /\ \A a \in Att : Control(a)

\* Ownership: which files a process knows to be its own.
Owns(a) ==
    /\ \A ip \in held[a] \cup got[a] : files[ip] = a
    /\ held[a] # {} => added[a] /\ pc[a] = "idle"
    /\ pc[a] \in {"idle", "release", "walk"} => got[a] = {}
    /\ pc[a] = "write" => files[Target(a)] = EmptyFile
    /\ pc[a] \in {"trunc", "last"} => files[Target(a)] = a

\* Two processes never write the same new file.
WritersDiffer ==
    \A a, b \in Att :
       pc[a] = "write" /\ pc[b] = "write" /\ Target(a) = Target(b) => a = b

OwnInv == (\A a \in Att : Owns(a)) /\ WritersDiffer

\* Release: a DEL that walks for old files has no new ones left.
Forgets(a) ==
    ~added[a] \/ (pc[a] = "walk" /\ walk[a] = "old") =>
       \A ip \in IP : files[ip] # a

DelInv == \A a \in Att : Forgets(a)

-----------------------------------------------------------------------------
(* The configured ranges.                                                  *)

LEMMA SetFacts ==
  ASSUME NEW k \in Sets
  PROVE  /\ Ranges[k] \in Seq([start : Nat \ {NoIP}, end : Nat, gw : Nat])
         /\ Len(Ranges[k]) \in Nat /\ Len(Ranges[k]) >= 1
         /\ DOMAIN Ranges[k] = 1 .. Len(Ranges[k])
         /\ 1 \in DOMAIN Ranges[k]
  BY RangesAssumption DEF Sets

(***************************************************************************)
(* Every range is a non-empty interval of allocatable, non-nil addresses   *)
(* (what LoadIPAMConfig's checks give the allocator).                      *)
(***************************************************************************)
LEMMA RangeFacts ==
  ASSUME NEW k \in Sets, NEW i \in DOMAIN Ranges[k]
  PROVE  /\ Ranges[k][i].start \in Nat /\ Ranges[k][i].end \in Nat
         /\ Ranges[k][i].start # NoIP
         /\ Ranges[k][i].start <= Ranges[k][i].end
         /\ Addrs(Ranges[k][i]) \subseteq SetAddrs[k]
         /\ SetAddrs[k] \subseteq IP
<1>1. Ranges[k] \in Seq([start : Nat \ {NoIP}, end : Nat, gw : Nat])
  BY RangesAssumption DEF Sets
<1>2. Ranges[k][i] \in [start : Nat \ {NoIP}, end : Nat, gw : Nat]
  <2> DEFINE S == [start : Nat \ {NoIP}, end : Nat, gw : Nat]
             R == Ranges[k]
  <2>1. R \in Seq(S) /\ i \in 1 .. Len(R)
    BY <1>1, SetFacts
  <2> HIDE DEF S, R
  <2>2. R[i] \in S
    BY <2>1, ElementOfSeq
  <2> QED
    BY <2>2 DEF S, R
<1>3. Ranges[k][i].start <= Ranges[k][i].end
  BY RangesAssumption
<1>4. Addrs(Ranges[k][i]) \subseteq SetAddrs[k]
  BY DEF SetAddrs
<1>5. SetAddrs[k] \subseteq IP
  BY DEF IP
<1> QED
  BY <1>2, <1>3, <1>4, <1>5

LEMMA SetsFacts == /\ Len(Ranges) \in Nat /\ Len(Ranges) >= 1
                   /\ Sets = 1 .. Len(Ranges)
  BY RangesAssumption DEF Sets

LEMMA NilNotIP == NoIP \notin IP /\ IP \subseteq Nat
<1> SUFFICES ASSUME NEW ip \in IP
             PROVE  ip # NoIP /\ ip \in Nat
  OBVIOUS
<1>1. PICK k \in Sets : ip \in SetAddrs[k]
  BY DEF IP
<1>2. PICK i \in DOMAIN Ranges[k] : ip \in Addrs(Ranges[k][i])
  BY <1>1 DEF SetAddrs
<1> QED
  BY <1>2, RangeFacts DEF Addrs, NoIP

\* An iterator position within range set k.
Placed(k, it) == /\ it \in IterType
                 /\ it.rangeIdx \in DOMAIN Ranges[k]
                 /\ it.cur \in {NoIP} \cup Addrs(Ranges[k][it.rangeIdx])

(***************************************************************************)
(* RangeIter.Next() moves from a position in the range set to an address   *)
(* of the range set.                                                       *)
(***************************************************************************)
LEMMA AdvancePlaced ==
  ASSUME NEW k \in Sets, NEW it, Placed(k, it)
  PROVE  /\ Placed(k, Advance(Ranges[k], it))
         /\ Advance(Ranges[k], it).cur # NoIP
         /\ Advance(Ranges[k], it).cur \in IP
<1> DEFINE R == Ranges[k]
           nx == Advance(R, it)
           r == R[it.rangeIdx]
           idx == IF it.cur = r.end THEN (it.rangeIdx % Len(R)) + 1 ELSE it.rangeIdx
           cur == IF it.cur = r.end THEN R[idx].start ELSE it.cur + 1
<1>1. it.rangeIdx \in DOMAIN R /\ it \in IterType
  BY DEF Placed
<1>2. idx \in DOMAIN R
  BY <1>1, SetFacts
<1>3. /\ r.start \in Nat /\ r.end \in Nat /\ r.start # NoIP /\ r.start <= r.end
      /\ Addrs(r) \subseteq IP
  BY <1>1, RangeFacts
<1>4. /\ R[idx].start \in Addrs(R[idx])
      /\ Addrs(R[idx]) \subseteq IP
  BY <1>2, RangeFacts DEF Addrs
<1>5. CASE it.cur = NoIP
  <2>1. nx = [it EXCEPT !.cur = r.start, !.startIP = r.start]
    BY <1>5 DEF Advance
  <2>2. r.start \in Addrs(r) /\ r.start \in IP
    BY <1>3 DEF Addrs
  <2> QED
    BY <2>1, <2>2, <1>1, <1>3 DEF Placed, IterType
<1>6. CASE it.cur # NoIP
  <2>1. it.cur \in Addrs(r)
    BY <1>6 DEF Placed
  <2>2. cur \in Addrs(R[idx])
    <3>1. CASE it.cur = r.end
      BY <3>1, <1>4
    <3>2. CASE it.cur # r.end
      BY <3>2, <2>1, <1>3 DEF Addrs
    <3> QED BY <3>1, <3>2
  <2>3. nx = [it EXCEPT !.rangeIdx = idx, !.cur = cur,
                        !.startIP = IF @ = NoIP THEN cur ELSE @]
    BY <1>6 DEF Advance
  <2>4. idx \in Nat
    BY <1>2, SetFacts
  <2>5. cur \in IP
    BY <2>2, <1>4
  <2> HIDE DEF idx, cur, nx, r
  <2>6. nx \in IterType /\ nx.rangeIdx = idx /\ nx.cur = cur
    BY <2>3, <2>4, <2>5, <1>1 DEF IterType
  <2>7. Placed(k, nx) /\ nx.cur # NoIP /\ nx.cur \in IP
    BY <2>6, <2>2, <2>5, <1>2, NilNotIP DEF Placed
  <2> QED
    BY <2>7 DEF nx
<1> QED
  BY <1>5, <1>6

(***************************************************************************)
(* GetIter starts in the range set, whatever last_reserved_ip holds.       *)
(***************************************************************************)
LEMMA GetIterPlaced ==
  ASSUME NEW k \in Sets, NEW lastIP
  PROVE  Placed(k, GetIter(Ranges[k], lastIP))
<1> DEFINE R == Ranges[k]
           i == RangeFor(R, lastIP)
<1>1. CASE Contains(R, lastIP)
  <2>1. i \in DOMAIN R /\ lastIP \in Addrs(R[i])
    BY <1>1 DEF Contains, RangeFor
  <2>2. lastIP \in IP
    BY <2>1, RangeFacts
  <2>3. i \in Nat
    BY <2>1, SetFacts
  <2> HIDE DEF i
  <2>4. GetIter(R, lastIP) = [rangeIdx |-> i, cur |-> lastIP, startIP |-> NoIP,
                              startRange |-> i]
    BY <1>1 DEF GetIter, NoIter, i
  <2> QED
    BY <2>1, <2>2, <2>3, <2>4 DEF Placed, IterType
<1>2. CASE ~Contains(R, lastIP)
  <2>1. R[1].start \in IP
    <3>1. 1 \in DOMAIN R
      BY SetFacts
    <3>2. /\ R[1].start \in Nat /\ R[1].end \in Nat /\ R[1].start <= R[1].end
          /\ Addrs(R[1]) \subseteq IP
      BY <3>1, RangeFacts
    <3> QED
      BY <3>2 DEF Addrs
  <2>2. GetIter(R, lastIP) = [rangeIdx |-> 1, cur |-> NoIP, startIP |-> R[1].start,
                              startRange |-> 1]
    BY <1>2 DEF GetIter, NoIter
  <2> QED
    BY <2>1, <2>2, SetFacts DEF Placed, IterType
<1> QED
  BY <1>1, <1>2

-----------------------------------------------------------------------------
(* Control and types.                                                      *)

LEMMA CtlInit == Init => CtlInv
<1> SUFFICES ASSUME Init PROVE CtlInv
  OBVIOUS
<1>1. TypeOK
  BY AttAssumption, SetsFacts DEF Init, TypeOK, Labels, IterType, NoIter
<1>2. \A a \in Att : Control(a)
  BY DEF Init, Control, Reserving, Adding
<1> QED
  BY <1>1, <1>2 DEF CtlInv

\* A process that exits leaves everything typed.
LEMMA ExitTypes ==
  ASSUME TypeOK, NEW a \in Att, Exit(a),
         files' \in [IP -> Att \cup Cont \cup {NoFile, EmptyFile}],
         last' \in [Sets -> {NoIP} \cup IP],
         held' \in [Att -> SUBSET IP], added' \in [Att -> BOOLEAN]
  PROVE  TypeOK'
<1>1. NoIter \in IterType
  BY DEF NoIter, IterType
<1>2. lock' \in SUBSET Att /\ pc' \in [Att -> Labels]
  BY DEF TypeOK, Exit, Unlock, Labels
<1>3. /\ op' \in [Att -> {"none", "add", "del"}]
      /\ walk' \in [Att -> {"new", "found", "old"}]
  BY DEF TypeOK, Exit
<1>4. n' \in [Att -> 0 .. Len(Ranges)] /\ want' \in [Att -> {NoIP} \cup IP]
  BY SetsFacts DEF TypeOK, Exit
<1>5. req' \in [Att -> SUBSET (Nat \ {NoIP})] /\ got' \in [Att -> SUBSET IP]
  BY DEF TypeOK, Exit
<1>6. iter' \in [Att -> IterType]
  BY <1>1 DEF TypeOK, Exit
<1> QED
  BY <1>2, <1>3, <1>4, <1>5, <1>6 DEF TypeOK

LEMMA RollbackTypes ==
  ASSUME TypeOK, NEW a \in Att, NEW done \in 0 .. Len(Ranges), Rollback(a, done),
         files' \in [IP -> Att \cup Cont \cup {NoFile, EmptyFile}],
         last' \in [Sets -> {NoIP} \cup IP],
         held' \in [Att -> SUBSET IP], added' \in [Att -> BOOLEAN]
  PROVE  TypeOK'
<1>1. NoIter \in IterType
  BY DEF NoIter, IterType
<1>2. CASE done = 0
  BY <1>2, ExitTypes DEF Rollback
<1>3. CASE done # 0
  <2>1. lock' \in SUBSET Att /\ pc' \in [Att -> Labels]
    BY <1>3 DEF TypeOK, Rollback, Goto, Unlock, Labels
  <2>2. /\ op' \in [Att -> {"none", "add", "del"}]
        /\ walk' \in [Att -> {"new", "found", "old"}]
    BY <1>3 DEF TypeOK, Rollback
  <2>3. n' \in [Att -> 0 .. Len(Ranges)]
    BY <1>3 DEF TypeOK, Rollback
  <2>6. want' \in [Att -> {NoIP} \cup IP]
    BY <1>3 DEF TypeOK, Rollback
  <2>4. req' \in [Att -> SUBSET (Nat \ {NoIP})] /\ got' \in [Att -> SUBSET IP]
    BY <1>3 DEF TypeOK, Rollback
  <2>5. iter' \in [Att -> IterType]
    BY <1>1, <1>3 DEF TypeOK, Rollback
  <2> QED
    BY <2>1, <2>2, <2>3, <2>4, <2>5, <2>6 DEF TypeOK
<1> QED
  BY <1>2, <1>3

\* A step of process a leaves what the other processes know alone.
Frame(a) ==
    \A b \in Att \ {a} :
       /\ pc'[b] = pc[b] /\ n'[b] = n[b] /\ want'[b] = want[b]
       /\ iter'[b] = iter[b] /\ got'[b] = got[b] /\ walk'[b] = walk[b]
       /\ held'[b] = held[b] /\ added'[b] = added[b]

LEMMA ExitFrame ==
  ASSUME TypeOK, NEW a \in Att, Exit(a),
         \A b \in Att \ {a} : held'[b] = held[b] /\ added'[b] = added[b]
  PROVE  Frame(a) /\ pc'[a] = "idle" /\ got'[a] = {} /\ walk'[a] = "new"
  BY DEF Exit, TypeOK, Frame

LEMMA RollbackFrame ==
  ASSUME TypeOK, NEW a \in Att, NEW done \in 0 .. Len(Ranges), Rollback(a, done),
         UNCHANGED <<held, added>>
  PROVE  /\ Frame(a)
         /\ pc'[a] \in {"idle", "release"}
         /\ got'[a] = {}
         /\ pc'[a] # "idle" => n'[a] >= 1
<1>1. CASE done = 0
  BY <1>1, ExitFrame DEF Rollback
<1>2. CASE done # 0
  BY <1>2, SetsFacts DEF Rollback, Goto, TypeOK, Frame
<1> QED
  BY <1>1, <1>2

\* Get's error return, from anywhere in an ADD.
LEMMA FailsFacts ==
  ASSUME CtlInv, NEW a \in Att, pc[a] # "idle", GetFails(a), UNCHANGED <<held, added>>,
         files' \in [IP -> Att \cup Cont \cup {NoFile, EmptyFile}],
         last' \in [Sets -> {NoIP} \cup IP]
  PROVE  /\ TypeOK'
         /\ Frame(a)
         /\ pc'[a] \in {"idle", "release"}
         /\ got'[a] = {}
         /\ pc'[a] # "idle" => n'[a] >= 1
<1>1. n[a] - 1 \in 0 .. Len(Ranges)
  BY SetsFacts DEF CtlInv, Control, TypeOK
<1>2. TypeOK /\ held' \in [Att -> SUBSET IP] /\ added' \in [Att -> BOOLEAN]
  BY DEF CtlInv, TypeOK
<1>3. TypeOK'
  BY <1>1, <1>2, RollbackTypes DEF GetFails
<1> QED
  BY <1>1, <1>2, <1>3, RollbackFrame DEF GetFails

LEMMA ControlFrame ==
  ASSUME NEW a \in Att, \A b \in Att : Control(b), Control(a)', Frame(a)
  PROVE  \A b \in Att : Control(b)'
<1> SUFFICES ASSUME NEW b \in Att \ {a}
             PROVE  Control(b)'
  OBVIOUS
<1> QED
  BY DEF Frame, Control, IterOK, Target

\* What each step establishes about the process that takes it.
LEMMA StepFacts ==
  ASSUME CtlInv, NEW a \in Att,
         \/ BeginAdd(a) \/ BeginDel(a) \/ Enter(a) \/ Step(a)
         \/ ReserveFails(a) \/ Crash(a)
  PROVE  TypeOK' /\ Control(a)' /\ Frame(a)
<1> USE DEF CtlInv
<1>1. CASE BeginAdd(a)
  <2>1. TypeOK'
    <3>1. req' \in [Att -> SUBSET (Nat \ {NoIP})]
      BY <1>1, RequestsAssumption DEF BeginAdd, TypeOK
    <3>2. n' \in [Att -> 0 .. Len(Ranges)]
      BY <1>1, SetsFacts DEF BeginAdd, TypeOK
    <3>3. pc' \in [Att -> Labels] /\ op' \in [Att -> {"none", "add", "del"}]
      BY <1>1 DEF BeginAdd, Goto, TypeOK, Labels
    <3>4. added' \in [Att -> BOOLEAN]
      BY <1>1 DEF BeginAdd, TypeOK
    <3> QED
      BY <1>1, <3>1, <3>2, <3>3, <3>4 DEF BeginAdd, TypeOK, store
  <2> QED
    BY <1>1, <2>1 DEF BeginAdd, Goto, TypeOK, Frame, Control, Reserving
<1>2. CASE BeginDel(a)
  <2>1. TypeOK'
    <3>1. n' \in [Att -> 0 .. Len(Ranges)] /\ held' \in [Att -> SUBSET IP]
      BY <1>2, SetsFacts DEF BeginDel, TypeOK
    <3>2. pc' \in [Att -> Labels] /\ op' \in [Att -> {"none", "add", "del"}]
      BY <1>2 DEF BeginDel, Goto, TypeOK, Labels
    <3> QED
      BY <1>2, <3>1, <3>2 DEF BeginDel, TypeOK, store
  <2> QED
    BY <1>2, <2>1, SetsFacts DEF BeginDel, Goto, TypeOK, Frame, Control, Reserving, Adding
<1>3. CASE EnterGet(a)
  <2>1. n[a] \in Sets
    BY <1>3, SetsFacts DEF EnterGet, TypeOK, Control
  <2>2. PICK ip \in req[a] \cup {NoIP} :
           /\ ip # NoIP => ip \in SetAddrs[n[a]]
           /\ want' = [want EXCEPT ![a] = ip]
           /\ req'  = [req EXCEPT ![a] = @ \ {ip}]
    BY <1>3 DEF EnterGet
  <2>3. ip \in {NoIP} \cup IP
    BY <2>1, <2>2 DEF IP
  <2>4. want' \in [Att -> {NoIP} \cup IP] /\ req' \in [Att -> SUBSET (Nat \ {NoIP})]
    BY <2>2, <2>3 DEF TypeOK
  <2>5. lock' \in SUBSET Att /\ pc' \in [Att -> Labels]
    BY <1>3 DEF EnterGet, Lock, Goto, TypeOK, Labels
  <2>6. TypeOK'
    BY <1>3, <2>4, <2>5 DEF EnterGet, TypeOK, store
  <2> QED
    BY <1>3, <2>2, <2>6 DEF EnterGet, Goto, TypeOK, Frame, Control, Reserving, Adding
<1>4. CASE EnterRelease(a)
  <2>1. lock' \in SUBSET Att /\ pc' \in [Att -> Labels]
    BY <1>4 DEF EnterRelease, Lock, Goto, TypeOK, Labels
  <2>2. walk' \in [Att -> {"new", "found", "old"}]
    BY <1>4 DEF EnterRelease, TypeOK
  <2>3. TypeOK'
    BY <1>4, <2>1, <2>2 DEF EnterRelease, TypeOK, store
  <2> QED
    BY <1>4, <2>3 DEF EnterRelease, Goto, TypeOK, Frame, Control, Reserving, Adding
<1>5. CASE TryRequested(a)
  <2>1. CASE GetFails(a)
    <3>1. /\ files' \in [IP -> Att \cup Cont \cup {NoFile, EmptyFile}]
          /\ last' \in [Sets -> {NoIP} \cup IP]
          /\ pc[a] # "idle" /\ UNCHANGED <<held, added>>
      BY <1>5 DEF TryRequested, TypeOK, store
    <3> QED
      BY <2>1, <3>1, FailsFacts DEF Control, Reserving, Adding
  <2>2. CASE /\ Goto(a, "create")
             /\ UNCHANGED <<lock, op, n, req, want, iter, got, walk>>
    <3>1. TypeOK'
      BY <1>5, <2>2 DEF TryRequested, TypeOK, store, Goto, Labels
    <3> QED
      BY <1>5, <2>2, <3>1 DEF TryRequested, Goto, TypeOK, Frame, Control, Target,
                              Reserving, Adding
  <2> QED
    BY <1>5, <2>1, <2>2 DEF TryRequested
<1>6. CASE TryAny(a)
  <2>1. CASE GetFails(a)
    <3>1. /\ files' \in [IP -> Att \cup Cont \cup {NoFile, EmptyFile}]
          /\ last' \in [Sets -> {NoIP} \cup IP]
          /\ pc[a] # "idle" /\ UNCHANGED <<held, added>>
      BY <1>6 DEF TryAny, TypeOK, store
    <3> QED
      BY <2>1, <3>1, FailsFacts DEF Control, Reserving, Adding
  <2>2. CASE /\ iter' = [iter EXCEPT ![a] = GetIter(Ranges[n[a]], last[n[a]])]
             /\ Goto(a, "next")
             /\ UNCHANGED <<lock, op, n, req, want, got, walk>>
    <3>1. n[a] \in Sets
      BY <1>6, SetsFacts DEF TryAny, TypeOK, Control
    <3>2. Placed(n[a], GetIter(Ranges[n[a]], last[n[a]]))
      BY <3>1, GetIterPlaced
    <3>3. iter' \in [Att -> IterType] /\ Placed(n[a], iter'[a])
      BY <2>2, <3>2 DEF Placed, TypeOK
    <3>4. pc' \in [Att -> Labels]
      BY <2>2 DEF Goto, TypeOK, Labels
    <3>5. TypeOK'
      BY <1>6, <2>2, <3>3, <3>4 DEF TryAny, TypeOK, store
    <3> QED
      BY <1>6, <2>2, <3>3, <3>5 DEF TryAny, Goto, TypeOK, Frame, Control, Placed,
                                    IterOK, Reserving, Adding
  <2> QED
    BY <1>6, <2>1, <2>2 DEF TryAny
<1>7. CASE IterNext(a)
  <2>1. n[a] \in Sets /\ IterOK(a) /\ want[a] = NoIP /\ added[a]
    BY <1>7, SetsFacts DEF IterNext, TypeOK, Control, Adding
  <2>2. Placed(n[a], iter[a])
    BY <2>1 DEF Placed, IterOK, TypeOK
  <2> DEFINE nx == Advance(Ranges[n[a]], iter[a])
  <2>3. Placed(n[a], nx) /\ nx.cur # NoIP /\ nx.cur \in IP
    BY <2>1, <2>2, AdvancePlaced
  <2>4. iter' = [iter EXCEPT ![a] = nx]
    BY <1>7 DEF IterNext
  <2>5. PICK l \in {"full", "next", "create"} : Goto(a, l)
    BY <1>7 DEF IterNext
  <2>6. UNCHANGED <<store, lock, op, n, req, want, got, walk, held, added>>
    BY <1>7 DEF IterNext
  <2> HIDE DEF nx
  <2>7. iter' \in [Att -> IterType] /\ iter'[a] = nx
    BY <2>3, <2>4 DEF Placed, TypeOK
  <2>8. pc' \in [Att -> Labels] /\ pc'[a] = l
    BY <2>5 DEF Goto, TypeOK, Labels
  <2>9. TypeOK'
    BY <2>6, <2>7, <2>8 DEF TypeOK, store
  <2>10. Frame(a)
    BY <2>4, <2>5, <2>6 DEF Frame, Goto, TypeOK
  <2>11. Control(a)'
    BY <2>1, <2>3, <2>6, <2>7, <2>8, <1>7
       DEF IterNext, Control, IterOK, Placed, Target, Reserving, Adding
  <2> QED
    BY <2>9, <2>10, <2>11
<1>8. CASE Exhausted(a)
  <2>1. /\ files' \in [IP -> Att \cup Cont \cup {NoFile, EmptyFile}]
        /\ last' \in [Sets -> {NoIP} \cup IP]
        /\ pc[a] # "idle" /\ UNCHANGED <<held, added>> /\ GetFails(a)
    BY <1>8 DEF Exhausted, TypeOK, store
  <2> QED
    BY <2>1, FailsFacts DEF Control, Reserving, Adding
<1>9. CASE Create(a)
  <2>1. pc' \in [Att -> Labels]
    BY <1>9 DEF Create, Goto, TypeOK, Labels
  <2>2. files' \in [IP -> Att \cup Cont \cup {NoFile, EmptyFile}]
    BY <1>9 DEF Create, TypeOK
  <2>3. TypeOK'
    BY <1>9, <2>1, <2>2 DEF Create, TypeOK
  <2> QED
    BY <1>9, <2>3 DEF Create, Goto, TypeOK, Frame, Control, IterOK, Target,
                      Reserving, Adding
<1>10. CASE CreateExists(a)
  <2>1. CASE GetFails(a)
    <3>1. /\ files' \in [IP -> Att \cup Cont \cup {NoFile, EmptyFile}]
          /\ last' \in [Sets -> {NoIP} \cup IP]
          /\ pc[a] # "idle" /\ UNCHANGED <<held, added>>
      BY <1>10 DEF CreateExists, TypeOK, store
    <3> QED
      BY <2>1, <3>1, FailsFacts DEF Control, Reserving, Adding
  <2>2. CASE /\ want[a] = NoIP
             /\ Goto(a, "next")
             /\ UNCHANGED <<lock, op, n, req, want, iter, got, walk>>
    <3>1. TypeOK'
      BY <1>10, <2>2 DEF CreateExists, TypeOK, store, Goto, Labels
    <3> QED
      BY <1>10, <2>2, <3>1 DEF CreateExists, Goto, TypeOK, Frame, Control, IterOK,
                               Target, Reserving, Adding
  <2> QED
    BY <1>10, <2>1, <2>2 DEF CreateExists
<1>11. CASE WriteID(a)
  <2>1. pc' \in [Att -> Labels]
    BY <1>11 DEF WriteID, Goto, TypeOK, Labels
  <2>2. files' \in [IP -> Att \cup Cont \cup {NoFile, EmptyFile}]
    BY <1>11 DEF WriteID, TypeOK
  <2>3. TypeOK'
    BY <1>11, <2>1, <2>2 DEF WriteID, TypeOK
  <2> QED
    BY <1>11, <2>3 DEF WriteID, Goto, TypeOK, Frame, Control, IterOK, Target,
                       Reserving, Adding
<1>12. CASE TruncateLast(a)
  <2>1. pc' \in [Att -> Labels] /\ last' \in [Sets -> {NoIP} \cup IP]
    BY <1>12 DEF TruncateLast, Goto, TypeOK, Labels
  <2>2. TypeOK'
    BY <1>12, <2>1 DEF TruncateLast, TypeOK
  <2> QED
    BY <1>12, <2>2 DEF TruncateLast, Goto, TypeOK, Frame, Control, IterOK, Target,
                       Reserving, Adding
<1>13. CASE WriteLast(a)
  <2>1. Target(a) \in IP /\ n[a] \in 1 .. Len(Ranges) /\ added[a]
    BY <1>13, SetsFacts DEF WriteLast, TypeOK, Control, Reserving, Adding
  <2>2. last' \in [Sets -> {NoIP} \cup IP] /\ UNCHANGED <<files, added>>
    BY <1>13, <2>1 DEF WriteLast, TypeOK
  <2>3. CASE /\ n[a] < Len(Ranges)
             /\ got'  = [got EXCEPT ![a] = @ \cup {Target(a)}]
             /\ n'    = [n EXCEPT ![a] = @ + 1]
             /\ want' = [want EXCEPT ![a] = NoIP]
             /\ iter' = [iter EXCEPT ![a] = NoIter]
             /\ Goto(a, "get")
             /\ Unlock(a)
             /\ UNCHANGED <<op, req, walk, held>>
    <3>1. got' \in [Att -> SUBSET IP]
      BY <2>1, <2>3 DEF TypeOK
    <3>2. n' \in [Att -> 0 .. Len(Ranges)]
      BY <2>1, <2>3, SetsFacts DEF TypeOK
    <3>3. want' \in [Att -> {NoIP} \cup IP] /\ iter' \in [Att -> IterType]
      <4>1. NoIter \in IterType
        BY DEF NoIter, IterType
      <4> QED
        BY <4>1, <2>3 DEF TypeOK
    <3>4. lock' \in SUBSET Att /\ pc' \in [Att -> Labels]
      BY <2>3 DEF Unlock, Goto, TypeOK, Labels
    <3>5. TypeOK'
      BY <2>2, <2>3, <3>1, <3>2, <3>3, <3>4 DEF TypeOK
    <3> QED
      BY <2>1, <2>2, <2>3, <3>5, SetsFacts DEF Goto, TypeOK, Frame, Control, Reserving, Adding
  <2>4. CASE Rollback(a, Len(Ranges)) /\ UNCHANGED held
    <3>1. /\ held' \in [Att -> SUBSET IP] /\ added' \in [Att -> BOOLEAN]
          /\ files' \in [IP -> Att \cup Cont \cup {NoFile, EmptyFile}]
          /\ Len(Ranges) \in 0 .. Len(Ranges)
      BY <2>2, <2>4, SetsFacts DEF TypeOK
    <3>2. TypeOK'
      BY <2>2, <2>4, <3>1, RollbackTypes
    <3>3. /\ Frame(a) /\ pc'[a] \in {"idle", "release"}
          /\ pc'[a] # "idle" => n'[a] >= 1
      BY <2>2, <2>4, <3>1, RollbackFrame
    <3> QED
      BY <3>2, <3>3 DEF Control, Reserving, Adding
  <2>5. CASE /\ held' = [held EXCEPT ![a] = @ \cup got[a] \cup {Target(a)}]
             /\ Exit(a)
    <3>1. /\ held' \in [Att -> SUBSET IP]
          /\ \A b \in Att \ {a} : held'[b] = held[b] /\ added'[b] = added[b]
      BY <2>1, <2>2, <2>5 DEF TypeOK
    <3>2. /\ added' \in [Att -> BOOLEAN]
          /\ files' \in [IP -> Att \cup Cont \cup {NoFile, EmptyFile}]
      BY <2>2 DEF TypeOK
    <3>3. TypeOK'
      BY <2>2, <2>5, <3>1, <3>2, ExitTypes
    <3>4. Frame(a) /\ pc'[a] = "idle"
      BY <2>5, <3>1, ExitFrame
    <3> QED
      BY <3>3, <3>4 DEF Control, Reserving, Adding
  <2> QED
    BY <1>13, <2>3, <2>4, <2>5 DEF WriteLast
<1>14. CASE WalkRemove(a)
  <2>1. files' \in [IP -> Att \cup Cont \cup {NoFile, EmptyFile}]
    BY <1>14 DEF WalkRemove, Matching, TypeOK
  <2>2. walk' \in [Att -> {"new", "found", "old"}]
    BY <1>14 DEF WalkRemove, TypeOK
  <2>3. TypeOK'
    BY <1>14, <2>1, <2>2 DEF WalkRemove, TypeOK
  <2> QED
    BY <1>14, <2>3 DEF WalkRemove, TypeOK, Frame, Control, Reserving, Adding
<1>15. CASE WalkEnd(a)
  <2>1. CASE /\ walk' = [walk EXCEPT ![a] = "old"]
             /\ UNCHANGED <<lock, pc, op, n, req, want, iter, got, added>>
    <3>1. TypeOK'
      <4>1. walk' \in [Att -> {"new", "found", "old"}]
        BY <2>1 DEF TypeOK
      <4> QED
        BY <1>15, <2>1, <4>1 DEF WalkEnd, TypeOK, store
    <3> QED
      BY <1>15, <2>1, <3>1 DEF WalkEnd, TypeOK, Frame, Control, Reserving, Adding
  <2>2. CASE /\ n[a] > 1
             /\ n' = [n EXCEPT ![a] = @ - 1]
             /\ Goto(a, "release")
             /\ Unlock(a)
             /\ UNCHANGED <<op, req, want, iter, got, walk, added>>
    <3>1. n' \in [Att -> 0 .. Len(Ranges)] /\ n'[a] >= 1
      BY <2>2, SetsFacts DEF TypeOK
    <3>2. lock' \in SUBSET Att /\ pc' \in [Att -> Labels]
      BY <2>2 DEF Unlock, Goto, TypeOK, Labels
    <3>3. TypeOK'
      BY <1>15, <2>2, <3>1, <3>2 DEF WalkEnd, TypeOK, store
    <3> QED
      BY <1>15, <2>2, <3>1, <3>3 DEF WalkEnd, Goto, TypeOK, Frame, Control, Reserving, Adding
  <2>3. CASE /\ added' = [added EXCEPT ![a] = IF op[a] = "del" THEN FALSE ELSE @]
             /\ Exit(a)
    <3>1. added' \in [Att -> BOOLEAN]
      BY <2>3 DEF TypeOK
    <3>2. \A b \in Att \ {a} : held'[b] = held[b] /\ added'[b] = added[b]
      BY <1>15, <2>3 DEF WalkEnd, TypeOK
    <3>3. /\ held' \in [Att -> SUBSET IP]
          /\ files' \in [IP -> Att \cup Cont \cup {NoFile, EmptyFile}]
          /\ last' \in [Sets -> {NoIP} \cup IP]
      BY <1>15 DEF WalkEnd, TypeOK, store
    <3>4. TypeOK'
      BY <2>3, <3>1, <3>3, ExitTypes
    <3>5. Frame(a) /\ pc'[a] = "idle"
      BY <2>3, <3>2, ExitFrame
    <3> QED
      BY <3>4, <3>5 DEF Control, Reserving, Adding
  <2> QED
    BY <1>15, <2>1, <2>2, <2>3 DEF WalkEnd
<1>16. CASE ReserveFails(a)
  <2>1. Target(a) \in IP /\ pc[a] # "idle"
    BY <1>16 DEF ReserveFails, Control, Reserving
  <2>2. files' \in [IP -> Att \cup Cont \cup {NoFile, EmptyFile}]
    BY <1>16, <2>1 DEF ReserveFails, TypeOK
  <2>3. last' \in [Sets -> {NoIP} \cup IP] /\ UNCHANGED <<held, added>> /\ GetFails(a)
    BY <1>16 DEF ReserveFails, TypeOK
  <2> QED
    BY <2>1, <2>2, <2>3, FailsFacts DEF Control, Reserving, Adding
<1>17. CASE Crash(a)
  <2>1. /\ held' \in [Att -> SUBSET IP] /\ added' \in [Att -> BOOLEAN]
        /\ files' \in [IP -> Att \cup Cont \cup {NoFile, EmptyFile}]
        /\ last' \in [Sets -> {NoIP} \cup IP]
        /\ \A b \in Att \ {a} : held'[b] = held[b] /\ added'[b] = added[b]
    BY <1>17 DEF Crash, TypeOK, store
  <2>2. TypeOK' /\ Frame(a) /\ pc'[a] = "idle"
    BY <1>17, <2>1, ExitTypes, ExitFrame DEF Crash
  <2> QED
    BY <2>2 DEF Control, Reserving, Adding
<1> QED
  BY <1>1, <1>2, <1>3, <1>4, <1>5, <1>6, <1>7, <1>8, <1>9, <1>10, <1>11, <1>12,
     <1>13, <1>14, <1>15, <1>16, <1>17 DEF Enter, Step

LEMMA CtlStep == CtlInv /\ [Next]_vars => CtlInv'
<1> SUFFICES ASSUME CtlInv, [Next]_vars PROVE CtlInv'
  OBVIOUS
<1>1. CASE Next
  <2>1. PICK a \in Att : \/ BeginAdd(a) \/ BeginDel(a) \/ Enter(a) \/ Step(a)
                         \/ ReserveFails(a) \/ Crash(a)
    BY <1>1 DEF Next
  <2>2. TypeOK' /\ Control(a)' /\ Frame(a)
    BY <2>1, StepFacts
  <2> QED
    BY <2>2, ControlFrame DEF CtlInv
<1>2. CASE UNCHANGED vars
  BY <1>2 DEF vars, store, proc, CtlInv, TypeOK, Control, IterOK, Target
<1> QED
  BY <1>1, <1>2

(***************************************************************************)
(* The host-local plugin's state always has its type: the iterator stays   *)
(* inside the range set and every file is one of a configured address,     *)
(* whatever crashes, failed locks and failed writes happen.                *)
(***************************************************************************)
THEOREM TypeCorrect == Spec => []TypeOK
<1>1. CtlInv => TypeOK
  BY DEF CtlInv
<1> QED
  BY CtlInit, CtlStep, <1>1, PTL DEF Spec

-----------------------------------------------------------------------------
(* The files.                                                              *)

Acts(a) == \/ BeginAdd(a) \/ BeginDel(a) \/ Enter(a) \/ Step(a)
           \/ ReserveFails(a) \/ Crash(a)

\* How a step of process a changes the file of an address: it creates it, it
\* writes or removes the one it created, or it releases one.
FileMove(a, ip) ==
    \/ files'[ip] = files[ip]
    \/ /\ pc[a] = "create" /\ ip = Target(a)
       /\ files[ip] = NoFile /\ files'[ip] = EmptyFile
    \/ /\ pc[a] = "write" /\ ip = Target(a)
       /\ files'[ip] \in {a, NoFile}
    \/ /\ pc[a] = "walk" /\ files[ip] \in {a, ContainerOf[a]}
       /\ files'[ip] = NoFile

LEMMA FileMoves ==
  ASSUME CtlInv, NEW a \in Att, Acts(a), NEW ip \in IP
  PROVE  FileMove(a, ip)
<1> USE DEF FileMove
<1>1. CASE Create(a)
  BY <1>1 DEF Create, CtlInv, TypeOK
<1>2. CASE WriteID(a)
  BY <1>2 DEF WriteID, CtlInv, TypeOK
<1>3. CASE WalkRemove(a)
  BY <1>3 DEF WalkRemove, Matching, CtlInv, TypeOK
<1>4. CASE ReserveFails(a)
  BY <1>4 DEF ReserveFails, CtlInv, TypeOK
<1>5. CASE ~(Create(a) \/ WriteID(a) \/ WalkRemove(a) \/ ReserveFails(a))
  <2>1. files' = files
    BY <1>5 DEF Acts, BeginAdd, BeginDel, Enter, EnterGet, EnterRelease, Step,
       TryRequested, TryAny, IterNext, Exhausted, CreateExists, TruncateLast,
       WriteLast, WalkEnd, Crash, store
  <2> QED
    BY <2>1
<1> QED
  BY <1>1, <1>2, <1>3, <1>4, <1>5

\* Only Create makes a process a writer.
LEMMA NewWriter ==
  ASSUME CtlInv, NEW a \in Att, Acts(a), pc'[a] = "write"
  PROVE  pc[a] = "create" /\ files[Target(a)] = NoFile /\ Target(a)' = Target(a)
<1>1. CASE GetFails(a) /\ pc[a] # "idle"
  <2>1. n[a] - 1 \in 0 .. Len(Ranges) /\ TypeOK
    BY <1>1, SetsFacts DEF CtlInv, Control, TypeOK
  <2>2. pc'[a] \in {"idle", "release"}
    BY <1>1, <2>1 DEF GetFails, Rollback, Exit, Goto, TypeOK
  <2> QED
    BY <2>2
<1>2. CASE Exit(a) \/ Rollback(a, Len(Ranges))
  BY <1>2 DEF Exit, Rollback, Goto, CtlInv, TypeOK
<1>3. CASE Create(a)
  BY <1>3 DEF Create, Target
<1>4. CASE ~Create(a) /\ ~Exit(a) /\ ~Rollback(a, Len(Ranges)) /\ ~(GetFails(a) /\ pc[a] # "idle")
  <2> USE <1>4 DEF CtlInv, TypeOK, Goto
  <2>1. ~BeginAdd(a) /\ ~BeginDel(a) /\ ~Crash(a)
    BY DEF BeginAdd, BeginDel, Crash
  <2>2. ~EnterGet(a) /\ ~EnterRelease(a)
    BY DEF EnterGet, EnterRelease
  <2>3. ~TryRequested(a) /\ ~TryAny(a) /\ ~IterNext(a) /\ ~Exhausted(a)
    BY DEF TryRequested, TryAny, IterNext, Exhausted
  <2>4. ~CreateExists(a) /\ ~WriteID(a) /\ ~TruncateLast(a) /\ ~ReserveFails(a)
    BY DEF CreateExists, WriteID, TruncateLast, ReserveFails
  <2>5. ~WriteLast(a)
    BY DEF WriteLast
  <2>6. ~WalkRemove(a) /\ ~WalkEnd(a)
    BY DEF WalkRemove, WalkEnd
  <2> QED
    BY <2>1, <2>2, <2>3, <2>4, <2>5, <2>6 DEF Acts, Enter, Step
<1> QED
  BY <1>1, <1>2, <1>3, <1>4

LEMMA OwnsOthers ==
  ASSUME CtlInv, OwnInv, NEW a \in Att, Acts(a), Frame(a), NEW b \in Att \ {a}
  PROVE  Owns(b)'
<1>1. ASSUME NEW ip \in IP, files[ip] = b PROVE files'[ip] = b
  BY <1>1, FileMoves, AttAssumption DEF FileMove, OwnInv, Owns
<1>2. ASSUME pc[b] = "write" PROVE files'[Target(b)] = files[Target(b)]
  <2>1. Target(b) \in IP /\ files[Target(b)] = EmptyFile
    BY <1>2 DEF CtlInv, Control, Reserving, OwnInv, Owns
  <2>2. ~(pc[a] = "write" /\ Target(b) = Target(a))
    BY <1>2 DEF OwnInv, WritersDiffer
  <2> QED
    BY <2>1, <2>2, FileMoves, AttAssumption DEF FileMove
<1>3. held[b] \subseteq IP /\ got[b] \subseteq IP
  BY DEF CtlInv, TypeOK
<1>4. pc[b] \in {"trunc", "last"} => Target(b) \in IP
  BY DEF CtlInv, Control, Reserving
<1> QED
  BY <1>1, <1>2, <1>3, <1>4 DEF Frame, Owns, OwnInv, Target

LEMMA WritersStep ==
  ASSUME CtlInv, OwnInv, NEW a \in Att, Acts(a), Frame(a)
  PROVE  WritersDiffer'
<1>1. ASSUME NEW b \in Att \ {a}, pc'[a] = "write", pc'[b] = "write"
      PROVE  Target(a)' # Target(b)'
  <2>1. files[Target(b)] = EmptyFile /\ Target(b)' = Target(b)
    BY <1>1 DEF Frame, OwnInv, Owns, Target
  <2> QED
    BY <1>1, <2>1, NewWriter, AttAssumption
<1>2. ASSUME NEW b \in Att \ {a}, NEW c \in Att \ {a}
      PROVE  /\ pc'[b] = pc[b] /\ Target(b)' = Target(b)
             /\ pc'[c] = pc[c] /\ Target(c)' = Target(c)
  BY <1>2 DEF Frame, Target
<1> QED
  BY <1>1, <1>2 DEF WritersDiffer, OwnInv

\* Process a keeps its own claims through its own steps.
LEMMA OwnsSelf ==
  ASSUME StrictRuntime, CtlInv, OwnInv, NEW a \in Att, Acts(a), Frame(a)
  PROVE  Owns(a)'
<1> USE DEF OwnInv, CtlInv
<1>1. Owns(a) /\ Control(a) /\ TypeOK
  OBVIOUS
<1>2. ASSUME GetFails(a), pc[a] # "idle", UNCHANGED <<held, added>>
      PROVE  Owns(a)'
  <2>1. n[a] - 1 \in 0 .. Len(Ranges)
    BY <1>2, SetsFacts DEF Control, TypeOK
  <2>2. pc'[a] \in {"idle", "release"} /\ got'[a] = {}
    BY <1>2, <2>1, RollbackFrame DEF GetFails
  <2>3. held'[a] = {}
    BY <1>2 DEF Owns
  <2> QED
    BY <2>2, <2>3 DEF Owns
<1>3. CASE BeginAdd(a)
  BY <1>3 DEF BeginAdd, Goto, Owns, TypeOK, store
<1>4. CASE BeginDel(a)
  BY <1>4 DEF BeginDel, Goto, Owns, TypeOK, store
<1>5. CASE EnterGet(a)
  BY <1>5 DEF EnterGet, Goto, Owns, TypeOK, store
<1>6. CASE EnterRelease(a)
  BY <1>6 DEF EnterRelease, Goto, Owns, TypeOK, store
<1>7. CASE TryRequested(a)
  BY <1>2, <1>7 DEF TryRequested, Goto, Owns, TypeOK, store
<1>8. CASE TryAny(a)
  BY <1>2, <1>8 DEF TryAny, Goto, Owns, TypeOK, store
<1>9. CASE IterNext(a)
  BY <1>9 DEF IterNext, Goto, Owns, TypeOK, store
<1>10. CASE Exhausted(a)
  BY <1>2, <1>10 DEF Exhausted
<1>11. CASE Create(a)
  <2>1. Target(a)' = Target(a) /\ Target(a) \in IP
    BY <1>11 DEF Create, Target, Control, Reserving
  <2>2. files'[Target(a)] = EmptyFile
    BY <1>11, <2>1 DEF Create, TypeOK
  <2>3. \A ip \in got[a] : files'[ip] = a
    BY <1>11, AttAssumption DEF Create, Owns, TypeOK
  <2>4. held[a] = {}
    BY <1>11 DEF Create, Owns
  <2> QED
    BY <1>11, <2>1, <2>2, <2>3, <2>4 DEF Create, Goto, Owns, TypeOK
<1>12. CASE CreateExists(a)
  BY <1>2, <1>12 DEF CreateExists, Goto, Owns, TypeOK, store
<1>13. CASE WriteID(a)
  <2>1. Target(a)' = Target(a) /\ Target(a) \in IP
    BY <1>13 DEF WriteID, Target, Control, Reserving
  <2>2. files'[Target(a)] = a
    BY <1>13, <2>1 DEF WriteID, TypeOK
  <2>3. \A ip \in got[a] : files'[ip] = a
    BY <1>13 DEF WriteID, Owns, TypeOK
  <2>4. held[a] = {}
    BY <1>13 DEF WriteID, Owns
  <2> QED
    BY <1>13, <2>1, <2>2, <2>3, <2>4 DEF WriteID, Goto, Owns, TypeOK
<1>14. CASE TruncateLast(a)
  BY <1>14 DEF TruncateLast, Goto, Target, Owns, TypeOK
<1>15. CASE WriteLast(a)
  <2>1. files[Target(a)] = a /\ files' = files /\ held[a] = {} /\ added' = added
    BY <1>15 DEF WriteLast, Owns
  <2>2. CASE /\ got'  = [got EXCEPT ![a] = @ \cup {Target(a)}]
             /\ Goto(a, "get") /\ UNCHANGED held
    BY <2>1, <2>2 DEF Goto, Owns, TypeOK
  <2>3. CASE Rollback(a, Len(Ranges)) /\ UNCHANGED held
    <3>1. pc'[a] \in {"idle", "release"} /\ got'[a] = {}
      BY <2>1, <2>3, SetsFacts, RollbackFrame
    <3> QED
      BY <2>1, <2>3, <3>1 DEF Owns
  <2>4. CASE held' = [held EXCEPT ![a] = @ \cup got[a] \cup {Target(a)}] /\ Exit(a)
    <3>1. added'[a]
      BY <1>15, <2>1 DEF WriteLast, Control, Adding, Reserving
    <3>2. pc'[a] = "idle" /\ got'[a] = {}
      BY <2>4 DEF Exit, TypeOK
    <3>3. held'[a] = got[a] \cup {Target(a)}
      BY <2>1, <2>4 DEF TypeOK
    <3> QED
      BY <2>1, <3>1, <3>2, <3>3 DEF Owns
  <2> QED
    BY <1>15, <2>2, <2>3, <2>4 DEF WriteLast
<1>16. CASE WalkRemove(a)
  BY <1>16 DEF WalkRemove, Owns, TypeOK
<1>17. CASE WalkEnd(a)
  <2>1. held'[a] = {} /\ got[a] = {}
    BY <1>17 DEF WalkEnd, Owns
  <2>2. got'[a] = {} /\ pc'[a] \in {"idle", "release", "walk"}
    BY <1>17, <2>1 DEF WalkEnd, Exit, Goto, TypeOK
  <2> QED
    BY <2>1, <2>2 DEF Owns
<1>18. CASE ReserveFails(a)
  BY <1>2, <1>18 DEF ReserveFails
<1>19. CASE Crash(a)
  <2>1. held'[a] = {} /\ got'[a] = {} /\ pc'[a] = "idle"
    BY <1>19 DEF Crash, Exit, Owns, TypeOK
  <2> QED
    BY <2>1 DEF Owns
<1> QED
  BY <1>3, <1>4, <1>5, <1>6, <1>7, <1>8, <1>9, <1>10, <1>11, <1>12, <1>13, <1>14,
     <1>15, <1>16, <1>17, <1>18, <1>19 DEF Acts, Enter, Step

LEMMA OwnInit == Init => OwnInv
  BY DEF Init, OwnInv, Owns, WritersDiffer

LEMMA OwnStep == StrictRuntime /\ CtlInv /\ OwnInv /\ [Next]_vars => OwnInv'
<1> SUFFICES ASSUME StrictRuntime, CtlInv, OwnInv, [Next]_vars PROVE OwnInv'
  OBVIOUS
<1>1. CASE Next
  <2>1. PICK a \in Att : Acts(a)
    BY <1>1 DEF Next, Acts
  <2>2. Frame(a)
    BY <2>1, StepFacts DEF Acts
  <2> QED
    BY <2>1, <2>2, OwnsSelf, OwnsOthers, WritersStep DEF OwnInv
<1>2. CASE UNCHANGED vars
  BY <1>2 DEF vars, store, proc, OwnInv, Owns, WritersDiffer, Target
<1> QED
  BY <1>1, <1>2

(***************************************************************************)
(* An address reported to an attachment stays reserved under its name      *)
(* until its DEL, for any number of processes, with crashes, failed locks  *)
(* and failed writes: Reserve's O_EXCL create is enough without the lock.  *)
(* It needs the runtime not to repeat an ADD before the DEL.               *)
(***************************************************************************)
THEOREM HeldStayReserved == StrictRuntime => (Spec => []HeldReserved)
<1> SUFFICES ASSUME StrictRuntime PROVE Spec => []HeldReserved
  OBVIOUS
<1>1. CtlInv /\ OwnInv /\ [Next]_vars => (CtlInv /\ OwnInv)'
  BY CtlStep, OwnStep
<1>2. OwnInv => HeldReserved
  BY DEF OwnInv, Owns, HeldReserved
<1> QED
  BY CtlInit, OwnInit, <1>1, <1>2, PTL DEF Spec

-----------------------------------------------------------------------------
(* Releases.                                                               *)

LEMMA DelInit == Init => DelInv
  BY AttAssumption DEF Init, DelInv, Forgets

LEMMA DelStep == ~IOMayFail /\ CtlInv /\ DelInv /\ [Next]_vars => DelInv'
<1> SUFFICES ASSUME ~IOMayFail, CtlInv, DelInv, [Next]_vars PROVE DelInv'
  OBVIOUS
<1>1. CASE Next
  <2>1. PICK a \in Att : Acts(a)
    BY <1>1 DEF Next, Acts
  <2>2. Frame(a)
    BY <2>1, StepFacts DEF Acts
  <2>3. ASSUME NEW b \in Att \ {a} PROVE Forgets(b)'
    BY <2>1, <2>2, <2>3, FileMoves, AttAssumption DEF DelInv, Forgets, Frame, FileMove
  <2>4. ASSUME pc[a] \notin Adding, \A ip \in IP : files[ip] # a, NEW ip \in IP
        PROVE  files'[ip] # a
    BY <2>1, <2>4, FileMoves, AttAssumption DEF FileMove, Adding, Reserving
  <2>5. CASE WalkEnd(a)
    <3>1. walk[a] \in {"new", "found"} => \A ip \in IP : files[ip] # a
      BY <2>5 DEF WalkEnd, Matching
    <3>2. walk[a] = "old" => \A ip \in IP : files[ip] # a
      BY <2>5 DEF WalkEnd, DelInv, Forgets
    <3>3. walk[a] \in {"new", "found", "old"} /\ files' = files
      BY <2>5 DEF WalkEnd, CtlInv, TypeOK, store
    <3> QED
      BY <2>3, <3>1, <3>2, <3>3 DEF DelInv, Forgets
  <2>6. CASE ~WalkEnd(a)
    <3>1. ~added'[a] => ~added[a]
      BY <2>1, <2>6 DEF Acts, BeginAdd, BeginDel, Enter, EnterGet, EnterRelease, Step,
         TryRequested, TryAny, IterNext, Exhausted, Create, CreateExists, WriteID,
         TruncateLast, WriteLast, WalkRemove, ReserveFails, Crash, CtlInv, TypeOK
    <3>2. pc'[a] = "walk" /\ walk'[a] = "old" => pc[a] = "walk" /\ walk[a] = "old"
      <4>1. CASE EnterRelease(a) \/ WalkRemove(a)
        BY <4>1 DEF EnterRelease, WalkRemove, CtlInv, TypeOK
      <4>2. CASE ~EnterRelease(a) /\ ~WalkRemove(a)
        <5>1. CASE GetFails(a) /\ pc[a] # "idle"
          BY <5>1 DEF GetFails, Rollback, Exit, Goto, CtlInv, TypeOK
        <5>2. CASE Exit(a) \/ Rollback(a, Len(Ranges))
          BY <5>2 DEF Exit, Rollback, Goto, CtlInv, TypeOK
        <5>3. CASE ~Exit(a) /\ ~Rollback(a, Len(Ranges)) /\ ~(GetFails(a) /\ pc[a] # "idle")
          BY <2>1, <2>6, <4>2, <5>3 DEF Acts, BeginAdd, BeginDel, Enter, EnterGet, Step,
             TryRequested, TryAny, IterNext, Exhausted, Create, CreateExists, WriteID,
             TruncateLast, WriteLast, ReserveFails, Crash, Goto, CtlInv, TypeOK
        <5> QED
          BY <5>1, <5>2, <5>3
      <4> QED
        BY <4>1, <4>2
    <3>3. ~added[a] \/ pc[a] = "walk" => pc[a] \notin Adding
      BY DEF CtlInv, Control, Adding, Reserving
    <3>4. Forgets(a)'
      BY <2>4, <3>1, <3>2, <3>3 DEF DelInv, Forgets
    <3> QED
      BY <2>3, <3>4 DEF DelInv
  <2> QED
    BY <2>5, <2>6
<1>2. CASE UNCHANGED vars
  BY <1>2 DEF vars, store, proc, DelInv, Forgets
<1> QED
  BY <1>1, <1>2

(***************************************************************************)
(* A DEL that succeeds leaves no file under the attachment's name, after   *)
(* any history of killed and failed ADDs, provided os.Remove works.        *)
(***************************************************************************)
THEOREM DelLeavesNothing == ~IOMayFail => (Spec => []DelForgets)
<1> SUFFICES ASSUME ~IOMayFail PROVE Spec => []DelForgets
  OBVIOUS
<1>1. CtlInv /\ DelInv /\ [Next]_vars => (CtlInv /\ DelInv)'
  BY CtlStep, DelStep
<1>2. DelInv => DelForgets
  BY DEF DelInv, Forgets, DelForgets
<1> QED
  BY CtlInit, DelInit, <1>1, <1>2, PTL DEF Spec

-----------------------------------------------------------------------------
(* The abstract pool.                                                      *)

\* The answer under construction: one allocatable address of each range set
\* done so far, none of the others, and the address tried is allocatable.
PickedIn(a) ==
    \A k \in Sets :
       IF k < n[a] THEN \E ip \in Allocatable[k] : got[a] \cap SetAddrs[k] = {ip}
       ELSE got[a] \cap SetAddrs[k] = {}

Picked(a) ==
    /\ pc[a] \in Adding => PickedIn(a)
    /\ pc[a] = "try" /\ want[a] # NoIP => want[a] \in SetAddrs[n[a]]
    /\ pc[a] \in Reserving => Target(a) \in Allocatable[n[a]]

PickInv == \A a \in Att : Picked(a)

LEMMA SetsDisjoint ==
  ASSUME NEW k \in Sets, NEW l \in Sets, k # l
  PROVE  SetAddrs[k] \cap SetAddrs[l] = {}
<1> SUFFICES ASSUME NEW ip, ip \in SetAddrs[k], ip \in SetAddrs[l]
             PROVE  FALSE
  OBVIOUS
<1>1. PICK i \in DOMAIN Ranges[k] : ip \in Addrs(Ranges[k][i])
  BY DEF SetAddrs
<1>2. PICK j \in DOMAIN Ranges[l] : ip \in Addrs(Ranges[l][j])
  BY DEF SetAddrs
<1>3. <<k, i>> # <<l, j>>
  OBVIOUS
<1> QED
  BY <1>1, <1>2, <1>3, RangesAssumption

LEMMA AllocatableInSet ==
  ASSUME NEW k \in Sets
  PROVE  Allocatable[k] \subseteq SetAddrs[k]
  BY DEF Allocatable, SetAddrs

\* Adding one more allocatable address completes the range set in turn.
LEMMA PickOne ==
  ASSUME NEW a \in Att, CtlInv, PickedIn(a), n[a] \in Sets,
         NEW ip \in Allocatable[n[a]], NEW k \in Sets
  PROVE  /\ k < n[a] + 1 => \E x \in Allocatable[k] : (got[a] \cup {ip}) \cap SetAddrs[k] = {x}
         /\ ~(k < n[a] + 1) => (got[a] \cup {ip}) \cap SetAddrs[k] = {}
<1>1. ip \in SetAddrs[n[a]]
  BY AllocatableInSet
<1>2. k # n[a] => ip \notin SetAddrs[k]
  BY <1>1, SetsDisjoint
<1>3. n[a] \in Nat /\ k \in Nat
  BY SetsFacts
<1>4. CASE k = n[a]
  <2>1. got[a] \cap SetAddrs[k] = {}
    BY <1>3, <1>4 DEF PickedIn
  <2>2. (got[a] \cup {ip}) \cap SetAddrs[k] = {ip}
    BY <1>1, <1>4, <2>1
  <2> QED
    BY <1>3, <1>4, <2>2
<1>5. CASE k # n[a]
  <2>1. (got[a] \cup {ip}) \cap SetAddrs[k] = got[a] \cap SetAddrs[k]
    BY <1>2, <1>5
  <2>2. k < n[a] + 1 <=> k < n[a]
    BY <1>3, <1>5
  <2> QED
    BY <2>1, <2>2 DEF PickedIn
<1> QED
  BY <1>4, <1>5

LEMMA PickFrame ==
  ASSUME NEW a \in Att, NEW b \in Att \ {a}, Frame(a), Picked(b)
  PROVE  Picked(b)'
  BY DEF Frame, Picked, PickedIn, Target

LEMMA PickSelf ==
  ASSUME CtlInv, OwnInv, NEW a \in Att, Acts(a), Picked(a)
  PROVE  Picked(a)'
<1> USE DEF CtlInv
<1>1. pc'[a] \notin Adding => Picked(a)'
  BY DEF Picked, Adding, Reserving
<1>n. pc[a] # "idle" => n[a] \in Sets
  BY SetsFacts DEF TypeOK, Control
<1>2. ASSUME GetFails(a), pc[a] # "idle" PROVE Picked(a)'
  <2>1. n[a] - 1 \in 0 .. Len(Ranges)
    BY <1>2, SetsFacts DEF Control, TypeOK
  <2>2. pc'[a] \in {"idle", "release"}
    BY <1>2, <2>1 DEF GetFails, Rollback, Exit, Goto, TypeOK
  <2> QED
    BY <2>2, <1>1 DEF Adding, Reserving
<1>3. CASE BeginAdd(a)
  <2>1. got'[a] = {} /\ n'[a] = 1 /\ pc'[a] = "get"
    BY <1>3 DEF BeginAdd, Goto, OwnInv, Owns, TypeOK
  <2> QED
    BY <2>1, SetsFacts DEF Picked, PickedIn, Reserving
<1>4. CASE BeginDel(a) \/ EnterRelease(a) \/ WalkRemove(a)
  <2>1. pc'[a] \in {"release", "walk"}
    BY <1>4 DEF BeginDel, EnterRelease, WalkRemove, Goto, TypeOK
  <2> QED
    BY <2>1, <1>1 DEF Adding, Reserving
<1>5. CASE EnterGet(a)
  <2>1. /\ pc'[a] = "try" /\ n' = n /\ got' = got /\ PickedIn(a)
        /\ want'[a] # NoIP => want'[a] \in SetAddrs[n[a]]
    BY <1>5 DEF EnterGet, Goto, TypeOK, Picked, Adding
  <2> QED
    BY <2>1 DEF Picked, PickedIn, Reserving
<1>7. CASE TryRequested(a)
  <2> DEFINE R == Ranges[n[a]]
             i == RangeFor(R, want[a])
  <2>1. CASE want[a] = R[i].gw
    BY <1>2, <1>7, <2>1 DEF TryRequested
  <2>2. CASE want[a] # R[i].gw
    <3>1. want[a] \in SetAddrs[n[a]] /\ PickedIn(a) /\ n[a] \in Sets
      BY <1>n, <1>7 DEF TryRequested, Picked, Adding
    <3>2. i \in DOMAIN R /\ want[a] \in Addrs(R[i])
      BY <3>1 DEF SetAddrs, RangeFor
    <3>3. want[a] \in Allocatable[n[a]]
      BY <2>2, <3>1, <3>2 DEF Allocatable
    <3>4. /\ pc'[a] = "create" /\ n' = n /\ got' = got
          /\ want' = want /\ want[a] # NoIP
      BY <1>7, <2>2 DEF TryRequested, Goto, TypeOK
    <3> QED
      BY <3>1, <3>3, <3>4 DEF Picked, PickedIn, Target
  <2> QED
    BY <2>1, <2>2
<1>8. CASE TryAny(a)
  <2>1. CASE GetFails(a)
    BY <1>2, <1>8, <2>1 DEF TryAny
  <2>2. CASE ~GetFails(a)
    <3>1. pc'[a] = "next" /\ n' = n /\ got' = got /\ PickedIn(a)
      BY <1>8, <2>2 DEF TryAny, Goto, TypeOK, Picked, Adding
    <3> QED
      BY <3>1 DEF Picked, PickedIn, Reserving
  <2> QED
    BY <2>1, <2>2
<1>9. CASE IterNext(a)
  <2> DEFINE R == Ranges[n[a]]
             nx == Advance(R, iter[a])
  <2>1. n[a] \in Sets /\ want[a] = NoIP /\ Placed(n[a], iter[a])
    BY <1>n, <1>9 DEF IterNext, Control, IterOK, Placed, TypeOK
  <2>2. Placed(n[a], nx) /\ nx.cur # NoIP
    BY <2>1, AdvancePlaced
  <2>3. /\ n' = n /\ got' = got /\ want' = want /\ PickedIn(a) /\ iter'[a] = nx
        /\ pc'[a] \in {"full", "next", "create"}
        /\ pc'[a] = "create" => ~AtGateway(R, nx)
    BY <1>9 DEF IterNext, Goto, TypeOK, Picked, Adding
  <2> HIDE DEF nx
  <2>4. pc'[a] = "create" => nx.cur \in Allocatable[n[a]]
    BY <2>1, <2>2, <2>3 DEF Placed, AtGateway, Allocatable
  <2> QED
    BY <2>1, <2>3, <2>4 DEF Picked, PickedIn, Target, Reserving
<1>10. CASE Exhausted(a)
  BY <1>2, <1>10 DEF Exhausted
<1>11. CASE Create(a) \/ WriteID(a) \/ TruncateLast(a)
  <2>1. /\ n' = n /\ got' = got /\ want' = want /\ iter' = iter
        /\ pc[a] \in Reserving /\ pc'[a] \in {"write", "trunc", "last"}
    BY <1>11 DEF Create, WriteID, TruncateLast, Goto, TypeOK, Reserving
  <2> QED
    BY <2>1 DEF Picked, PickedIn, Target, Reserving, Adding
<1>12. CASE CreateExists(a)
  <2>1. CASE GetFails(a)
    BY <1>2, <1>12, <2>1 DEF CreateExists
  <2>2. CASE ~GetFails(a)
    <3>1. pc'[a] = "next" /\ n' = n /\ got' = got /\ PickedIn(a)
      BY <1>12, <2>2 DEF CreateExists, Goto, TypeOK, Picked, Adding, Reserving
    <3> QED
      BY <3>1 DEF Picked, PickedIn, Reserving
  <2> QED
    BY <2>1, <2>2
<1>13. CASE WriteLast(a)
  <2>1. CASE /\ got'  = [got EXCEPT ![a] = @ \cup {Target(a)}]
             /\ n'    = [n EXCEPT ![a] = @ + 1]
             /\ Goto(a, "get")
    <3>1. PickedIn(a) /\ n[a] \in Sets /\ Target(a) \in Allocatable[n[a]]
      BY <1>n, <1>13 DEF WriteLast, Picked, Adding, Reserving
    <3>2. got'[a] = got[a] \cup {Target(a)} /\ n'[a] = n[a] + 1 /\ pc'[a] = "get"
      BY <2>1 DEF Goto, TypeOK
    <3>3. PickedIn(a)'
      BY <3>1, <3>2, PickOne DEF PickedIn
    <3> QED
      BY <3>2, <3>3 DEF Picked, Reserving
  <2>2. CASE Rollback(a, Len(Ranges)) \/ Exit(a)
    <3>1. pc'[a] \in {"idle", "release"}
      BY <2>2 DEF Rollback, Exit, Goto, TypeOK
    <3> QED
      BY <1>1, <3>1 DEF Adding, Reserving
  <2> QED
    BY <1>13, <2>1, <2>2 DEF WriteLast
<1>14. CASE WalkEnd(a)
  <2>1. pc'[a] \in {"idle", "release", "walk"}
    BY <1>14 DEF WalkEnd, Exit, Goto, TypeOK
  <2> QED
    BY <1>1, <2>1 DEF Adding, Reserving
<1>15. CASE ReserveFails(a)
  BY <1>2, <1>15 DEF ReserveFails
<1>16. CASE Crash(a)
  <2>1. pc'[a] = "idle"
    BY <1>16 DEF Crash, Exit, TypeOK
  <2> QED
    BY <1>1, <2>1 DEF Adding, Reserving
<1> QED
  BY <1>3, <1>4, <1>5, <1>7, <1>8, <1>9, <1>10, <1>11, <1>12, <1>13, <1>14,
     <1>15, <1>16 DEF Acts, Enter, Step

LEMMA PickInit == Init => PickInv
  BY DEF Init, PickInv, Picked, Adding, Reserving

LEMMA PickStep == CtlInv /\ OwnInv /\ PickInv /\ [Next]_vars => PickInv'
<1> SUFFICES ASSUME CtlInv, OwnInv, PickInv, [Next]_vars PROVE PickInv'
  OBVIOUS
<1>1. CASE Next
  <2>1. PICK a \in Att : Acts(a)
    BY <1>1 DEF Next, Acts
  <2>2. Frame(a)
    BY <2>1, StepFacts DEF Acts
  <2> QED
    BY <2>1, <2>2, PickSelf, PickFrame DEF PickInv
<1>2. CASE UNCHANGED vars
  BY <1>2 DEF vars, store, proc, PickInv, Picked, PickedIn, Target
<1> QED
  BY <1>1, <1>2

\* A step of process a is an Assign, a Revoke, or nothing to the pool.
LEMMA PoolStep ==
  ASSUME CtlInv, OwnInv, PickInv, NEW a \in Att, Acts(a)
  PROVE  Pool!Assign(a) \/ Pool!Revoke(a) \/ UNCHANGED held
<1> USE DEF CtlInv
<1>1. CASE BeginDel(a)
  BY <1>1 DEF BeginDel, Pool!Revoke
<1>2. CASE WriteLast(a) /\ held' # held
  <2> DEFINE S == got[a] \cup {Target(a)}
  <2>1. /\ pc[a] = "last" /\ n[a] = Len(Ranges)
        /\ held' = [held EXCEPT ![a] = @ \cup got[a] \cup {Target(a)}]
    BY <1>2 DEF WriteLast
  <2>2. held[a] = {} /\ \A ip \in S : files[ip] = a
    BY <2>1 DEF OwnInv, Owns
  <2>3. \A b \in Att : held[b] \cap S = {}
    BY <2>2 DEF OwnInv, Owns
  <2>4. n[a] \in Sets /\ PickedIn(a) /\ Target(a) \in Allocatable[n[a]]
    BY <2>1, SetsFacts DEF PickInv, Picked, Adding, Reserving
  <2>5. \A k \in Sets : \E ip \in Allocatable[k] : S \cap SetAddrs[k] = {ip}
    <3> SUFFICES ASSUME NEW k \in Sets
                 PROVE  \E ip \in Allocatable[k] : S \cap SetAddrs[k] = {ip}
      OBVIOUS
    <3>1. k < n[a] + 1
      BY <2>1, SetsFacts
    <3> QED
      BY <2>4, <3>1, PickOne
  <2>6. S \in SUBSET IP
    BY <2>1 DEF TypeOK, Control, Reserving
  <2>7. S \in Results
    BY <2>5, <2>6 DEF Results
  <2>8. held' = [held EXCEPT ![a] = S]
    BY <2>1, <2>2
  <2> QED
    BY <2>2, <2>3, <2>7, <2>8 DEF Pool!Assign
<1>3. CASE ~BeginDel(a) /\ ~WriteLast(a)
  BY <1>3 DEF Acts, BeginAdd, Enter, EnterGet, EnterRelease, Step, TryRequested,
     TryAny, IterNext, Exhausted, Create, CreateExists, WriteID, TruncateLast,
     WalkRemove, WalkEnd, ReserveFails, Crash
<1> QED
  BY <1>1, <1>2, <1>3

(***************************************************************************)
(* The plugin implements the abstract pool for any ranges, any number of   *)
(* processes, and any crashes, failed locks and failed writes: an ADD      *)
(* answers with one allocatable address of every range set, none of them   *)
(* held by anyone, and a DEL gives up all of them at once.                 *)
(***************************************************************************)
THEOREM ImplementsPool == StrictRuntime => (Spec => PoolSpec)
<1> SUFFICES ASSUME StrictRuntime PROVE Spec => PoolSpec
  OBVIOUS
<1> DEFINE Inv == CtlInv /\ OwnInv /\ PickInv
<1>1. Init => Inv
  BY CtlInit, OwnInit, PickInit
<1>2. Inv /\ [Next]_vars => Inv'
  BY CtlStep, OwnStep, PickStep
<1>3. Init => Pool!Init
  BY DEF Init, Pool!Init
<1>4. Inv /\ [Next]_vars => [Pool!Next]_held
  <2> SUFFICES ASSUME Inv, [Next]_vars PROVE [Pool!Next]_held
    OBVIOUS
  <2>1. CASE Next
    <3>1. PICK a \in Att : Acts(a)
      BY <2>1 DEF Next, Acts
    <3> QED
      BY <3>1, PoolStep DEF Pool!Next
  <2>2. CASE UNCHANGED vars
    BY <2>2 DEF vars
  <2> QED
    BY <2>1, <2>2
<1> QED
  BY <1>1, <1>2, <1>3, <1>4, PTL DEF Spec, PoolSpec, Pool!Spec

-----------------------------------------------------------------------------
(* The search for a free address, while the file lock works.               *)

\* The labels between Lock and Unlock.
Locked == {"try", "next", "full", "walk"} \cup Reserving

LockInv == \A a \in Att : pc[a] \in Locked => lock = {a}

\* GetIter's iterator, and the address that the first Next() makes of it.
FirstIter(a) == GetIter(Ranges[n[a]], last[n[a]])
FirstIP(a) == Advance(Ranges[n[a]], FirstIter(a)).cur

\* The search has left the first iterator behind, and all it met was taken.
Started(a) == iter[a].cur # NoIP /\ iter[a].startIP = FirstIP(a)
Passed(a) ==
    \A ip \in Between(n[a], last[n[a]], iter[a].cur) : files[ip] # NoFile
Dealt(a) == iter[a].cur \in Allocatable[n[a]] => files[iter[a].cur] # NoFile
AllTaken(a) == \A ip \in Allocatable[n[a]] : files[ip] # NoFile

Searches(a) ==
    /\ pc[a] = "next" => iter[a] = FirstIter(a) \/ (Started(a) /\ Passed(a) /\ Dealt(a))
    /\ pc[a] = "create" /\ want[a] = NoIP => Started(a) /\ Passed(a)
    /\ pc[a] = "write" /\ want[a] = NoIP => Passed(a)
    /\ pc[a] = "full" => AllTaken(a)

SearchInv == LockInv /\ \A a \in Att : Searches(a)

-----------------------------------------------------------------------------
(* The order of a range set's addresses.                                   *)

Rank(k, ip) == RangeFor(Ranges[k], ip)

LEMMA RankFacts ==
  ASSUME NEW k \in Sets, NEW ip \in SetAddrs[k]
  PROVE  /\ Rank(k, ip) \in 1 .. Len(Ranges[k]) /\ Rank(k, ip) \in Nat
         /\ ip \in Addrs(Ranges[k][Rank(k, ip)])
         /\ ip \in Nat /\ ip # NoIP
         /\ Ranges[k][Rank(k, ip)].start <= ip /\ ip <= Ranges[k][Rank(k, ip)].end
         /\ \A i \in DOMAIN Ranges[k] : ip \in Addrs(Ranges[k][i]) => i = Rank(k, ip)
<1>1. \E i \in DOMAIN Ranges[k] : ip \in Addrs(Ranges[k][i])
  BY DEF SetAddrs
<1>2. Rank(k, ip) \in DOMAIN Ranges[k] /\ ip \in Addrs(Ranges[k][Rank(k, ip)])
  BY <1>1 DEF Rank, RangeFor
<1>3. DOMAIN Ranges[k] = 1 .. Len(Ranges[k]) /\ Len(Ranges[k]) \in Nat
  BY SetFacts
<1>4. ASSUME NEW i \in DOMAIN Ranges[k], ip \in Addrs(Ranges[k][i]), i # Rank(k, ip)
      PROVE  FALSE
  <2>1. <<k, i>> # <<k, Rank(k, ip)>>
    BY <1>4
  <2>2. Addrs(Ranges[k][i]) \cap Addrs(Ranges[k][Rank(k, ip)]) = {}
    BY <1>2, <1>4, <2>1, RangesAssumption
  <2> QED
    BY <1>2, <1>4, <2>2
<1>5. ip \in IP
  BY DEF IP
<1>6. ip \in Nat /\ ip # NoIP
  BY <1>5, NilNotIP
<1>7. Ranges[k][Rank(k, ip)].start <= ip /\ ip <= Ranges[k][Rank(k, ip)].end
  BY <1>2, RangeFacts DEF Addrs
<1> QED
  BY <1>2, <1>3, <1>4, <1>6, <1>7

\* An address of range i ranks as i.
LEMMA RankIs ==
  ASSUME NEW k \in Sets, NEW i \in DOMAIN Ranges[k], NEW ip \in Addrs(Ranges[k][i])
  PROVE  ip \in SetAddrs[k] /\ Rank(k, ip) = i
<1>1. ip \in SetAddrs[k]
  BY RangeFacts
<1> QED
  BY <1>1, RankFacts

Bef(k, x, y) == Before(Ranges[k], x, y)

\* Before is a strict linear order.
LEMMA BeforeOrder ==
  ASSUME NEW k \in Sets, NEW x \in SetAddrs[k], NEW y \in SetAddrs[k], NEW z \in SetAddrs[k]
  PROVE  /\ ~Bef(k, x, x)
         /\ Bef(k, x, y) => ~Bef(k, y, x)
         /\ x = y \/ Bef(k, x, y) \/ Bef(k, y, x)
         /\ Bef(k, x, y) /\ Bef(k, y, z) => Bef(k, x, z)
<1> DEFINE p == Rank(k, x)
           q == Rank(k, y)
           r == Rank(k, z)
<1>1. p \in Nat /\ q \in Nat /\ r \in Nat /\ x \in Nat /\ y \in Nat /\ z \in Nat
  BY RankFacts
<1>2. /\ Bef(k, x, x) <=> (p < p \/ (p = p /\ x < x))
      /\ Bef(k, x, y) <=> (p < q \/ (p = q /\ x < y))
      /\ Bef(k, y, x) <=> (q < p \/ (q = p /\ y < x))
      /\ Bef(k, y, z) <=> (q < r \/ (q = r /\ y < z))
      /\ Bef(k, x, z) <=> (p < r \/ (p = r /\ x < z))
  BY DEF Bef, Before, Rank
<1> HIDE DEF p, q, r
<1> QED
  BY <1>1, <1>2

\* y is the address before w; or y is the last address and w the first one.
Follows(k, y, w) ==
    /\ Bef(k, y, w)
    /\ \A z \in SetAddrs[k] : Bef(k, z, w) => Bef(k, z, y) \/ z = y
Wraps(k, y, w) ==
    \A z \in SetAddrs[k] : /\ z = y \/ Bef(k, z, y)
                           /\ z = w \/ Bef(k, w, z)

LEMMA Modulo ==
  ASSUME NEW m \in Nat, NEW j \in 1 .. m
  PROVE  (j # m => j % m = j) /\ (j = m => j % m = 0)
<1>1. m \in Int /\ j \in Int /\ 0 < m
  OBVIOUS
<1>2. j # m => j % m = j
  BY <1>1, SMTT(30)
<1>3. m % m = 0
  BY <1>1, SMTT(30)
<1> QED
  BY <1>2, <1>3

\* What Next() makes of an iterator that has started.
LEMMA AdvanceFields ==
  ASSUME NEW k \in Sets, NEW it, Placed(k, it), it.cur # NoIP, NEW nx,
         nx = Advance(Ranges[k], it)
  PROVE  /\ it.cur = Ranges[k][it.rangeIdx].end
               => nx.cur = Ranges[k][(it.rangeIdx % Len(Ranges[k])) + 1].start
         /\ it.cur # Ranges[k][it.rangeIdx].end => nx.cur = it.cur + 1
         /\ nx.startIP = IF it.startIP = NoIP THEN nx.cur ELSE it.startIP
<1> DEFINE R == Ranges[k]
           r == R[it.rangeIdx]
           idx == IF it.cur = r.end THEN (it.rangeIdx % Len(R)) + 1 ELSE it.rangeIdx
           cur == IF it.cur = r.end THEN R[idx].start ELSE it.cur + 1
           st == IF it.startIP = NoIP THEN cur ELSE it.startIP
<1>1. nx = [it EXCEPT !.rangeIdx = idx, !.cur = cur, !.startIP = st]
  BY DEF Advance
<1>2. it \in [rangeIdx : Nat, cur : {NoIP} \cup IP, startIP : {NoIP} \cup IP, startRange : Nat]
  BY DEF Placed, IterType
<1> HIDE DEF idx, cur, st
<1>3. nx.cur = cur /\ nx.startIP = st
  BY <1>1, <1>2
<1> QED
  BY <1>3 DEF idx, cur, st

(***************************************************************************)
(* Next() goes to the following address, and from the last one to the      *)
(* first one.                                                              *)
(***************************************************************************)
LEMMA AdvanceOrder ==
  ASSUME NEW k \in Sets, NEW it, Placed(k, it), it.cur # NoIP, NEW w,
         w = Advance(Ranges[k], it).cur
  PROVE  /\ it.cur \in SetAddrs[k] /\ w \in SetAddrs[k]
         /\ Follows(k, it.cur, w) \/ Wraps(k, it.cur, w)
<1> DEFINE R == Ranges[k]
           i == it.rangeIdx
           y == it.cur
<1>1. i \in 1 .. Len(R) /\ Len(R) \in Nat /\ DOMAIN R = 1 .. Len(R) /\ Len(R) >= 1
  BY SetFacts DEF Placed
<1>2. y \in Addrs(R[i])
  BY DEF Placed
<1>3. y \in SetAddrs[k] /\ Rank(k, y) = i /\ y \in Nat
  BY <1>1, <1>2, RankIs, RankFacts
<1>4. /\ R[i].start \in Nat /\ R[i].end \in Nat /\ R[i].start <= y /\ y <= R[i].end
  BY <1>1, <1>2, <1>3, RangeFacts, RankFacts
<1>6. CASE y # R[i].end
  <2>1. w = y + 1
    BY <1>6, AdvanceFields
  <2>2. w \in Addrs(R[i])
    BY <1>3, <1>4, <1>6, <2>1 DEF Addrs
  <2>3. w \in SetAddrs[k] /\ Rank(k, w) = i
    BY <1>1, <2>2, RankIs
  <2>4. Bef(k, y, w)
    BY <1>3, <2>1, <2>3 DEF Bef, Before, Rank
  <2>5. ASSUME NEW z \in SetAddrs[k], Bef(k, z, w)
        PROVE  Bef(k, z, y) \/ z = y
    <3>1. z \in Nat /\ Rank(k, z) \in Nat
      BY RankFacts
    <3>2. Rank(k, z) < i \/ (Rank(k, z) = i /\ z < y + 1)
      BY <2>1, <2>3, <2>5 DEF Bef, Before, Rank
    <3>3. Rank(k, z) < i \/ (Rank(k, z) = i /\ z < y) \/ z = y
      BY <1>3, <3>1, <3>2
    <3> QED
      BY <1>3, <3>3 DEF Bef, Before, Rank
  <2> QED
    BY <1>3, <2>3, <2>4, <2>5 DEF Follows
<1>7. CASE y = R[i].end /\ i # Len(R)
  <2>1. (i % Len(R)) + 1 = i + 1 /\ i + 1 \in DOMAIN R
    <3>1. i % Len(R) = i
      BY <1>1, <1>7, Modulo
    <3> QED
      BY <1>1, <1>7, <3>1
  <2>2. w = R[i + 1].start
    <3>1. w = R[(i % Len(R)) + 1].start
      BY <1>7, AdvanceFields
    <3> QED
      BY <2>1, <3>1
  <2>3. w \in Addrs(R[i + 1])
    BY <2>1, <2>2, RangeFacts DEF Addrs
  <2>4. w \in SetAddrs[k] /\ Rank(k, w) = i + 1
    BY <2>1, <2>3, RankIs
  <2>5. Bef(k, y, w)
    BY <1>1, <1>3, <2>4 DEF Bef, Before, Rank
  <2>6. ASSUME NEW z \in SetAddrs[k], Bef(k, z, w)
        PROVE  Bef(k, z, y) \/ z = y
    <3>1. /\ z \in Nat /\ Rank(k, z) \in Nat
          /\ R[Rank(k, z)].start <= z /\ z <= R[Rank(k, z)].end
      BY RankFacts
    <3>2. Rank(k, z) < i + 1 \/ (Rank(k, z) = i + 1 /\ z < R[i + 1].start)
      BY <2>2, <2>4, <2>6 DEF Bef, Before, Rank
    <3>3. R[i + 1].start \in Nat
      BY <2>1, RangeFacts
    <3>4. Rank(k, z) < i \/ (Rank(k, z) = i /\ z <= y)
      BY <1>1, <1>7, <3>1, <3>2, <3>3
    <3>5. Rank(k, z) < i \/ (Rank(k, z) = i /\ z < y) \/ z = y
      BY <1>3, <3>1, <3>4
    <3> QED
      BY <1>3, <3>5 DEF Bef, Before, Rank
  <2> QED
    BY <1>3, <2>4, <2>5, <2>6 DEF Follows
<1>8. CASE y = R[i].end /\ i = Len(R)
  <2>1. (i % Len(R)) + 1 = 1 /\ 1 \in DOMAIN R
    <3>1. i % Len(R) = 0
      BY <1>1, <1>8, Modulo
    <3> QED
      BY <1>1, <3>1
  <2>2. w = R[1].start
    <3>1. w = R[(i % Len(R)) + 1].start
      BY <1>8, AdvanceFields
    <3> QED
      BY <2>1, <3>1
  <2>3. w \in Addrs(R[1])
    BY <2>1, <2>2, RangeFacts DEF Addrs
  <2>4. w \in SetAddrs[k] /\ Rank(k, w) = 1 /\ w \in Nat
    BY <2>1, <2>3, RankIs, RankFacts
  <2>5. ASSUME NEW z \in SetAddrs[k]
        PROVE  (z = y \/ Bef(k, z, y)) /\ (z = w \/ Bef(k, w, z))
    <3>1. /\ z \in Nat /\ Rank(k, z) \in 1 .. Len(R) /\ Rank(k, z) \in Nat
          /\ R[Rank(k, z)].start <= z /\ z <= R[Rank(k, z)].end
      BY RankFacts
    <3>2. Rank(k, z) < i \/ (Rank(k, z) = i /\ z < y) \/ z = y
      <4>1. CASE Rank(k, z) = i
        BY <1>3, <1>4, <1>8, <3>1, <4>1
      <4>2. CASE Rank(k, z) # i
        BY <1>1, <1>8, <3>1, <4>2
      <4> QED
        BY <4>1, <4>2
    <3>3. 1 < Rank(k, z) \/ (1 = Rank(k, z) /\ w < z) \/ z = w
      <4>1. CASE Rank(k, z) = 1
        BY <2>2, <2>4, <3>1, <4>1
      <4>2. CASE Rank(k, z) # 1
        BY <1>1, <3>1, <4>2
      <4> QED
        BY <4>1, <4>2
    <3> QED
      BY <1>3, <2>4, <3>2, <3>3 DEF Bef, Before, Rank
  <2> QED
    BY <1>3, <2>4, <2>5 DEF Wraps
<1> QED
  BY <1>1, <1>6, <1>7, <1>8

-----------------------------------------------------------------------------
(* The way of a search.                                                    *)

LEMMA InSet ==
  ASSUME NEW k \in Sets, NEW x
  PROVE  Contains(Ranges[k], x) <=> x \in SetAddrs[k]
  BY DEF Contains, SetAddrs

\* The addresses passed on the way from x to y, in terms of Bef.
LEMMA BetweenIs ==
  ASSUME NEW k \in Sets, NEW x, NEW y, NEW z
  PROVE  /\ Allocatable[k] \subseteq SetAddrs[k]
         /\ x \notin SetAddrs[k] =>
               (z \in Between(k, x, y) <=> z \in Allocatable[k] /\ Bef(k, z, y))
         /\ x \in SetAddrs[k] /\ Bef(k, x, y) =>
               (z \in Between(k, x, y)
                  <=> z \in Allocatable[k] /\ Bef(k, x, z) /\ Bef(k, z, y))
         /\ x \in SetAddrs[k] /\ ~Bef(k, x, y) =>
               (z \in Between(k, x, y)
                  <=> z \in Allocatable[k] /\ z # y /\ (Bef(k, x, z) \/ Bef(k, z, y)))
  BY AllocatableInSet, InSet DEF Between, Bef

(***************************************************************************)
(* One more move passes at most the address it leaves; a search that is    *)
(* back at its start begins anew.                                          *)
(***************************************************************************)
LEMMA BetweenGrows ==
  ASSUME NEW k \in Sets, NEW x, NEW y \in SetAddrs[k], NEW w \in SetAddrs[k],
         Follows(k, y, w) \/ Wraps(k, y, w), NEW z \in Between(k, x, w)
  PROVE  /\ y # x
         /\ z = y \/ z \in Between(k, x, y)
<1>1. z \in Allocatable[k] /\ z \in SetAddrs[k]
  BY AllocatableInSet DEF Between
<1>2. CASE x \notin SetAddrs[k]
  <2>1. Bef(k, z, w)
    BY <1>2, BetweenIs
  <2>2. z = y \/ Bef(k, z, y)
    BY <1>1, <2>1, BeforeOrder DEF Follows, Wraps
  <2> QED
    BY <1>1, <1>2, <2>2, BetweenIs
<1>3. CASE x \in SetAddrs[k] /\ Follows(k, y, w)
  <2>0. Bef(k, y, w) /\ (Bef(k, z, w) => Bef(k, z, y) \/ z = y) /\ (Bef(k, x, w) => Bef(k, x, y) \/ x = y)
    BY <1>1, <1>3 DEF Follows
  <2>1. CASE Bef(k, x, w)
    <3>1. Bef(k, x, z) /\ Bef(k, z, w)
      BY <1>3, <2>1, BetweenIs
    <3>2. Bef(k, z, y) \/ z = y
      BY <2>0, <3>1
    <3>3. y # x
      BY <1>1, <1>3, <3>1, <3>2, BeforeOrder
    <3>4. Bef(k, x, y)
      BY <2>0, <2>1, <3>3
    <3> QED
      BY <1>1, <1>3, <3>1, <3>2, <3>3, <3>4, BetweenIs
  <2>2. CASE ~Bef(k, x, w)
    <3>1. z # w /\ (Bef(k, x, z) \/ Bef(k, z, w))
      BY <1>3, <2>2, BetweenIs
    <3>2. y # x
      BY <2>0, <2>2
    <3>3. ~Bef(k, x, y)
      BY <1>3, <2>0, <2>2, BeforeOrder
    <3>4. z = y \/ (z # y /\ (Bef(k, x, z) \/ Bef(k, z, y)))
      BY <2>0, <3>1
    <3> QED
      BY <1>1, <1>3, <3>2, <3>3, <3>4, BetweenIs
  <2> QED
    BY <2>1, <2>2
<1>4. CASE x \in SetAddrs[k] /\ Wraps(k, y, w)
  <2>0. /\ z = y \/ Bef(k, z, y)
        /\ z = w \/ Bef(k, w, z)
        /\ x = y \/ Bef(k, x, y)
        /\ x = w \/ Bef(k, w, x)
    BY <1>1, <1>4 DEF Wraps
  <2>1. ~Bef(k, x, w) /\ ~Bef(k, z, w)
    BY <1>1, <1>4, <2>0, BeforeOrder
  <2>2. z # w /\ Bef(k, x, z)
    BY <1>4, <2>1, BetweenIs
  <2>3. y # x
    BY <1>1, <1>4, <2>0, <2>2, BeforeOrder
  <2>4. Bef(k, x, y)
    BY <2>0, <2>3
  <2> QED
    BY <1>1, <1>4, <2>0, <2>2, <2>3, <2>4, BetweenIs
<1> QED
  BY <1>2, <1>3, <1>4

\* Nothing lies before the first address.
LEMMA BetweenStart ==
  ASSUME NEW k \in Sets, NEW x, x \notin SetAddrs[k]
  PROVE  /\ Ranges[k][1].start \in SetAddrs[k]
         /\ \A z \in SetAddrs[k] : z = Ranges[k][1].start \/ Bef(k, Ranges[k][1].start, z)
         /\ Between(k, x, Ranges[k][1].start) = {}
<1> DEFINE R == Ranges[k]
           f == R[1].start
<1>1. 1 \in DOMAIN R /\ f \in Addrs(R[1])
  BY SetFacts, RangeFacts DEF Addrs
<1>2. f \in SetAddrs[k] /\ Rank(k, f) = 1 /\ f \in Nat
  BY <1>1, RankIs, RankFacts
<1>3. ASSUME NEW z \in SetAddrs[k] PROVE z = f \/ Bef(k, f, z)
  <2>1. /\ z \in Nat /\ Rank(k, z) \in 1 .. Len(R) /\ Rank(k, z) \in Nat
        /\ R[Rank(k, z)].start <= z
    BY RankFacts
  <2>2. 1 < Rank(k, z) \/ (1 = Rank(k, z) /\ f < z) \/ z = f
    <3>1. CASE Rank(k, z) = 1
      BY <1>2, <2>1, <3>1
    <3>2. CASE Rank(k, z) # 1
      BY <2>1, <3>2
    <3> QED
      BY <3>1, <3>2
  <2> QED
    BY <1>2, <2>2 DEF Bef, Before, Rank
<1>4. ASSUME NEW z \in Between(k, x, f) PROVE FALSE
  <2>1. z \in SetAddrs[k] /\ Bef(k, z, f)
    BY <1>4, BetweenIs
  <2> QED
    BY <1>2, <1>3, <2>1, BeforeOrder
<1> QED
  BY <1>2, <1>3, <1>4

(***************************************************************************)
(* Moves that arrive at the same address left the same address.            *)
(***************************************************************************)
LEMMA MovesInjective ==
  ASSUME NEW k \in Sets, NEW x \in SetAddrs[k], NEW y \in SetAddrs[k], NEW w \in SetAddrs[k],
         Follows(k, x, w) \/ Wraps(k, x, w), Follows(k, y, w) \/ Wraps(k, y, w)
  PROVE  x = y
<1>1. CASE Follows(k, x, w) /\ Follows(k, y, w)
  BY <1>1, BeforeOrder DEF Follows
<1>2. CASE Wraps(k, x, w) /\ Wraps(k, y, w)
  BY <1>2, BeforeOrder DEF Wraps
<1>3. CASE (Follows(k, x, w) /\ Wraps(k, y, w)) \/ (Wraps(k, x, w) /\ Follows(k, y, w))
  BY <1>3, BeforeOrder DEF Follows, Wraps
<1> QED
  BY <1>1, <1>2, <1>3

(***************************************************************************)
(* The first Next() starts the round right after the last reserved         *)
(* address, or at the first address, and passes nothing.                   *)
(***************************************************************************)
LEMMA FirstMove ==
  ASSUME NEW k \in Sets, NEW l, NEW it, it = GetIter(Ranges[k], l),
         NEW nx, nx = Advance(Ranges[k], it)
  PROVE  /\ ~LoopedBack(Ranges[k], it)
         /\ nx.startIP = nx.cur /\ nx.cur \in SetAddrs[k]
         /\ Between(k, l, nx.cur) = {}
         /\ l \in SetAddrs[k] => Follows(k, l, nx.cur) \/ Wraps(k, l, nx.cur)
         /\ l \notin SetAddrs[k] => nx.cur = Ranges[k][1].start
<1> DEFINE R == Ranges[k]
<1>1. Placed(k, it)
  BY GetIterPlaced
<1>2. CASE l \in SetAddrs[k]
  <2>1. Contains(R, l) /\ l # NoIP
    BY <1>2, InSet, RankFacts
  <2>2. it = [rangeIdx |-> RangeFor(R, l), cur |-> l, startIP |-> NoIP,
              startRange |-> RangeFor(R, l)]
    BY <2>1 DEF GetIter, NoIter
  <2>3. it.cur = l /\ it.startIP = NoIP
    BY <2>2
  <2>4. ~LoopedBack(R, it)
    BY <2>3 DEF LoopedBack
  <2>5. nx.startIP = nx.cur
    BY <1>1, <2>1, <2>3, AdvanceFields
  <2>6. nx.cur \in SetAddrs[k] /\ (Follows(k, l, nx.cur) \/ Wraps(k, l, nx.cur))
    BY <1>1, <2>1, <2>3, AdvanceOrder
  <2>7. Between(k, l, nx.cur) = {}
    BY <1>2, <2>6, BetweenGrows
  <2> QED
    BY <1>2, <2>4, <2>5, <2>6, <2>7
<1>3. CASE l \notin SetAddrs[k]
  <2>1. ~Contains(R, l)
    BY <1>3, InSet
  <2>2. it = [rangeIdx |-> 1, cur |-> NoIP, startIP |-> R[1].start, startRange |-> 1]
    BY <2>1 DEF GetIter, NoIter
  <2>3. nx = [it EXCEPT !.cur = R[1].start, !.startIP = R[1].start]
    BY <2>2 DEF Advance
  <2>4. nx.cur = R[1].start /\ nx.startIP = R[1].start
    BY <2>2, <2>3
  <2>5. ~LoopedBack(R, it)
    BY <2>2 DEF LoopedBack
  <2> QED
    BY <1>3, <2>4, <2>5, BetweenStart
<1> QED
  BY <1>2, <1>3

(***************************************************************************)
(* Every later Next() keeps the start, and passes only the address it      *)
(* leaves; when it comes back to the start it has passed every address.    *)
(***************************************************************************)
LEMMA LaterMove ==
  ASSUME NEW k \in Sets, NEW l, NEW it, Placed(k, it), it.cur # NoIP,
         it.startIP = Advance(Ranges[k], GetIter(Ranges[k], l)).cur,
         NEW nx, nx = Advance(Ranges[k], it)
  PROVE  /\ nx.startIP = it.startIP
         /\ \A z \in Between(k, l, nx.cur) : z = it.cur \/ z \in Between(k, l, it.cur)
         /\ LoopedBack(Ranges[k], it) =>
               \A z \in Allocatable[k] : z = it.cur \/ z \in Between(k, l, it.cur)
<1> DEFINE y == it.cur
           w == nx.cur
           f == it.startIP
<1>1. /\ f \in SetAddrs[k]
      /\ l \in SetAddrs[k] => Follows(k, l, f) \/ Wraps(k, l, f)
      /\ l \notin SetAddrs[k] => f = Ranges[k][1].start
  BY FirstMove
<1>2. f # NoIP
  BY <1>1, RankFacts
<1>3. nx.startIP = f
  BY <1>2, AdvanceFields
<1>4. y \in SetAddrs[k] /\ w \in SetAddrs[k] /\ (Follows(k, y, w) \/ Wraps(k, y, w))
  BY AdvanceOrder
<1>5. \A z \in Between(k, l, w) : z = y \/ z \in Between(k, l, y)
  BY <1>4, BetweenGrows
<1>6. ASSUME LoopedBack(Ranges[k], it), NEW z \in Allocatable[k]
      PROVE  z = y \/ z \in Between(k, l, y)
  <2>1. w = f
    BY <1>3, <1>6 DEF LoopedBack
  <2>2. z \in SetAddrs[k]
    BY AllocatableInSet
  <2>3. CASE l \in SetAddrs[k]
    <3>1. l = y
      BY <1>1, <1>4, <2>1, <2>3, MovesInjective
    <3>2. ~Bef(k, y, y) /\ (z = y \/ Bef(k, y, z) \/ Bef(k, z, y))
      BY <1>4, <2>2, BeforeOrder
    <3> QED
      BY <1>4, <2>2, <3>1, <3>2, BetweenIs
  <2>4. CASE l \notin SetAddrs[k]
    <3>1. y = f \/ Bef(k, f, y)
      BY <1>1, <1>4, <2>4, BetweenStart
    <3>2. ~Follows(k, y, f)
      BY <1>1, <1>4, <3>1, BeforeOrder DEF Follows
    <3>3. z = y \/ Bef(k, z, y)
      BY <1>4, <2>1, <2>2, <3>2 DEF Wraps
    <3> QED
      BY <2>4, <3>3, BetweenIs
  <2> QED
    BY <2>3, <2>4
<1> QED
  BY <1>3, <1>5, <1>6

\* A gateway that Next() skips is not an address it may return.
LEMMA GatewayOut ==
  ASSUME NEW k \in Sets, NEW it, Placed(k, it), it.cur # NoIP, AtGateway(Ranges[k], it)
  PROVE  it.cur \notin Allocatable[k]
<1> SUFFICES ASSUME it.cur \in Allocatable[k] PROVE FALSE
  OBVIOUS
<1>1. PICK i \in DOMAIN Ranges[k] : it.cur \in Addrs(Ranges[k][i]) /\ it.cur # Ranges[k][i].gw
  BY DEF Allocatable
<1>2. it.rangeIdx \in DOMAIN Ranges[k] /\ it.cur \in Addrs(Ranges[k][it.rangeIdx])
  BY DEF Placed
<1>3. i = it.rangeIdx
  BY <1>1, <1>2, RankIs
<1> QED
  BY <1>1, <1>3 DEF AtGateway

-----------------------------------------------------------------------------
(* The lock.                                                               *)

\* Outside the lock a step leaves the store alone; inside, it keeps the lock.
LEMMA LockMoves ==
  ASSUME CtlInv, NEW a \in Att, Acts(a), ~LockMayFail
  PROVE  /\ pc[a] \notin Locked =>
               /\ UNCHANGED <<files, last>>
               /\ lock' = lock \/ (lock = {} /\ lock' = {a}) \/ lock' = lock \ {a}
               /\ pc'[a] \in Locked => lock' = {a} /\ pc'[a] \in {"try", "walk"}
         /\ pc[a] \in Locked => (pc'[a] \in Locked => lock' = lock)
<1> USE DEF CtlInv
<1>1. ASSUME GetFails(a), pc[a] # "idle" PROVE pc'[a] \in {"idle", "release"}
  <2>1. n[a] - 1 \in 0 .. Len(Ranges)
    BY <1>1, SetsFacts DEF Control, TypeOK
  <2> QED
    BY <1>1, <2>1 DEF GetFails, Rollback, Exit, Goto, TypeOK
<1>2. CASE BeginAdd(a) \/ BeginDel(a)
  BY <1>2 DEF BeginAdd, BeginDel, Goto, TypeOK, Locked, Reserving, store
<1>3. CASE Enter(a)
  BY <1>3 DEF Enter, EnterGet, EnterRelease, Lock, Goto, TypeOK, Locked, Reserving, store
<1>4. CASE Crash(a)
  BY <1>4 DEF Crash, Exit, Unlock, TypeOK, Locked, Reserving, store
<1>5. CASE ReserveFails(a)
  BY <1>1, <1>5 DEF ReserveFails, Locked, Reserving
<1>6. CASE TryRequested(a)
  BY <1>1, <1>6 DEF TryRequested, Locked, Reserving
<1>7. CASE TryAny(a)
  BY <1>1, <1>7 DEF TryAny, Locked, Reserving
<1>8. CASE Exhausted(a)
  BY <1>1, <1>8 DEF Exhausted, Locked, Reserving
<1>9. CASE CreateExists(a)
  BY <1>1, <1>9 DEF CreateExists, Locked, Reserving
<1>10. CASE IterNext(a) \/ Create(a) \/ WriteID(a) \/ TruncateLast(a) \/ WalkRemove(a)
  BY <1>10 DEF IterNext, Create, WriteID, TruncateLast, WalkRemove, Locked, Reserving
<1>11. CASE WriteLast(a)
  <2>1. pc'[a] \in {"get", "release", "idle"} /\ pc[a] = "last"
    BY <1>11 DEF WriteLast, Rollback, Exit, Goto, TypeOK
  <2> QED
    BY <2>1 DEF Locked, Reserving
<1>12. CASE WalkEnd(a)
  <2>1. pc[a] = "walk" /\ (lock' = lock \/ pc'[a] \in {"release", "idle"})
    BY <1>12 DEF WalkEnd, Exit, Goto, TypeOK
  <2> QED
    BY <2>1 DEF Locked, Reserving
<1> QED
  BY <1>2, <1>3, <1>4, <1>5, <1>6, <1>7, <1>8, <1>9, <1>10, <1>11, <1>12
     DEF Acts, Step

LEMMA LockStep ==
  ASSUME CtlInv, LockInv, ~LockMayFail, NEW a \in Att, Acts(a)
  PROVE  LockInv'
<1> SUFFICES ASSUME NEW b \in Att, pc'[b] \in Locked PROVE lock' = {b}
  BY DEF LockInv, Locked, Reserving
<1>1. Frame(a)
  BY StepFacts DEF Acts
<1>2. CASE b = a
  BY <1>2, LockMoves DEF LockInv
<1>3. CASE b # a
  <2>1. pc[b] \in Locked /\ lock = {b}
    BY <1>1, <1>3 DEF Frame, LockInv
  <2>2. pc[a] \notin Locked
    BY <1>3, <2>1 DEF LockInv
  <2>3. lock' = lock \/ (lock = {} /\ lock' = {a}) \/ lock' = lock \ {a}
    BY <2>2, LockMoves
  <2> QED
    BY <1>3, <2>1, <2>3
<1> QED
  BY <1>2, <1>3

-----------------------------------------------------------------------------
(* The search.                                                             *)

\* Nobody disturbs the search of the process that holds the lock.
LEMMA SearchFrame ==
  ASSUME CtlInv, LockInv, ~LockMayFail, NEW a \in Att, Acts(a),
         NEW b \in Att \ {a}, Searches(b)
  PROVE  Searches(b)'
<1>1. Frame(a)
  BY StepFacts DEF Acts
<1>2. CASE pc[b] \in Locked
  <2>1. pc[a] \notin Locked
    BY <1>2 DEF LockInv
  <2>2. UNCHANGED <<files, last>>
    BY <2>1, LockMoves
  <2> QED
    BY <1>1, <2>2 DEF Searches, Started, Passed, Dealt, AllTaken, FirstIP, FirstIter, Frame
<1>3. CASE pc[b] \notin Locked
  BY <1>1, <1>3 DEF Searches, Frame, Locked, Reserving
<1> QED
  BY <1>2, <1>3

LEMMA SearchSelf ==
  ASSUME CtlInv, NEW a \in Att, Acts(a), Searches(a)
  PROVE  Searches(a)'
<1> USE DEF CtlInv
<1>1. pc'[a] \notin {"next", "create", "write", "full"} => Searches(a)'
  BY DEF Searches
<1>2. ASSUME GetFails(a), pc[a] # "idle" PROVE Searches(a)'
  <2>1. n[a] - 1 \in 0 .. Len(Ranges)
    BY <1>2, SetsFacts DEF Control, TypeOK
  <2>2. pc'[a] \in {"idle", "release"}
    BY <1>2, <2>1 DEF GetFails, Rollback, Exit, Goto, TypeOK
  <2> QED
    BY <1>1, <2>2
<1>3. CASE BeginAdd(a) \/ BeginDel(a) \/ Enter(a) \/ WalkRemove(a)
  <2>1. pc'[a] \in {"get", "release", "try", "walk"}
    BY <1>3 DEF BeginAdd, BeginDel, Enter, EnterGet, EnterRelease, WalkRemove, Goto, TypeOK
  <2> QED
    BY <1>1, <2>1
<1>4. CASE TryRequested(a)
  <2>1. GetFails(a) \/ (pc'[a] = "create" /\ want'[a] # NoIP)
    BY <1>4 DEF TryRequested, Goto, TypeOK
  <2> QED
    BY <1>2, <1>4, <2>1 DEF Searches, TryRequested
<1>5. CASE TryAny(a)
  <2>1. CASE GetFails(a)
    BY <1>2, <1>5, <2>1 DEF TryAny
  <2>2. CASE ~GetFails(a)
    <3>1. pc'[a] = "next" /\ n' = n /\ last' = last /\ iter'[a] = FirstIter(a)
      BY <1>5, <2>2 DEF TryAny, Goto, TypeOK, FirstIter, store
    <3> QED
      BY <3>1 DEF Searches, FirstIter
  <2> QED
    BY <2>1, <2>2
<1>6. CASE IterNext(a)
  <2>1. /\ n[a] \in Sets /\ Placed(n[a], iter[a]) /\ want[a] = NoIP
    BY <1>6, SetsFacts DEF IterNext, Control, IterOK, Placed, TypeOK
  <2> DEFINE k == n[a]
             R == Ranges[k]
             l == last[k]
             it == iter[a]
             nx == Advance(R, it)
  <2>2. /\ n' = n /\ files' = files /\ last' = last /\ want' = want /\ iter'[a] = nx
        /\ pc'[a] = IF LoopedBack(R, it) THEN "full"
                    ELSE IF AtGateway(R, nx) THEN "next" ELSE "create"
    BY <1>6 DEF IterNext, Goto, TypeOK, store
  <2>3. Placed(k, nx) /\ nx.cur # NoIP
    BY <2>1, AdvancePlaced
  <2>4. FirstIP(a)' = FirstIP(a) /\ FirstIP(a) = Advance(R, GetIter(R, l)).cur
    BY <2>2 DEF FirstIP, FirstIter
  <2>5. it = FirstIter(a) \/ (Started(a) /\ Passed(a) /\ Dealt(a))
    BY <1>6 DEF IterNext, Searches
  <2>6. /\ nx.startIP = FirstIP(a)
        /\ \A z \in Between(k, l, nx.cur) : files[z] # NoFile
        /\ LoopedBack(R, it) => \A z \in Allocatable[k] : files[z] # NoFile
    <3>1. CASE it = FirstIter(a)
      <4>1. it = GetIter(R, l)
        BY <3>1 DEF FirstIter
      <4>2. /\ ~LoopedBack(R, it) /\ nx.startIP = nx.cur /\ Between(k, l, nx.cur) = {}
        <5>1. k \in Sets /\ it = GetIter(Ranges[k], l) /\ nx = Advance(Ranges[k], it)
          BY <2>1, <4>1
        <5> HIDE DEF k, l, it, nx
        <5> QED
          BY <5>1, FirstMove
      <4>3. nx.cur = FirstIP(a)
        BY <2>4, <4>1
      <4> QED
        BY <4>2, <4>3
    <3>2. CASE Started(a) /\ Passed(a) /\ Dealt(a)
      <4>1. it.cur # NoIP /\ it.startIP = Advance(R, GetIter(R, l)).cur
        BY <2>4, <3>2 DEF Started
      <4>2. /\ nx.startIP = it.startIP
            /\ \A z \in Between(k, l, nx.cur) : z = it.cur \/ z \in Between(k, l, it.cur)
            /\ LoopedBack(R, it) =>
                  \A z \in Allocatable[k] : z = it.cur \/ z \in Between(k, l, it.cur)
        BY <2>1, <4>1, LaterMove
      <4>3. \A z \in Allocatable[k] : z = it.cur \/ z \in Between(k, l, it.cur)
                => files[z] # NoFile
        BY <3>2 DEF Passed, Dealt
      <4>4. \A z \in Between(k, l, nx.cur) : z \in Allocatable[k]
        BY DEF Between
      <4> HIDE DEF nx
      <4> QED
        BY <2>4, <4>1, <4>2, <4>3, <4>4
    <3> QED
      BY <2>5, <3>1, <3>2
  <2>7. AtGateway(R, nx) => nx.cur \notin Allocatable[k]
    BY <2>1, <2>3, GatewayOut
  <2> HIDE DEF nx
  <2>8. Started(a)' /\ Passed(a)'
    BY <2>2, <2>3, <2>4, <2>6 DEF Started, Passed
  <2>9. AtGateway(R, nx) => Dealt(a)'
    BY <2>2, <2>7 DEF Dealt
  <2>10. LoopedBack(R, it) => AllTaken(a)'
    BY <2>2, <2>6 DEF AllTaken
  <2> QED
    BY <2>2, <2>8, <2>9, <2>10 DEF Searches
<1>7. CASE Exhausted(a)
  BY <1>2, <1>7 DEF Exhausted
<1>8. CASE Create(a)
  <2>1. /\ n' = n /\ last' = last /\ iter' = iter /\ want' = want
        /\ pc[a] = "create" /\ pc'[a] = "write"
        /\ files' = [files EXCEPT ![Target(a)] = EmptyFile]
    BY <1>8 DEF Create, Goto, TypeOK
  <2>2. \A ip \in IP : files[ip] # NoFile => files'[ip] # NoFile
    BY <2>1, AttAssumption DEF TypeOK
  <2>3. n[a] \in Sets
    BY <2>1, SetsFacts DEF Control, TypeOK
  <2>4. Between(n[a], last[n[a]], iter[a].cur) \subseteq IP
    BY <2>3, AllocatableInSet DEF Between, IP
  <2>5. Passed(a) => Passed(a)'
    BY <2>1, <2>2, <2>4 DEF Passed
  <2> QED
    BY <2>1, <2>5 DEF Searches
<1>9. CASE CreateExists(a)
  <2>1. CASE GetFails(a)
    BY <1>2, <1>9, <2>1 DEF CreateExists
  <2>2. CASE ~GetFails(a)
    <3>1. /\ n' = n /\ last' = last /\ iter' = iter /\ files' = files
          /\ want[a] = NoIP /\ pc[a] = "create" /\ pc'[a] = "next"
          /\ files[iter[a].cur] # NoFile
      BY <1>9, <2>2 DEF CreateExists, Goto, TypeOK, Target, store
    <3>2. Started(a)' /\ Passed(a)' /\ Dealt(a)'
      BY <3>1 DEF Searches, Started, Passed, Dealt, FirstIP, FirstIter
    <3> QED
      BY <3>1, <3>2 DEF Searches
  <2> QED
    BY <2>1, <2>2
<1>10. CASE WriteID(a) \/ TruncateLast(a)
  <2>1. pc'[a] \in {"trunc", "last"}
    BY <1>10 DEF WriteID, TruncateLast, Goto, TypeOK
  <2> QED
    BY <1>1, <2>1
<1>11. CASE WriteLast(a)
  <2>1. pc'[a] \in {"get", "release", "idle"}
    BY <1>11 DEF WriteLast, Rollback, Exit, Goto, TypeOK
  <2> QED
    BY <1>1, <2>1
<1>12. CASE WalkEnd(a)
  <2>1. pc'[a] \in {"walk", "release", "idle"}
    BY <1>12 DEF WalkEnd, Exit, Goto, TypeOK
  <2> QED
    BY <1>1, <2>1
<1>13. CASE ReserveFails(a)
  BY <1>2, <1>13 DEF ReserveFails
<1>14. CASE Crash(a)
  <2>1. pc'[a] = "idle"
    BY <1>14 DEF Crash, Exit, TypeOK
  <2> QED
    BY <1>1, <2>1
<1> QED
  BY <1>3, <1>4, <1>5, <1>6, <1>7, <1>8, <1>9, <1>10, <1>11, <1>12, <1>13, <1>14
     DEF Acts, Step

LEMMA SearchInit == Init => SearchInv
  BY DEF Init, SearchInv, LockInv, Searches, Locked, Reserving

LEMMA SearchStep == ~LockMayFail /\ CtlInv /\ SearchInv /\ [Next]_vars => SearchInv'
<1> SUFFICES ASSUME ~LockMayFail, CtlInv, SearchInv, [Next]_vars PROVE SearchInv'
  OBVIOUS
<1>1. CASE Next
  <2>1. PICK a \in Att : Acts(a)
    BY <1>1 DEF Next, Acts
  <2>2. LockInv'
    BY <2>1, LockStep DEF SearchInv
  <2>3. \A b \in Att : Searches(b)'
    BY <2>1, SearchSelf, SearchFrame DEF SearchInv
  <2> QED
    BY <2>2, <2>3 DEF SearchInv
<1>2. CASE UNCHANGED vars
  BY <1>2 DEF vars, store, proc, SearchInv, LockInv, Searches, Started, Passed, Dealt,
     AllTaken, FirstIP, FirstIter
<1> QED
  BY <1>1, <1>2

(***************************************************************************)
(* Get says "no IP addresses available" only when the range set is full,   *)
(* for every range set, number of processes, last_reserved_ip, and with    *)
(* crashes and failed writes: GetIter and Next() pass every address but    *)
(* the gateways.  It takes the lock, without which an address may be       *)
(* released behind the search.                                             *)
(***************************************************************************)
THEOREM FullMeansFull == ~LockMayFail => (Spec => []FullIsFull)
<1> SUFFICES ASSUME ~LockMayFail PROVE Spec => []FullIsFull
  OBVIOUS
<1>1. CtlInv /\ SearchInv /\ [Next]_vars => (CtlInv /\ SearchInv)'
  BY CtlStep, SearchStep
<1>2. SearchInv => FullIsFull
  BY DEF SearchInv, Searches, AllTaken, FullIsFull
<1> QED
  BY CtlInit, SearchInit, <1>1, <1>2, PTL DEF Spec

(***************************************************************************)
(* The search hands out the first free address after the last reserved     *)
(* one, around the end of the range set, on the same terms.                *)
(***************************************************************************)
THEOREM SearchGoesRound == ~LockMayFail => (Spec => []RoundRobin)
<1> SUFFICES ASSUME ~LockMayFail PROVE Spec => []RoundRobin
  OBVIOUS
<1>1. CtlInv /\ SearchInv /\ [Next]_vars => (CtlInv /\ SearchInv)'
  BY CtlStep, SearchStep
<1>2. SearchInv => RoundRobin
  BY DEF SearchInv, Searches, Passed, RoundRobin
<1> QED
  BY CtlInit, SearchInit, <1>1, <1>2, PTL DEF Spec
=============================================================================
