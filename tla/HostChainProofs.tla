-------------------------- MODULE HostChainProofs --------------------------
(***************************************************************************)
(* Proofs about the plugins that change the host, for any attachments,     *)
(* lists of plugins, port mappings and limits, with failing calls and      *)
(* kills.                                                                  *)
(***************************************************************************)
EXTENDS HostChain, SequenceTheorems, WellFoundedInduction, TLAPS

-----------------------------------------------------------------------------
(* Sequences, of whatever.                                                 *)

IsSeq(s) == s \in Seq(ToSet(s))

\* Every element of s in K has an element in I before it.
First(s, I, K) ==
    \A j \in DOMAIN s : s[j] \in K => \E i \in DOMAIN s : i < j /\ s[i] \in I

\* Every non-empty set of naturals has a least element.
LEMMA LeastNat ==
  ASSUME NEW T \in SUBSET Nat, T # {}
  PROVE  \E x \in T : \A y \in T : x <= y
<1> DEFINE R == {ss \in Nat \X Nat : ss[1] < ss[2]}
<1>1. R = OpToRel(<, Nat)
  BY DEF OpToRel
<1>2. IsWellFoundedOn(R, Nat)
  BY <1>1, NatLessThanWellFounded
<1> HIDE DEF R
<1>3. PICK x \in T : \A y \in T : ~(<<y, x>> \in R)
  BY <1>2, WFMin
<1>4. \A y \in T : ~(y < x)
  BY <1>3 DEF R
<1> QED
  BY <1>4

LEMMA SeqSet ==
  ASSUME NEW S, NEW s \in Seq(S)
  PROVE  /\ IsSeq(s) /\ ToSet(s) \subseteq S
         /\ Len(s) \in Nat /\ DOMAIN s = 1 .. Len(s)
<1>1. Len(s) \in Nat /\ DOMAIN s = 1 .. Len(s) /\ \A i \in 1 .. Len(s) : s[i] \in S
  BY LenProperties, ElementOfSeq
<1>2. \A i \in 1 .. Len(s) : s[i] \in ToSet(s)
  BY <1>1 DEF ToSet
<1>3. s = [i \in 1 .. Len(s) |-> s[i]]
  BY <1>1
<1>4. s \in Seq(ToSet(s))
  BY <1>1, <1>2, <1>3
<1> QED
  BY <1>1, <1>4 DEF IsSeq, ToSet

LEMMA SeqFacts ==
  ASSUME NEW s, IsSeq(s)
  PROVE  /\ Len(s) \in Nat /\ DOMAIN s = 1 .. Len(s)
         /\ \A i \in 1 .. Len(s) : s[i] \in ToSet(s)
         /\ \A x : x \in ToSet(s) <=> \E i \in 1 .. Len(s) : s[i] = x
         /\ s = <<>> <=> ToSet(s) = {}
         /\ s = <<>> <=> Len(s) = 0
<1>1. Len(s) \in Nat /\ DOMAIN s = 1 .. Len(s) /\ \A i \in 1 .. Len(s) : s[i] \in ToSet(s)
  BY LenProperties, ElementOfSeq DEF IsSeq
<1>2. s = <<>> <=> Len(s) = 0
  BY EmptySeq DEF IsSeq
<1>3. \A x : x \in ToSet(s) <=> \E i \in 1 .. Len(s) : s[i] = x
  BY <1>1 DEF ToSet
<1>4. s = <<>> <=> ToSet(s) = {}
  <2>1. CASE Len(s) = 0
    BY <1>1, <1>2, <1>3, <2>1
  <2>2. CASE Len(s) # 0
    <3>1. 1 \in 1 .. Len(s)
      BY <1>1, <2>2
    <3> QED
      BY <1>1, <1>2, <2>2, <3>1
  <2> QED
    BY <2>1, <2>2
<1> QED
  BY <1>1, <1>2, <1>3, <1>4

LEMMA HasSeq ==
  ASSUME NEW s, IsSeq(s), NEW x
  PROVE  Contains(s, x) <=> x \in ToSet(s)
BY SeqFacts DEF Contains

\* A function on 1 .. n is a sequence.
LEMMA FunSeq ==
  ASSUME NEW n \in Nat, NEW s, s = [i \in 1 .. n |-> s[i]]
  PROVE  /\ IsSeq(s) /\ Len(s) = n /\ DOMAIN s = 1 .. n
         /\ ToSet(s) = {s[i] : i \in 1 .. n}
<1> DEFINE S == {s[i] : i \in 1 .. n}
<1>1. \A i \in 1 .. n : s[i] \in S
  OBVIOUS
<1>2. s \in Seq(S) /\ Len(s) = n /\ DOMAIN s = 1 .. n
  BY <1>1, LenProperties
<1>3. ToSet(s) = S
  BY <1>2 DEF ToSet
<1> QED
  BY <1>2, <1>3 DEF IsSeq

\* A function on the domain of a sequence is one.
LEMMA LikeSeq ==
  ASSUME NEW d, IsSeq(d), NEW s, s = [i \in DOMAIN d |-> s[i]]
  PROVE  /\ IsSeq(s) /\ Len(s) = Len(d) /\ DOMAIN s = DOMAIN d
         /\ ToSet(s) = {s[i] : i \in DOMAIN d}
<1>1. Len(d) \in Nat /\ DOMAIN d = 1 .. Len(d)
  BY SeqFacts
<1>2. s = [i \in 1 .. Len(d) |-> s[i]]
  BY <1>1
<1>3. /\ IsSeq(s) /\ Len(s) = Len(d) /\ DOMAIN s = 1 .. Len(d)
      /\ ToSet(s) = {s[i] : i \in 1 .. Len(d)}
  BY <1>1, <1>2, FunSeq
<1> QED
  BY <1>1, <1>3

LEMMA OneSeq ==
  ASSUME NEW x
  PROVE  IsSeq(<<x>>) /\ ToSet(<<x>>) = {x} /\ Len(<<x>>) = 1 /\ <<x>>[1] = x /\ DOMAIN <<x>> = {1}
<1>1. DOMAIN <<x>> = {1} /\ <<x>>[1] = x /\ Len(<<x>>) = 1
  OBVIOUS
<1>2. ToSet(<<x>>) = {x}
  BY <1>1 DEF ToSet
<1> QED
  BY <1>1, <1>2 DEF IsSeq

LEMMA ThreeSeq ==
  ASSUME NEW x, NEW y, NEW z
  PROVE  IsSeq(<<x, y, z>>) /\ ToSet(<<x, y, z>>) = {x, y, z}
<1> DEFINE s == <<x, y, z>>
<1>1. /\ s \in Seq({x, y, z}) /\ Len(s) = 3 /\ DOMAIN s = 1 .. 3
      /\ s[1] = x /\ s[2] = y /\ s[3] = z
  OBVIOUS
<1> HIDE DEF s
<1>2. IsSeq(s) /\ ToSet(s) \subseteq {x, y, z}
  BY <1>1, SeqSet
<1>3. s[1] \in ToSet(s) /\ s[2] \in ToSet(s) /\ s[3] \in ToSet(s)
  BY <1>1 DEF ToSet
<1>4. IsSeq(s) /\ ToSet(s) = {x, y, z}
  BY <1>1, <1>2, <1>3
<1> QED
  BY <1>4 DEF s

LEMMA FourSeq ==
  ASSUME NEW w, NEW x, NEW y, NEW z
  PROVE  IsSeq(<<w, x, y, z>>) /\ ToSet(<<w, x, y, z>>) = {w, x, y, z}
<1> DEFINE s == <<w, x, y, z>>
<1>1. /\ s \in Seq({w, x, y, z}) /\ Len(s) = 4 /\ DOMAIN s = 1 .. 4
      /\ s[1] = w /\ s[2] = x /\ s[3] = y /\ s[4] = z
  OBVIOUS
<1> HIDE DEF s
<1>2. IsSeq(s) /\ ToSet(s) \subseteq {w, x, y, z}
  BY <1>1, SeqSet
<1>3. s[1] \in ToSet(s) /\ s[2] \in ToSet(s) /\ s[3] \in ToSet(s) /\ s[4] \in ToSet(s)
  BY <1>1 DEF ToSet
<1>4. IsSeq(s) /\ ToSet(s) = {w, x, y, z}
  BY <1>1, <1>2, <1>3
<1> QED
  BY <1>4 DEF s

LEMMA NoSeq ==
  IsSeq(<<>>) /\ ToSet(<<>>) = {} /\ \A I, K : First(<<>>, I, K)
BY DEF IsSeq, ToSet, First

LEMMA ConcatSeq ==
  ASSUME NEW s, NEW t, IsSeq(s), IsSeq(t)
  PROVE  /\ IsSeq(s \o t) /\ ToSet(s \o t) = ToSet(s) \cup ToSet(t)
         /\ Len(s \o t) = Len(s) + Len(t)
         /\ DOMAIN (s \o t) = 1 .. (Len(s) + Len(t))
         /\ \A i \in 1 .. (Len(s) + Len(t)) :
               (s \o t)[i] = IF i <= Len(s) THEN s[i] ELSE t[i - Len(s)]
<1> DEFINE S == ToSet(s) \cup ToSet(t)
<1>1. s \in Seq(S) /\ t \in Seq(S)
  BY SeqMonotonic DEF IsSeq
<1>2. /\ s \o t \in Seq(S) /\ Len(s \o t) = Len(s) + Len(t)
      /\ \A i \in 1 .. (Len(s) + Len(t)) :
            (s \o t)[i] = IF i <= Len(s) THEN s[i] ELSE t[i - Len(s)]
  BY <1>1, ConcatProperties
<1>3. IsSeq(s \o t) /\ ToSet(s \o t) \subseteq S /\ DOMAIN (s \o t) = 1 .. (Len(s) + Len(t))
  BY <1>2, SeqSet
<1>4. ASSUME NEW x \in S PROVE x \in ToSet(s \o t)
  <2>0. Len(s) \in Nat /\ Len(t) \in Nat
    BY SeqFacts
  <2>1. CASE x \in ToSet(s)
    <3>1. PICK i \in 1 .. Len(s) : s[i] = x
      BY <2>1, SeqFacts
    <3>2. i \in 1 .. (Len(s) + Len(t)) /\ (s \o t)[i] = x
      BY <1>2, <2>0, <3>1
    <3> QED
      BY <1>3, <3>2 DEF ToSet
  <2>2. CASE x \in ToSet(t)
    <3>1. PICK i \in 1 .. Len(t) : t[i] = x
      BY <2>2, SeqFacts
    <3>2. i + Len(s) \in 1 .. (Len(s) + Len(t)) /\ ~(i + Len(s) <= Len(s)) /\ (i + Len(s)) - Len(s) = i
      BY <2>0, <3>1
    <3>3. (s \o t)[i + Len(s)] = x
      BY <1>2, <3>1, <3>2
    <3> QED
      BY <1>3, <3>2, <3>3 DEF ToSet
  <2> QED
    BY <2>1, <2>2
<1> QED
  BY <1>2, <1>3, <1>4

LEMMA ConcatFirst ==
  ASSUME NEW s, NEW t, IsSeq(s), IsSeq(t), NEW I, NEW K, First(s, I, K),
         First(t, I, K) \/ ToSet(s) \cap I # {}
  PROVE  First(s \o t, I, K)
<1>1. Len(s) \in Nat /\ Len(t) \in Nat /\ DOMAIN s = 1 .. Len(s) /\ DOMAIN t = 1 .. Len(t)
  BY SeqFacts
<1>2. /\ DOMAIN (s \o t) = 1 .. (Len(s) + Len(t))
      /\ \A i \in 1 .. (Len(s) + Len(t)) :
            (s \o t)[i] = IF i <= Len(s) THEN s[i] ELSE t[i - Len(s)]
  BY ConcatSeq
<1> SUFFICES ASSUME NEW j \in 1 .. (Len(s) + Len(t)), (s \o t)[j] \in K
             PROVE  \E i \in 1 .. (Len(s) + Len(t)) : i < j /\ (s \o t)[i] \in I
  BY <1>2 DEF First
<1>3. CASE j <= Len(s)
  <2>1. j \in DOMAIN s /\ s[j] \in K
    BY <1>1, <1>2, <1>3
  <2>2. PICK i \in DOMAIN s : i < j /\ s[i] \in I
    BY <2>1 DEF First
  <2>3. i \in 1 .. (Len(s) + Len(t)) /\ i <= Len(s)
    BY <1>1, <2>2
  <2>4. (s \o t)[i] = s[i]
    BY <1>2, <2>3
  <2> QED
    BY <2>2, <2>3, <2>4
<1>4. CASE ~(j <= Len(s)) /\ ToSet(s) \cap I # {}
  <2>1. PICK i \in 1 .. Len(s) : s[i] \in I
    BY <1>4, SeqFacts
  <2>2. i \in 1 .. (Len(s) + Len(t)) /\ i <= Len(s) /\ i < j
    BY <1>1, <1>4, <2>1
  <2>3. (s \o t)[i] = s[i]
    BY <1>2, <2>2
  <2> QED
    BY <2>1, <2>2, <2>3
<1>5. CASE ~(j <= Len(s)) /\ First(t, I, K)
  <2>1. j - Len(s) \in DOMAIN t /\ t[j - Len(s)] \in K
    BY <1>1, <1>2, <1>5
  <2>2. PICK i \in DOMAIN t : i < j - Len(s) /\ t[i] \in I
    BY <1>5, <2>1 DEF First
  <2>3. /\ i + Len(s) \in 1 .. (Len(s) + Len(t)) /\ i + Len(s) < j
        /\ ~(i + Len(s) <= Len(s)) /\ (i + Len(s)) - Len(s) = i
    BY <1>1, <2>2
  <2>4. (s \o t)[i + Len(s)] = t[i]
    BY <1>2, <2>3
  <2> QED
    BY <2>2, <2>3, <2>4
<1> QED
  BY <1>3, <1>4, <1>5

LEMMA TailSeq ==
  ASSUME NEW s, IsSeq(s), s # <<>>
  PROVE  /\ IsSeq(Tail(s)) /\ ToSet(s) = {Head(s)} \cup ToSet(Tail(s))
         /\ Head(s) = s[1] /\ Len(s) >= 1 /\ DOMAIN Tail(s) = 1 .. (Len(s) - 1)
         /\ \A i \in 1 .. (Len(s) - 1) : Tail(s)[i] = s[i + 1]
         /\ s = <<Head(s)>> \o Tail(s)
<1>1. /\ Tail(s) \in Seq(ToSet(s)) /\ Head(s) = s[1] /\ Len(Tail(s)) = Len(s) - 1
      /\ \A i \in 1 .. (Len(s) - 1) : Tail(s)[i] = s[i + 1]
      /\ s = <<Head(s)>> \o Tail(s)
  BY EmptySeq, HeadTailProperties, ConcatSimplifications DEF IsSeq
<1>2. IsSeq(Tail(s)) /\ DOMAIN Tail(s) = 1 .. (Len(s) - 1)
  BY <1>1, SeqSet
<1>3. ToSet(s) = {Head(s)} \cup ToSet(Tail(s))
  <2>1. IsSeq(<<Head(s)>>) /\ ToSet(<<Head(s)>>) = {Head(s)}
    BY OneSeq
  <2>2. ToSet(<<Head(s)>> \o Tail(s)) = ToSet(<<Head(s)>>) \cup ToSet(Tail(s))
    BY <1>2, <2>1, ConcatSeq
  <2> QED
    BY <1>1, <2>1, <2>2
<1>4. Len(s) >= 1
  BY SeqFacts
<1> QED
  BY <1>1, <1>2, <1>3, <1>4

\* The order of the elements, when the first one is done or becomes another.
LEMMA TailFirst ==
  ASSUME NEW s, IsSeq(s), s # <<>>, NEW I, NEW K, First(s, I, K)
  PROVE  /\ Head(s) \notin K
         /\ Head(s) \notin I => First(Tail(s), I, K)
         /\ \A x : (Head(s) \in I => x \in I) /\ (x \notin K) => First(<<x>> \o Tail(s), I, K)
<1>1. /\ IsSeq(Tail(s)) /\ Head(s) = s[1] /\ Len(s) \in Nat /\ Len(s) >= 1
      /\ DOMAIN s = 1 .. Len(s) /\ DOMAIN Tail(s) = 1 .. (Len(s) - 1)
      /\ \A i \in 1 .. (Len(s) - 1) : Tail(s)[i] = s[i + 1]
  BY TailSeq, SeqFacts
<1>2. Head(s) \notin K
  BY <1>1 DEF First
<1>3. ASSUME Head(s) \notin I PROVE First(Tail(s), I, K)
  <2> SUFFICES ASSUME NEW j \in 1 .. (Len(s) - 1), Tail(s)[j] \in K
               PROVE  \E i \in 1 .. (Len(s) - 1) : i < j /\ Tail(s)[i] \in I
    BY <1>1 DEF First
  <2>1. j + 1 \in DOMAIN s /\ s[j + 1] \in K
    BY <1>1
  <2>2. PICK i \in DOMAIN s : i < j + 1 /\ s[i] \in I
    BY <2>1 DEF First
  <2>3. i # 1
    BY <1>1, <1>3, <2>2
  <2>4. i - 1 \in 1 .. (Len(s) - 1) /\ i - 1 < j /\ (i - 1) + 1 = i
    BY <1>1, <2>2, <2>3
  <2>5. Tail(s)[i - 1] = s[i]
    BY <1>1, <2>4
  <2> QED
    BY <2>2, <2>4, <2>5
<1>4. ASSUME NEW x, Head(s) \in I => x \in I, x \notin K PROVE First(<<x>> \o Tail(s), I, K)
  <2>1. IsSeq(<<x>>) /\ ToSet(<<x>>) = {x} /\ First(<<x>>, I, K)
    BY <1>4, OneSeq DEF First
  <2>2. CASE Head(s) \in I
    BY <1>1, <1>4, <2>1, <2>2, ConcatFirst
  <2>3. CASE Head(s) \notin I
    BY <1>1, <1>3, <2>1, <2>3, ConcatFirst
  <2> QED
    BY <2>2, <2>3
<1> QED
  BY <1>2, <1>3, <1>4

\* The concatenations of FlattenSeq: a function that obeys its recursion up to n.
Flattens(q, n, f) ==
    f = [i \in 1 .. n |-> IF i = 1 THEN q[i] ELSE f[i - 1] \o q[i]]

LEMMA FlattensExist ==
  ASSUME NEW q, NEW n \in Nat
  PROVE  \E f : Flattens(q, n, f)
<1> DEFINE T == {k \in Nat : ~ \E f : Flattens(q, k, f)}
<1> SUFFICES ASSUME T # {} PROVE FALSE
  OBVIOUS
<1>1. PICK k \in T : \A j \in T : k <= j
  BY LeastNat
<1>2. CASE k = 0
  <2>1. Flattens(q, 0, [i \in 1 .. 0 |-> <<>>])
    BY DEF Flattens
  <2> QED
    BY <1>1, <1>2, <2>1
<1>3. CASE k # 0
  <2>1. k \in Nat /\ k - 1 \in Nat /\ k - 1 \notin T
    BY <1>1, <1>3
  <2>2. PICK g : Flattens(q, k - 1, g)
    BY <2>1
  <2> DEFINE h == [i \in 1 .. k |-> IF i = k THEN (IF k = 1 THEN q[k] ELSE g[k - 1] \o q[k])
                                    ELSE g[i]]
  <2>3. \A i \in 1 .. k - 1 : g[i] = IF i = 1 THEN q[i] ELSE g[i - 1] \o q[i]
    BY <2>2 DEF Flattens
  <2>4. \A i \in 1 .. k - 1 : h[i] = g[i]
    BY <2>1
  <2>5. h[k] = IF k = 1 THEN q[k] ELSE g[k - 1] \o q[k]
    BY <2>1, <1>3
  <2>6. \A i \in 1 .. k : h[i] = IF i = 1 THEN q[i] ELSE h[i - 1] \o q[i]
    <3> SUFFICES ASSUME NEW i \in 1 .. k
                 PROVE  h[i] = IF i = 1 THEN q[i] ELSE h[i - 1] \o q[i]
      OBVIOUS
    <3> HIDE DEF h
    <3>1. CASE i = k
      <4>1. CASE k = 1
        BY <2>5, <3>1, <4>1
      <4>2. CASE k # 1
        <5>1. k - 1 \in 1 .. k - 1
          BY <2>1, <4>2
        <5>2. h[k - 1] = g[k - 1]
          BY <2>4, <5>1
        <5> QED
          BY <2>5, <3>1, <4>2, <5>2
      <4> QED
        BY <4>1, <4>2
    <3>2. CASE i # k
      <4>1. i \in 1 .. k - 1 /\ (i # 1 => i - 1 \in 1 .. k - 1)
        BY <2>1, <3>2
      <4> QED
        BY <2>3, <2>4, <4>1
    <3> QED
      BY <3>1, <3>2
  <2>7. Flattens(q, k, h)
    BY <2>6 DEF Flattens
  <2> QED
    BY <1>1, <2>7
<1> QED
  BY <1>2, <1>3

\* FlattenSeq has the elements of its parts, and keeps an order that they have.
LEMMA FlattenFacts ==
  ASSUME NEW q, IsSeq(q), \A i \in DOMAIN q : IsSeq(q[i])
  PROVE  /\ IsSeq(FlattenSeq(q))
         /\ \A x : x \in ToSet(FlattenSeq(q)) <=> \E i \in DOMAIN q : x \in ToSet(q[i])
         /\ \A I, K : (\A i \in DOMAIN q : First(q[i], I, K)) => First(FlattenSeq(q), I, K)
<1> DEFINE n == Len(q)
           f == CHOOSE g : Flattens(q, n, g)
<1>1. n \in Nat /\ DOMAIN q = 1 .. n /\ (n = 0 => q = <<>>)
  BY SeqFacts
<1>2. CASE n = 0
  BY <1>1, <1>2, NoSeq DEF FlattenSeq
<1>3. CASE n # 0
  <2>1. FlattenSeq(q) = f[n]
    BY <1>3 DEF FlattenSeq, Flattens
  <2>2. Flattens(q, n, f)
    BY <1>1, FlattensExist
  <2> HIDE DEF f, n
  <2>3. f[1] = q[1] /\ \A i \in 2 .. n : f[i] = f[i - 1] \o q[i]
    <3> DEFINE body(i) == IF i = 1 THEN q[i] ELSE f[i - 1] \o q[i]
    <3>1. f = [i \in 1 .. n |-> body(i)]
      BY <2>2 DEF Flattens
    <3> HIDE DEF body
    <3>2. \A i \in 1 .. n : f[i] = body(i)
      BY <3>1
    <3>3. f[1] = body(1) /\ \A i \in 2 .. n : f[i] = body(i) /\ i # 1
      BY <1>1, <1>3, <3>2
    <3> QED
      BY <3>3 DEF body
  <2> DEFINE Good(k) == /\ IsSeq(f[k])
                        /\ \A x : x \in ToSet(f[k]) <=> \E i \in 1 .. k : x \in ToSet(q[i])
                        /\ \A I, K : (\A i \in 1 .. k : First(q[i], I, K)) => First(f[k], I, K)
             T == {k \in Nat : k >= 1 /\ k <= n /\ ~Good(k)}
  <2>4. T = {}
    <3> SUFFICES ASSUME T # {} PROVE FALSE
      OBVIOUS
    <3>1. PICK k \in T : \A j \in T : k <= j
      BY LeastNat
    <3>2. k \in Nat /\ k >= 1 /\ k <= n /\ ~Good(k)
      BY <3>1
    <3>3. CASE k = 1
      <4>1. f[k] = q[1] /\ 1 .. k = {1} /\ IsSeq(q[1])
        BY <1>1, <2>3, <3>2, <3>3
      <4>2. Good(k)
        BY <4>1
      <4> QED
        BY <3>2, <4>2
    <3>4. CASE k # 1
      <4>0. k \in 2 .. n /\ k \in 1 .. n
        BY <1>1, <3>2, <3>4
      <4>1. k - 1 \in Nat /\ k - 1 >= 1 /\ k - 1 <= n /\ ~(k <= k - 1)
        BY <1>1, <4>0
      <4>2. Good(k - 1)
        <5> HIDE DEF Good
        <5> QED
          BY <3>1, <4>1
      <4>3. f[k] = f[k - 1] \o q[k] /\ IsSeq(q[k]) /\ IsSeq(f[k - 1])
        <5>1. IsSeq(f[k - 1])
          BY <4>2
        <5> HIDE DEF Good, T
        <5> QED
          BY <1>1, <2>3, <4>0, <5>1
      <4>4. 1 .. k = (1 .. (k - 1)) \cup {k}
        BY <3>2
      <4> HIDE DEF T
      <4>5. IsSeq(f[k]) /\ ToSet(f[k]) = ToSet(f[k - 1]) \cup ToSet(q[k])
        BY <4>3, ConcatSeq
      <4>6. ASSUME NEW x PROVE x \in ToSet(f[k]) <=> \E i \in 1 .. k : x \in ToSet(q[i])
        BY <4>2, <4>4, <4>5
      <4>7. ASSUME NEW I, NEW K, \A i \in 1 .. k : First(q[i], I, K) PROVE First(f[k], I, K)
        <5>1. First(f[k - 1], I, K) /\ First(q[k], I, K)
          BY <4>2, <4>4, <4>7
        <5> QED
          BY <4>3, <5>1, ConcatFirst
      <4> QED
        BY <3>2, <4>5, <4>6, <4>7
    <3> QED
      BY <3>3, <3>4
  <2>5. Good(n)
    BY <1>1, <1>3, <2>4
  <2> QED
    BY <1>1, <2>1, <2>5
<1> QED
  BY <1>2, <1>3

-----------------------------------------------------------------------------
(* The runtime.                                                            *)

Plugins == {chain[i] : i \in DOMAIN chain}

\* No list names a plugin twice.
OnePerChain ==
    \A c \in Chains : \A i, j \in DOMAIN c : c[i] = c[j] => i = j

\* Where plugin stands in the list, seen from the process of a.
Behind(a, plugin) == \E j \in DOMAIN chain : chain[j] = plugin /\ j < proc[a].i
Ahead(a, plugin) == \E j \in DOMAIN chain : chain[j] = plugin /\ j > proc[a].i

\* The part of plugin is done in an ADD, or it is not begun; it is undone by a DEL.
Done(a, plugin) ==
    \/ Ready(a, plugin)
    \/ /\ proc[a].cmd = "add"
       /\ Behind(a, plugin) \/ (Running(a, plugin) /\ proc[a].todo = <<>>)
NotBegun(a, plugin) == proc[a].cmd = "add" /\ Ahead(a, plugin)
Undone(a, plugin) ==
    /\ proc[a].cmd = "del"
    /\ Ahead(a, plugin) \/ (Running(a, plugin) /\ proc[a].todo = <<>>)

Start == <<[op |-> "start"]>>

\* Nothing of plugin is there for a: it is not begun, it is undone, or it is in
\* no list.
Clear(a, plugin) ==
    \/ plugin \notin Plugins
    \/ told[a] = "gone"
    \/ NotBegun(a, plugin)
    \/ Undone(a, plugin)
    \/ Running(a, plugin) /\ proc[a].cmd = "add" /\ proc[a].todo = Start

\* The runtime: which command runs, and what it can rely on.
IsProc(p) == p = [cmd |-> p.cmd, i |-> p.i, todo |-> p.todo]

ProcOK(a) ==
    /\ IsProc(proc[a])
    /\ proc[a].cmd \in {"none", "add", "del", "check"}
    /\ proc[a].cmd # "none" => proc[a].i \in DOMAIN chain
    /\ proc[a].cmd \in {"add", "del"} => told[a] = "unknown"
    /\ proc[a].cmd = "check" => told[a] = "ready"

LinkOK(a) ==
    /\ link[a] \in Links \cup {NoLink}
    /\ told[a] = "gone" => link[a] = NoLink \/ Stays(a)
    /\ proc[a].cmd = "add" \/ told[a] = "ready" => link[a] # NoLink

IpOK(a) ==
    /\ ip[a] \in IPs \cup {NoIP}
    /\ told[a] = "gone" => ip[a] = NoIP
    /\ proc[a].cmd = "add" \/ told[a] = "ready" => ip[a] \in IPs
    /\ \A b \in Att \ {a} : ip[a] # NoIP => ip[b] # ip[a]

ChainInv ==
    /\ chain \in Chains
    /\ proc = [a \in Att |-> proc[a]] /\ link = [a \in Att |-> link[a]]
    /\ told = [a \in Att |-> told[a]] /\ ip = [a \in Att |-> ip[a]]
    /\ \A a \in Att : ProcOK(a) /\ IpOK(a)

LinkInv == \A a \in Att : LinkOK(a)

\* What a call of a plugin does to the runtime's state.
Steps(a) ==
    /\ ~Idle(a)
    /\ UNCHANGED <<chain, ip>>
    /\ \/ (\E calls : proc' = [proc EXCEPT ![a].todo = calls]) /\ UNCHANGED told
       \/ Ends(a)

LEMMA ChainFacts ==
  ASSUME ChainInv
  PROVE  /\ Len(chain) \in Nat /\ Len(chain) >= 1 /\ DOMAIN chain = 1 .. Len(chain)
  BY ChainAssumption DEF ChainInv

LEMMA CallSteps ==
  ASSUME NEW a \in Att, ~Idle(a), NEW calls,
         Do(a, calls) \/ Error(a) \/ Fault(a, calls)
  PROVE  Steps(a)
  BY DEF Do, Error, Fault, Steps

\* The processes after a call of a plugin.
LEMMA StepsFacts ==
  ASSUME ChainInv, NEW a \in Att, Steps(a)
  PROVE  /\ proc' = [b \in Att |-> proc'[b]] /\ told' = [b \in Att |-> told'[b]]
         /\ \A b \in Att \ {a} : proc'[b] = proc[b] /\ told'[b] = told[b]
         /\ \/ /\ told' = told
               /\ proc'[a].cmd = proc[a].cmd /\ proc'[a].i = proc[a].i
               /\ IsProc(proc'[a])
            \/ /\ proc'[a] = Quit
               /\ told'[a] \in {"refused", "unknown"}
<1>1. CASE (\E calls : proc' = [proc EXCEPT ![a].todo = calls]) /\ UNCHANGED told
  <2>1. PICK calls : proc' = [proc EXCEPT ![a].todo = calls]
    BY <1>1
  <2>2. IsProc(proc[a]) /\ proc = [b \in Att |-> proc[b]]
    BY DEF ChainInv, ProcOK
  <2>3. proc'[a] = [cmd |-> proc[a].cmd, i |-> proc[a].i, todo |-> calls]
    BY <2>1, <2>2 DEF IsProc
  <2>4. IsProc(proc'[a])
    BY <2>3 DEF IsProc
  <2> QED
    BY <1>1, <2>1, <2>2, <2>3, <2>4 DEF ChainInv
<1>2. CASE Ends(a)
  BY <1>2 DEF Ends, ChainInv, Quit
<1> QED
  BY <1>1, <1>2 DEF Steps

\* A step that plugin does not make leaves what is known of it, or starts it.
Quiet(b, plugin) ==
    /\ Clear(b, plugin)' => Clear(b, plugin)
    /\ Done(b, plugin)' => Done(b, plugin) /\ ip'[b] = ip[b]
    /\ ip'[b] = ip[b] \/ Clear(b, plugin)
    /\ Running(b, plugin)' =>
          \/ Running(b, plugin) /\ proc'[b] = proc[b] /\ ip'[b] = ip[b]
          \/ proc'[b].todo = Start

\* A call of another plugin leaves the processes of plugin alone.
LEMMA OtherPlugin ==
  ASSUME ChainInv, NEW a \in Att, Steps(a), NEW plugin, ~Running(a, plugin)
  PROVE  /\ ~Running(a, plugin)' /\ Plugins' = Plugins
         /\ \A b \in Att :
               /\ Quiet(b, plugin)
               /\ Running(b, plugin)' => Running(b, plugin) /\ proc'[b] = proc[b]
               /\ Done(b, plugin)' => Done(b, plugin)
               /\ NotBegun(b, plugin)' => NotBegun(b, plugin)
               /\ Undone(b, plugin)' => Undone(b, plugin)
               /\ told'[b] = "gone" <=> told[b] = "gone"
<1>1. chain' = chain
  BY DEF Steps
<1>2. ~Running(a, plugin)'
  BY <1>1, StepsFacts DEF Running, Idle, Quit
<1>3. ASSUME NEW b \in Att \ {a}
      PROVE  /\ Running(b, plugin)' => Running(b, plugin) /\ proc'[b] = proc[b]
             /\ Done(b, plugin)' => Done(b, plugin)
             /\ NotBegun(b, plugin)' => NotBegun(b, plugin)
             /\ Undone(b, plugin)' => Undone(b, plugin)
             /\ told'[b] = "gone" <=> told[b] = "gone"
  BY <1>1, <1>3, StepsFacts DEF Running, Idle, Done, NotBegun, Undone, Ready, Behind, Ahead
<1>4. /\ Done(a, plugin)' => Done(a, plugin)
      /\ NotBegun(a, plugin)' => NotBegun(a, plugin)
      /\ Undone(a, plugin)' => Undone(a, plugin)
  BY <1>1, <1>2, StepsFacts DEF Quit, Done, NotBegun, Undone, Ready, Behind, Ahead
<1>5. told'[a] = "gone" <=> told[a] = "gone"
  BY StepsFacts DEF Steps, Idle, ChainInv, ProcOK
<1>6. \A b \in Att : told'[b] = "gone" <=> told[b] = "gone"
  BY <1>3, <1>5
<1>7. Plugins' = Plugins /\ ip' = ip
  BY <1>1 DEF Plugins, Steps
<1>8. ASSUME NEW b \in Att PROVE Quiet(b, plugin)
  BY <1>2, <1>3, <1>4, <1>6, <1>7 DEF Quiet, Clear
<1> QED
  BY <1>2, <1>3, <1>4, <1>6, <1>7, <1>8

\* A call of plugin changes what is known of its own process only.
LEMMA OwnPlugin ==
  ASSUME ChainInv, OnePerChain, NEW a \in Att, Steps(a), NEW plugin, Running(a, plugin)
  PROVE  /\ Plugins' = Plugins /\ plugin \in Plugins
         /\ \A b \in Att \ {a} :
               /\ proc'[b] = proc[b] /\ told'[b] = told[b]
               /\ Running(b, plugin)' <=> Running(b, plugin)
               /\ Done(b, plugin)' <=> Done(b, plugin)
               /\ NotBegun(b, plugin)' <=> NotBegun(b, plugin)
               /\ Undone(b, plugin)' <=> Undone(b, plugin)
         /\ told[a] # "gone" /\ told'[a] # "gone"
         /\ ~NotBegun(a, plugin)'
         /\ Running(a, plugin)' => /\ proc'[a].cmd = proc[a].cmd
                                   /\ Done(a, plugin)' <=>
                                         (Ready(a, plugin) \/
                                            (proc[a].cmd = "add" /\ proc'[a].todo = <<>>))
                                   /\ Undone(a, plugin)' <=>
                                         (proc[a].cmd = "del" /\ proc'[a].todo = <<>>)
         /\ ~Running(a, plugin)' => /\ ~Done(a, plugin)' /\ ~Undone(a, plugin)'
                                    /\ proc'[a] = Quit
<1>1. chain' = chain /\ chain \in Chains
  BY DEF Steps, ChainInv
<1>2. \A b \in Att \ {a} : proc'[b] = proc[b] /\ told'[b] = told[b]
  BY StepsFacts
<1>3. ASSUME NEW b \in Att \ {a}
      PROVE  /\ Running(b, plugin)' <=> Running(b, plugin)
             /\ Done(b, plugin)' <=> Done(b, plugin)
             /\ NotBegun(b, plugin)' <=> NotBegun(b, plugin)
             /\ Undone(b, plugin)' <=> Undone(b, plugin)
  BY <1>1, <1>2, <1>3 DEF Running, Idle, Done, NotBegun, Undone, Ready, Behind, Ahead
<1>4. proc[a].cmd \in {"add", "del", "check"} /\ proc[a].i \in DOMAIN chain
  BY DEF ChainInv, ProcOK, Running, Idle
<1>5. told[a] # "gone"
  BY <1>4 DEF ChainInv, ProcOK
<1>6. \A j \in DOMAIN chain : chain[j] = plugin => j = proc[a].i
  BY <1>1, <1>4 DEF OnePerChain, Running
<1>7. proc[a].i \in Nat
  BY <1>4, ChainFacts
<1>8. ~Behind(a, plugin) /\ ~Ahead(a, plugin)
  BY <1>6, <1>7 DEF Behind, Ahead
<1>9. CASE proc'[a] = Quit /\ told'[a] \in {"refused", "unknown"}
  <2>1. proc'[a].cmd = "none"
    BY <1>9 DEF Quit
  <2> QED
    BY <1>1, <1>2, <1>3, <1>4, <1>5, <1>9, <2>1
       DEF Running, Idle, Done, NotBegun, Undone, Ready, Plugins
<1>10. CASE told' = told /\ proc'[a].cmd = proc[a].cmd /\ proc'[a].i = proc[a].i
  <2>1. Running(a, plugin)' /\ ~Behind(a, plugin)' /\ ~Ahead(a, plugin)'
    BY <1>1, <1>8, <1>10 DEF Running, Idle, Behind, Ahead
  <2>2. Ready(a, plugin)' <=> Ready(a, plugin)
    BY <1>1, <1>10 DEF Ready
  <2>3. Plugins' = Plugins /\ plugin \in Plugins
    BY <1>1, <1>4 DEF Plugins, Running
  <2>4. /\ Done(a, plugin)' <=> (Ready(a, plugin) \/ (proc[a].cmd = "add" /\ proc'[a].todo = <<>>))
        /\ Undone(a, plugin)' <=> (proc[a].cmd = "del" /\ proc'[a].todo = <<>>)
        /\ ~NotBegun(a, plugin)'
    BY <1>10, <2>1, <2>2 DEF Done, Undone, NotBegun
  <2> QED
    BY <1>2, <1>3, <1>5, <1>10, <2>1, <2>3, <2>4
<1> QED
  BY <1>9, <1>10, StepsFacts

\* A step of the runtime starts plugin anew, or leaves what is known of it.
LEMMA RuntimeFacts ==
  ASSUME ChainInv, NEW a \in Att, Runtime(a), NEW plugin
  PROVE  /\ chain' = chain /\ Plugins' = Plugins
         /\ \A b \in Att \ {a} :
               /\ proc'[b] = proc[b] /\ told'[b] = told[b]
               /\ link'[b] = link[b] /\ ip'[b] = ip[b]
               /\ Running(b, plugin)' <=> Running(b, plugin)
               /\ Done(b, plugin)' <=> Done(b, plugin)
               /\ NotBegun(b, plugin)' <=> NotBegun(b, plugin)
               /\ Undone(b, plugin)' <=> Undone(b, plugin)
         /\ Running(a, plugin)' =>
               /\ proc'[a].todo = Start
               /\ proc'[a].cmd \in {"add", "del", "check"}
               /\ proc'[a].cmd = "add" => BeginAdd(a) \/ NotBegun(a, plugin)
         /\ Done(a, plugin)' => Done(a, plugin) /\ link'[a] = link[a] /\ ip'[a] = ip[a]
         /\ NotBegun(a, plugin)' => BeginAdd(a) \/ NotBegun(a, plugin)
         /\ Undone(a, plugin)' => Undone(a, plugin)
         /\ told'[a] = "gone" => EndDel(a) /\ (plugin \in Plugins => Undone(a, plugin))
<1> USE DEF ChainInv
<1>1. chain' = chain /\ Plugins' = Plugins
  BY DEF Runtime, BeginAdd, BeginDel, BeginCheck, NextPlugin, EndAdd, EndDel, Killed, Plugins
<1>2. ASSUME NEW b \in Att \ {a}
      PROVE  /\ proc'[b] = proc[b] /\ told'[b] = told[b]
             /\ link'[b] = link[b] /\ ip'[b] = ip[b]
  BY DEF Runtime, BeginAdd, BeginDel, BeginCheck, NextPlugin, EndAdd, EndDel, Killed, Ends
<1>3. ASSUME NEW b \in Att \ {a}
      PROVE  /\ Running(b, plugin)' <=> Running(b, plugin)
             /\ Done(b, plugin)' <=> Done(b, plugin)
             /\ NotBegun(b, plugin)' <=> NotBegun(b, plugin)
             /\ Undone(b, plugin)' <=> Undone(b, plugin)
  BY <1>1, <1>2, <1>3 DEF Running, Idle, Done, NotBegun, Undone, Ready, Behind, Ahead
<1>4. Start # <<>>
  BY DEF Start
<1>len. Len(chain) \in Nat /\ Len(chain) >= 1 /\ DOMAIN chain = 1 .. Len(chain)
  BY ChainFacts
<1> DEFINE Goal ==
              /\ Running(a, plugin)' =>
                    /\ proc'[a].todo = Start
                    /\ proc'[a].cmd \in {"add", "del", "check"}
                    /\ proc'[a].cmd = "add" => BeginAdd(a) \/ NotBegun(a, plugin)
              /\ Done(a, plugin)' => Done(a, plugin) /\ link'[a] = link[a] /\ ip'[a] = ip[a]
              /\ NotBegun(a, plugin)' => BeginAdd(a) \/ NotBegun(a, plugin)
              /\ Undone(a, plugin)' => Undone(a, plugin)
              /\ told'[a] = "gone" => EndDel(a) /\ (plugin \in Plugins => Undone(a, plugin))
<1>5. ASSUME BeginAdd(a) PROVE Goal
  <2>1. proc'[a] = [cmd |-> "add", i |-> 1, todo |-> Start] /\ told'[a] = "unknown"
    BY <1>5 DEF BeginAdd, Begin, Start
  <2>2. proc'[a].cmd = "add" /\ proc'[a].i = 1 /\ proc'[a].todo = Start
    BY <2>1
  <2>3. ~Behind(a, plugin)'
    BY <1>1, <1>len, <2>2 DEF Behind
  <2> QED
    BY <1>4, <1>5, <2>1, <2>2, <2>3 DEF Done, Undone, Ready
<1>6. ASSUME BeginDel(a) PROVE Goal
  <2>1. proc'[a] = [cmd |-> "del", i |-> Len(chain), todo |-> Start] /\ told'[a] = "unknown"
    BY <1>6 DEF BeginDel, Begin, Start
  <2>2. proc'[a].cmd = "del" /\ proc'[a].i = Len(chain) /\ proc'[a].todo = Start
    BY <2>1
  <2>3. ~Ahead(a, plugin)'
    BY <1>1, <1>len, <2>2 DEF Ahead
  <2> QED
    BY <1>4, <2>1, <2>2, <2>3 DEF Done, NotBegun, Undone, Ready
<1>7. ASSUME BeginCheck(a) PROVE Goal
  <2>1. /\ proc'[a] = [cmd |-> "check", i |-> 1, todo |-> Start] /\ told' = told /\ told[a] = "ready"
        /\ link' = link /\ ip' = ip
    BY <1>7 DEF BeginCheck, Begin, Start
  <2>2. proc'[a].cmd = "check" /\ proc'[a].i = 1 /\ proc'[a].todo = Start
    BY <2>1
  <2> QED
    BY <1>1, <2>1, <2>2 DEF Done, NotBegun, Undone, Ready
<1>8. ASSUME NextPlugin(a) PROVE Goal
  <2>1. PICK j \in 1 .. Len(chain) :
           /\ j = IF proc[a].cmd = "del" THEN proc[a].i - 1 ELSE proc[a].i + 1
           /\ proc' = [proc EXCEPT ![a] = Begin(proc[a].cmd, j)]
           /\ ~Idle(a) /\ proc[a].todo = <<>> /\ told' = told /\ link' = link /\ ip' = ip
    BY <1>8 DEF NextPlugin
  <2>2. proc'[a] = [cmd |-> proc[a].cmd, i |-> j, todo |-> Start]
    BY <2>1 DEF Begin, Start
  <2>3. proc'[a].cmd = proc[a].cmd /\ proc'[a].i = j /\ proc'[a].todo = Start
    BY <2>2
  <2>4. proc[a].cmd \in {"add", "del", "check"} /\ proc[a].i \in DOMAIN chain
    BY <2>1 DEF ProcOK, Idle
  <2>5. Running(a, plugin)' => chain[j] = plugin
    BY <1>1, <2>1, <2>3 DEF Running
  <2>6. proc[a].cmd = "add" /\ Running(a, plugin)' => NotBegun(a, plugin)
    BY <1>len, <2>1, <2>4, <2>5 DEF NotBegun, Ahead
  <2>7. proc[a].cmd = "add" /\ Behind(a, plugin)' =>
           Behind(a, plugin) \/ Running(a, plugin)
    <3> SUFFICES ASSUME proc[a].cmd = "add", NEW k \in DOMAIN chain, chain[k] = plugin, k < j
                 PROVE  Behind(a, plugin) \/ Running(a, plugin)
      BY <1>1, <2>3 DEF Behind
    <3>1. j = proc[a].i + 1 /\ proc[a].i \in Nat /\ k \in Nat
      BY <1>len, <2>1, <2>4
    <3>2. k < proc[a].i \/ k = proc[a].i
      BY <3>1
    <3> QED
      BY <2>1, <3>2 DEF Behind, Running
  <2>8. proc[a].cmd = "add" /\ Ahead(a, plugin)' => Ahead(a, plugin)
    BY <1>1, <1>len, <2>1, <2>3, <2>4 DEF Ahead
  <2>9. proc[a].cmd = "del" /\ Ahead(a, plugin)' => Ahead(a, plugin) \/ Running(a, plugin)
    <3> SUFFICES ASSUME proc[a].cmd = "del", NEW k \in DOMAIN chain, chain[k] = plugin, k > j
                 PROVE  Ahead(a, plugin) \/ Running(a, plugin)
      BY <1>1, <2>3 DEF Ahead
    <3>1. j = proc[a].i - 1 /\ proc[a].i \in Nat /\ k \in Nat /\ j \in Nat
      BY <1>len, <2>1, <2>4
    <3>2. k > proc[a].i \/ k = proc[a].i
      BY <3>1
    <3> QED
      BY <2>1, <3>2 DEF Ahead, Running
  <2>10. Ready(a, plugin)' => Ready(a, plugin)
    BY <1>1, <2>1 DEF Ready
  <2>11. told'[a] # "gone"
    BY <2>1, <2>4 DEF ProcOK
  <2> QED
    BY <1>4, <2>1, <2>3, <2>4, <2>5, <2>6, <2>7, <2>8, <2>9, <2>10, <2>11
       DEF Done, NotBegun, Undone
<1>9. ASSUME EndAdd(a) PROVE Goal
  <2>1. /\ proc'[a] = Quit /\ told'[a] = "ready" /\ proc[a].todo = <<>>
        /\ proc[a].cmd \in {"add", "check"} /\ proc[a].i = Len(chain)
        /\ link' = link /\ ip' = ip
    BY <1>9 DEF EndAdd
  <2>2. Ready(a, plugin)' => Done(a, plugin)
    <3> SUFFICES ASSUME NEW k \in DOMAIN chain, chain[k] = plugin
                 PROVE  Done(a, plugin)
      BY <1>1 DEF Ready
    <3>1. CASE proc[a].cmd = "check"
      BY <3>1 DEF Done, Ready, ProcOK
    <3>2. CASE proc[a].cmd = "add"
      <4>1. k < proc[a].i \/ k = proc[a].i
        BY <1>len, <2>1
      <4> QED
        BY <2>1, <3>2, <4>1 DEF Done, Behind, Running, Idle
    <3> QED
      BY <2>1, <3>1, <3>2
  <2> QED
    BY <2>1, <2>2 DEF Quit, Running, Idle, Done, NotBegun, Undone
<1>10. ASSUME EndDel(a) PROVE Goal
  <2>1. /\ proc'[a] = Quit /\ told'[a] = "gone" /\ proc[a].todo = <<>>
        /\ proc[a].cmd = "del" /\ proc[a].i = 1
    BY <1>10 DEF EndDel
  <2>2. ASSUME plugin \in Plugins PROVE Undone(a, plugin)
    <3>1. PICK k \in DOMAIN chain : chain[k] = plugin
      BY <2>2 DEF Plugins
    <3>2. k > 1 \/ k = 1
      BY <1>len
    <3> QED
      BY <2>1, <3>1, <3>2 DEF Undone, Ahead, Running, Idle
  <2> QED
    BY <1>10, <2>1, <2>2 DEF Quit, Running, Idle, Done, NotBegun, Undone, Ready
<1>11. ASSUME Killed(a) PROVE Goal
  <2>1. proc'[a] = Quit /\ told'[a] \in {"refused", "unknown"}
    BY <1>11 DEF Killed, Ends
  <2> QED
    BY <2>1 DEF Quit, Running, Idle, Done, NotBegun, Undone, Ready
<1>12. Goal
  BY <1>5, <1>6, <1>7, <1>8, <1>9, <1>10, <1>11 DEF Runtime
<1> QED
  BY <1>1, <1>2, <1>3, <1>12

\* What a call does to the process that makes it.
LEMMA DoFacts ==
  ASSUME ChainInv, NEW a \in Att, NEW calls, Do(a, calls)
  PROVE  /\ proc'[a].todo = calls
         /\ proc'[a].cmd = proc[a].cmd /\ proc'[a].i = proc[a].i
         /\ told' = told /\ chain' = chain /\ ip' = ip
         /\ \A plugin : Running(a, plugin)' <=> Running(a, plugin)
<1>1. IsProc(proc[a]) /\ proc = [b \in Att |-> proc[b]]
  BY DEF ChainInv, ProcOK
<1>2. proc'[a] = [cmd |-> proc[a].cmd, i |-> proc[a].i, todo |-> calls]
  BY <1>1 DEF Do, IsProc
<1> QED
  BY <1>2 DEF Do, Running, Idle

LEMMA ErrorFacts ==
  ASSUME ChainInv, NEW a \in Att, Error(a)
  PROVE  /\ proc'[a] = Quit
         /\ \A plugin : ~Running(a, plugin)'
BY DEF ChainInv, Error, Ends, Running, Idle, Quit

LEMMA FaultFacts ==
  ASSUME ChainInv, NEW a \in Att, NEW calls, Fault(a, calls)
  PROVE  /\ calls = Failed => proc'[a] = Quit /\ \A plugin : ~Running(a, plugin)'
         /\ calls # Failed => /\ proc'[a].todo = calls
                              /\ proc'[a].cmd = proc[a].cmd
                              /\ told' = told
<1>1. IsProc(proc[a]) /\ proc = [b \in Att |-> proc[b]] /\ told = [b \in Att |-> told[b]]
  BY DEF ChainInv, ProcOK
<1>2. CASE calls = Failed
  BY <1>1, <1>2 DEF Fault, Ends, Running, Idle, Quit
<1>3. CASE calls # Failed
  <2>1. proc'[a] = [cmd |-> proc[a].cmd, i |-> proc[a].i, todo |-> calls]
    BY <1>1, <1>3 DEF Fault, IsProc
  <2> QED
    BY <1>3, <2>1 DEF Fault
<1> QED
  BY <1>2, <1>3

LEMMA RuntimeQuiet ==
  ASSUME ChainInv, NEW a \in Att, Runtime(a), NEW plugin, NEW b \in Att
  PROVE  Quiet(b, plugin)
<1>1. CASE b # a
  <2>1. Plugins' = Plugins
    BY RuntimeFacts
  <2>2. /\ proc'[b] = proc[b] /\ told'[b] = told[b] /\ ip'[b] = ip[b]
        /\ Running(b, plugin)' <=> Running(b, plugin)
        /\ Done(b, plugin)' <=> Done(b, plugin)
        /\ NotBegun(b, plugin)' <=> NotBegun(b, plugin)
        /\ Undone(b, plugin)' <=> Undone(b, plugin)
    BY <1>1, RuntimeFacts
  <2> QED
    BY <2>1, <2>2 DEF Quiet, Clear
<1>2. CASE b = a
  <2>1. /\ Plugins' = Plugins
        /\ Running(a, plugin)' =>
               /\ proc'[a].todo = Start
               /\ proc'[a].cmd = "add" => BeginAdd(a) \/ NotBegun(a, plugin)
        /\ Done(a, plugin)' => Done(a, plugin) /\ ip'[a] = ip[a]
        /\ NotBegun(a, plugin)' => BeginAdd(a) \/ NotBegun(a, plugin)
        /\ Undone(a, plugin)' => Undone(a, plugin)
        /\ told'[a] = "gone" => (plugin \in Plugins => Undone(a, plugin))
    BY RuntimeFacts
  <2>2. BeginAdd(a) => told[a] = "gone"
    BY DEF BeginAdd
  <2>3. ip'[a] = ip[a] \/ Clear(a, plugin)
    <3>1. CASE BeginAdd(a)
      BY <2>2, <3>1 DEF Clear
    <3>2. CASE EndDel(a)
      <4>1. told'[a] = "gone"
        BY <3>2 DEF EndDel, ChainInv
      <4> QED
        BY <2>1, <4>1 DEF Clear
    <3>3. CASE ip' = ip
      BY <3>3
    <3> QED
      BY <3>1, <3>2, <3>3 DEF Runtime, BeginDel, BeginCheck, NextPlugin, EndAdd, Killed
  <2> QED
    BY <1>2, <2>1, <2>2, <2>3 DEF Quiet, Clear
<1> QED
  BY <1>1, <1>2

\* The interfaces are there as before, and still interfaces.
SameLinks ==
    /\ link' = [b \in Att |-> link'[b]]
    /\ \A b \in Att : /\ link'[b] \in Links \cup {NoLink}
                      /\ link'[b] = NoLink <=> link[b] = NoLink

\* A call of a plugin leaves the runtime's part in order.
LEMMA ChainKept ==
  ASSUME ChainInv, NEW a \in Att, Steps(a), link' = [b \in Att |-> link'[b]]
  PROVE  /\ ChainInv'
         /\ LinkInv /\ SameLinks => LinkInv'
<1>1. chain' = chain /\ ip' = ip /\ ~Idle(a) /\ chain \in Chains
  BY DEF Steps, ChainInv
<1>2. /\ proc' = [b \in Att |-> proc'[b]] /\ told' = [b \in Att |-> told'[b]]
      /\ \A b \in Att \ {a} : proc'[b] = proc[b] /\ told'[b] = told[b]
      /\ \/ /\ told' = told
            /\ proc'[a].cmd = proc[a].cmd /\ proc'[a].i = proc[a].i
            /\ IsProc(proc'[a])
         \/ /\ proc'[a] = Quit
            /\ told'[a] \in {"refused", "unknown"}
  BY StepsFacts
<1>3. ASSUME NEW b \in Att \ {a} PROVE ProcOK(b)'
  BY <1>1, <1>2, <1>3 DEF ChainInv, ProcOK
<1>4. ProcOK(a)'
  <2>1. CASE told' = told /\ proc'[a].cmd = proc[a].cmd /\ proc'[a].i = proc[a].i /\ IsProc(proc'[a])
    BY <1>1, <2>1 DEF ChainInv, ProcOK
  <2>2. CASE proc'[a] = Quit /\ told'[a] \in {"refused", "unknown"}
    <3>1. proc'[a].cmd = "none" /\ IsProc(proc'[a])
      BY <2>2 DEF Quit, IsProc
    <3> QED
      BY <2>2, <3>1 DEF ProcOK
  <2> QED
    BY <1>2, <2>1, <2>2
<1>5. ASSUME NEW b \in Att
      PROVE  /\ told'[b] = "gone" => told[b] = "gone"
             /\ proc'[b].cmd = "add" \/ told'[b] = "ready" => proc[b].cmd = "add" \/ told[b] = "ready"
  BY <1>2 DEF Quit
<1>6. ASSUME NEW b \in Att PROVE IpOK(b)'
  BY <1>1, <1>5 DEF ChainInv, IpOK
<1>7. ChainInv'
  BY <1>1, <1>2, <1>3, <1>4, <1>6 DEF ChainInv
<1>8. ASSUME LinkInv, SameLinks PROVE LinkInv'
  BY <1>1, <1>5, <1>8 DEF LinkInv, LinkOK, SameLinks, Stays
<1> QED
  BY <1>7, <1>8

LEMMA ChainRuntime ==
  ASSUME ChainInv, NEW a \in Att, Runtime(a)
  PROVE  ChainInv' /\ (LinkInv => LinkInv')
<1>0. /\ chain \in Chains
      /\ proc = [b \in Att |-> proc[b]] /\ link = [b \in Att |-> link[b]]
      /\ told = [b \in Att |-> told[b]] /\ ip = [b \in Att |-> ip[b]]
      /\ \A b \in Att : ProcOK(b) /\ IpOK(b)
      /\ LinkInv => \A b \in Att : LinkOK(b)
  BY DEF ChainInv, LinkInv
<1>len. Len(chain) \in Nat /\ Len(chain) >= 1 /\ DOMAIN chain = 1 .. Len(chain)
  BY ChainFacts
<1>1. /\ chain' = chain
      /\ \A b \in Att \ {a} : /\ proc'[b] = proc[b] /\ told'[b] = told[b]
                              /\ link'[b] = link[b] /\ ip'[b] = ip[b]
  BY RuntimeFacts
<1>2. /\ proc' = [b \in Att |-> proc'[b]] /\ link' = [b \in Att |-> link'[b]]
      /\ told' = [b \in Att |-> told'[b]] /\ ip' = [b \in Att |-> ip'[b]]
  BY <1>0 DEF Runtime, BeginAdd, BeginDel, BeginCheck, NextPlugin, EndAdd, EndDel, Killed, Ends
<1>3. ASSUME NEW b \in Att \ {a} PROVE ProcOK(b)' /\ (LinkInv => LinkOK(b)')
  BY <1>0, <1>1, <1>3 DEF ProcOK, LinkOK, Stays
<1>4. ASSUME NEW c \in {"add", "del", "check"}, NEW j \in DOMAIN chain,
             proc'[a] = [cmd |-> c, i |-> j, todo |-> Start]
      PROVE  /\ proc'[a].cmd = c /\ proc'[a].i = j /\ IsProc(proc'[a]) /\ c # "none"
  BY <1>4 DEF IsProc
<1>5. proc'[a] = Quit => proc'[a].cmd = "none" /\ IsProc(proc'[a])
  BY DEF Quit, IsProc
<1> DEFINE OfA == ProcOK(a)' /\ (LinkInv => LinkOK(a)')
<1>6. ASSUME ip' = ip, told'[a] = "gone" => told[a] = "gone",
             proc'[a].cmd = "add" \/ told'[a] = "ready" => proc[a].cmd = "add" \/ told[a] = "ready"
      PROVE  \A b \in Att : IpOK(b)'
  BY <1>0, <1>1, <1>6 DEF IpOK
<1>7. ASSUME BeginAdd(a) PROVE OfA /\ \A b \in Att : IpOK(b)'
  <2>1. PICK i \in IPs \ {ip[b] : b \in Att} : ip' = [ip EXCEPT ![a] = i]
    BY <1>7 DEF BeginAdd
  <2>2. proc'[a] = [cmd |-> "add", i |-> 1, todo |-> Start] /\ told'[a] = "unknown"
    BY <1>0, <1>7 DEF BeginAdd, Begin, Start
  <2>3. proc'[a].cmd = "add" /\ proc'[a].i = 1 /\ IsProc(proc'[a]) /\ 1 \in DOMAIN chain
    BY <1>4, <1>len, <2>2
  <2>4. LinkInv => link'[a] \in Links
    BY <1>0, <1>7, BandwidthAssumption DEF BeginAdd, LinkOK
  <2>5. OfA
    BY <1>1, <2>2, <2>3, <2>4, BandwidthAssumption DEF ProcOK, LinkOK
  <2>6. ip'[a] = i /\ i \in IPs /\ \A b \in Att : ip[b] # i
    BY <1>0, <2>1
  <2>7. i # NoIP
    BY <2>6, ChainAssumption
  <2>8. IpOK(a)'
    BY <1>1, <2>2, <2>6, <2>7 DEF IpOK
  <2>9. ASSUME NEW b \in Att \ {a} PROVE IpOK(b)'
    BY <1>0, <1>1, <2>6, <2>9 DEF IpOK
  <2> QED
    BY <2>5, <2>8, <2>9
<1>8. ASSUME BeginDel(a) PROVE OfA /\ \A b \in Att : IpOK(b)'
  <2>1. /\ proc'[a] = [cmd |-> "del", i |-> Len(chain), todo |-> Start] /\ told'[a] = "unknown"
        /\ ip' = ip /\ link' = link
    BY <1>0, <1>8 DEF BeginDel, Begin, Start
  <2>2. proc'[a].cmd = "del" /\ proc'[a].i = Len(chain) /\ IsProc(proc'[a]) /\ Len(chain) \in DOMAIN chain
    BY <1>4, <1>len, <2>1
  <2>3. OfA
    BY <1>0, <1>1, <2>1, <2>2 DEF ProcOK, LinkOK
  <2> QED
    BY <1>6, <2>1, <2>2, <2>3
<1>9. ASSUME BeginCheck(a) PROVE OfA /\ \A b \in Att : IpOK(b)'
  <2>1. /\ proc'[a] = [cmd |-> "check", i |-> 1, todo |-> Start] /\ told' = told /\ told[a] = "ready"
        /\ ip' = ip /\ link' = link
    BY <1>0, <1>9 DEF BeginCheck, Begin, Start
  <2>2. proc'[a].cmd = "check" /\ proc'[a].i = 1 /\ IsProc(proc'[a]) /\ 1 \in DOMAIN chain
    BY <1>4, <1>len, <2>1
  <2>3. OfA
    BY <1>0, <1>1, <2>1, <2>2 DEF ProcOK, LinkOK
  <2> QED
    BY <1>6, <2>1, <2>2, <2>3
<1>10. ASSUME NextPlugin(a) PROVE OfA /\ \A b \in Att : IpOK(b)'
  <2>1. PICK j \in 1 .. Len(chain) :
           /\ proc' = [proc EXCEPT ![a] = Begin(proc[a].cmd, j)]
           /\ ~Idle(a) /\ told' = told /\ ip' = ip /\ link' = link
    BY <1>10 DEF NextPlugin
  <2>2. proc'[a] = [cmd |-> proc[a].cmd, i |-> j, todo |-> Start]
    BY <1>0, <2>1 DEF Begin, Start
  <2>3. proc[a].cmd \in {"add", "del", "check"}
    BY <1>0, <2>1 DEF ProcOK, Idle
  <2>4. proc'[a].cmd = proc[a].cmd /\ proc'[a].i = j /\ IsProc(proc'[a]) /\ j \in DOMAIN chain
    BY <1>4, <1>len, <2>2, <2>3
  <2>5. OfA
    BY <1>0, <1>1, <2>1, <2>3, <2>4 DEF ProcOK, LinkOK, Stays
  <2> QED
    BY <1>6, <2>1, <2>4, <2>5
<1>11. ASSUME EndAdd(a) PROVE OfA /\ \A b \in Att : IpOK(b)'
  <2>1. /\ proc'[a] = Quit /\ told'[a] = "ready" /\ ip' = ip /\ link' = link
        /\ proc[a].cmd \in {"add", "check"}
    BY <1>0, <1>11 DEF EndAdd
  <2>2. proc[a].cmd = "add" \/ told[a] = "ready"
    BY <1>0, <2>1 DEF ProcOK
  <2>3. OfA
    BY <1>0, <1>1, <1>5, <2>1, <2>2 DEF ProcOK, LinkOK
  <2> QED
    BY <1>6, <2>1, <2>2, <2>3
<1>12. ASSUME EndDel(a) PROVE OfA /\ \A b \in Att : IpOK(b)'
  <2>1. /\ proc'[a] = Quit /\ told'[a] = "gone" /\ ip'[a] = NoIP
        /\ link'[a] = IF Stays(a) THEN link[a] ELSE NoLink
    BY <1>0, <1>12 DEF EndDel
  <2>2. Stays(a)' <=> Stays(a)
    BY <1>1 DEF Stays
  <2>3. OfA
    BY <1>0, <1>5, <2>1, <2>2 DEF ProcOK, LinkOK
  <2>4. IpOK(a)'
    BY <1>5, <2>1 DEF IpOK
  <2>5. ASSUME NEW b \in Att \ {a} PROVE IpOK(b)'
    BY <1>0, <1>1, <2>1, <2>5 DEF IpOK
  <2> QED
    BY <2>3, <2>4, <2>5
<1>13. ASSUME Killed(a) PROVE OfA /\ \A b \in Att : IpOK(b)'
  <2>1. proc'[a] = Quit /\ told'[a] \in {"refused", "unknown"} /\ ip' = ip /\ link' = link
    BY <1>0, <1>13 DEF Killed, Ends
  <2>2. OfA
    BY <1>0, <1>5, <2>1 DEF ProcOK, LinkOK
  <2> QED
    BY <1>5, <1>6, <2>1, <2>2
<1>14. OfA /\ \A b \in Att : IpOK(b)'
  BY <1>7, <1>8, <1>9, <1>10, <1>11, <1>12, <1>13 DEF Runtime
<1> QED
  BY <1>0, <1>1, <1>2, <1>3, <1>14 DEF ChainInv, LinkInv

LEMMA ChainInvInit == Init => ChainInv /\ LinkInv
<1> SUFFICES ASSUME Init PROVE ChainInv /\ LinkInv
  OBVIOUS
<1>1. ASSUME NEW a \in Att PROVE proc[a].cmd = "none" /\ IsProc(proc[a]) /\ told[a] = "gone"
  BY DEF Init, ChainInit, Quit, IsProc
<1>2. ASSUME NEW a \in Att PROVE ProcOK(a) /\ LinkOK(a) /\ IpOK(a)
  <2>1. link[a] \in {Fresh[a], NoLink} /\ (link[a] = NoLink \/ Stays(a)) /\ Fresh[a] \in Links
    BY BandwidthAssumption DEF Init, ChainInit
  <2>2. ip[a] = NoIP
    BY DEF Init, ChainInit
  <2> QED
    BY <1>1, <2>1, <2>2 DEF ProcOK, LinkOK, IpOK
<1> QED
  BY <1>2 DEF ChainInv, LinkInv, Init, ChainInit

LEMMA IptSteps ==
  ASSUME NEW a \in Att, NEW plugin, IptStep(a, plugin)
  PROVE  Steps(a) /\ Running(a, plugin) /\ UNCHANGED link
<1>1. Running(a, plugin) /\ ~Idle(a) /\ UNCHANGED link
  BY DEF IptStep, Running
<1>2. CASE EnsureChain(a) \/ CheckRule(a) \/ ClearChain(a) \/ DeleteRule(a)
  BY <1>1, <1>2, CallSteps DEF EnsureChain, CheckRule, ClearChain, DeleteRule
<1>3. CASE InsertRule(a) \/ DeleteChain(a)
  BY <1>1, <1>3, CallSteps DEF InsertRule, DeleteChain, Fail
<1>4. CASE ListRules(a) \/ Abort(a) \/ IptFails(a)
  BY <1>1, <1>4, CallSteps DEF ListRules, Abort, IptFails
<1> QED
  BY <1>1, <1>2, <1>3, <1>4 DEF IptStep

LEMMA PortmapSteps ==
  ASSUME NEW a \in Att, Running(a, "portmap"), PortmapStep(a)
  PROVE  Steps(a) /\ UNCHANGED link
<1>1. ~Idle(a)
  BY DEF Running
<1>2. CASE PortmapStart(a)
  BY <1>1, <1>2, CallSteps DEF PortmapStart, PortmapAdd, PortmapDel, PortmapCheck, UnforwardFound
<1>3. CASE enableLocalnetRouting(a) \/ PurgeFlows(a)
  BY <1>1, <1>3, CallSteps DEF enableLocalnetRouting, PurgeFlows
<1> QED
  BY <1>2, <1>3, IptSteps DEF PortmapStep

LEMMA FirewallSteps ==
  ASSUME NEW a \in Att, Running(a, "firewall"), FirewallStep(a)
  PROVE  Steps(a) /\ UNCHANGED link
<1>1. ~Idle(a)
  BY DEF Running
<1>2. CASE FirewallStart(a)
  BY <1>1, <1>2, CallSteps DEF FirewallStart, FirewalldAdd, FirewalldDel, FirewalldCheck, Sources,
     IptablesAdd, IptablesDel, IptablesCheck
<1>3. CASE LookForRules(a) \/ FirewalldCall(a)
  BY <1>1, <1>3, CallSteps DEF LookForRules, FirewalldCall, addSource, removeSource, querySource
<1> QED
  BY <1>2, <1>3, IptSteps DEF FirewallStep

LEMMA BandwidthSteps ==
  ASSUME NEW a \in Att, Running(a, "bandwidth"), BandwidthStep(a)
  PROVE  Steps(a)
<1>1. ~Idle(a)
  BY DEF Running
<1>2. CASE BandwidthStart(a)
  BY <1>1, <1>2, CallSteps DEF BandwidthStart, BandwidthAdd, BandwidthDel, BandwidthCheck
<1>3. CASE CreateIngressQdisc(a) \/ CreateIfb(a) \/ AddIngress(a) \/ AddFilter(a)
  BY <1>1, <1>3, CallSteps DEF CreateIngressQdisc, CreateIfb, AddIngress, AddFilter
<1>4. CASE ThrottleIfb(a) \/ TeardownIfb(a) \/ TcFails(a)
  BY <1>1, <1>4, CallSteps DEF ThrottleIfb, TeardownIfb, TcFails
<1> QED
  BY <1>2, <1>3, <1>4 DEF BandwidthStep


-----------------------------------------------------------------------------
(* The bandwidth plugin.                                                   *)

\* No two attachments have the same ifb device: its name is a hash of the
\* names of the network and of the container, which is attached to it once.
IfbsApart == \A a, b \in Att : IfbOf[a] = IfbOf[b] => a = b

TcPends(a, op) == TcCall(op) \in ToSet(proc[a].todo)

TcAddCalls == [op : {"root tbf", "ifb", "ingress", "filter", "ifb tbf"}]

\* In an ADD: what is not in place is still to be done.
Shaping(a) ==
    /\ IsSeq(proc[a].todo) /\ ToSet(proc[a].todo) \subseteq TcAddCalls
    /\ proc[a].todo # <<>> => Bandwidths[a] # NoBandwidth
    /\ Bandwidths[a] # NoBandwidth =>
          /\ ShapesIngress(a) => TcPends(a, "root tbf") \/ link[a].root = IngressTbf(a)
          /\ ShapesEgress(a) =>
                /\ TcPends(a, "filter") \/ link[a].redirect = "ifb"
                /\ TcPends(a, "ifb tbf") \/ ifbs[IfbOf[a]] = EgressTbf(a)

\* In a DEL: the device is gone, or is still to be removed.
Unshaping(a) ==
    /\ IsSeq(proc[a].todo) /\ ToSet(proc[a].todo) \subseteq {TcCall("teardown")}
    /\ TcPends(a, "teardown") \/ ifbs[IfbOf[a]] = NoIfb

BwRuns(a) ==
    \/ proc[a].cmd = "add" /\ Shaping(a)
    \/ proc[a].cmd = "del" /\ Unshaping(a)
    \/ proc[a].cmd = "check" /\ proc[a].todo = <<>>

BwOK(a) ==
    /\ Clear(a, "bandwidth") => ifbs[IfbOf[a]] = NoIfb
    /\ Done(a, "bandwidth") /\ Bandwidths[a] # NoBandwidth => InPlace(a)
    /\ Running(a, "bandwidth") => proc[a].todo = Start \/ BwRuns(a)

BwInv ==
    /\ LinkInv
    /\ ifbs = [n \in IfbNames |-> ifbs[n]]
    /\ \A a \in Att : BwOK(a)

LEMMA BwInit == Init => BwInv
<1> SUFFICES ASSUME Init PROVE BwInv
  OBVIOUS
<1>1. ifbs = [n \in IfbNames |-> ifbs[n]] /\ \A a \in Att : ifbs[IfbOf[a]] = NoIfb
  BY DEF Init, BandwidthInit, IfbNames
<1>2. ASSUME NEW a \in Att PROVE proc[a].cmd = "none" /\ told[a] = "gone"
  BY DEF Init, ChainInit, Quit
<1>3. ASSUME NEW a \in Att PROVE BwOK(a)
  BY <1>1, <1>2 DEF BwOK, Done, Ready, Running, Idle
<1> QED
  BY <1>1, <1>3, ChainInvInit DEF BwInv

\* A step of the runtime, or of another plugin.
LEMMA BwQuiet ==
  ASSUME BwInv, ifbs' = ifbs, LinkInv',
         \A b \in Att : /\ Quiet(b, "bandwidth")
                        /\ Done(b, "bandwidth")' \/ (Running(b, "bandwidth")' /\ proc'[b].todo # Start)
                              => link'[b] = link[b]
  PROVE  BwInv'
<1> SUFFICES ASSUME NEW b \in Att PROVE BwOK(b)'
  BY DEF BwInv
<1>1. BwOK(b) /\ Quiet(b, "bandwidth")
  BY DEF BwInv
<1>2. ASSUME Clear(b, "bandwidth")' PROVE (ifbs[IfbOf[b]] = NoIfb)'
  BY <1>1, <1>2 DEF Quiet, BwOK
<1>3. ASSUME Done(b, "bandwidth")', Bandwidths[b] # NoBandwidth PROVE InPlace(b)'
  <2>1. Done(b, "bandwidth") /\ link'[b] = link[b]
    BY <1>1, <1>3 DEF Quiet
  <2> QED
    BY <1>1, <1>3, <2>1 DEF BwOK, InPlace
<1>4. ASSUME Running(b, "bandwidth")', proc'[b].todo # Start PROVE BwRuns(b)'
  <2>1. Running(b, "bandwidth") /\ proc'[b] = proc[b] /\ link'[b] = link[b]
    BY <1>1, <1>4 DEF Quiet
  <2> QED
    BY <1>1, <1>4, <2>1 DEF BwOK, BwRuns, Shaping, Unshaping, TcPends
<1> QED
  BY <1>2, <1>3, <1>4 DEF BwOK

\* Only the interface and the device of a change.
BwTouches(a) ==
    /\ ifbs' = [n \in IfbNames |-> ifbs'[n]]
    /\ \A b \in Att \ {a} : link'[b] = link[b] /\ ifbs'[IfbOf[b]] = ifbs[IfbOf[b]]

\* A step of the plugin: what is left to show of it.
LEMMA BwOwn ==
  ASSUME ChainInv, BwInv, OnePerChain, NEW a \in Att, Steps(a), Running(a, "bandwidth"),
         SameLinks, BwTouches(a),
         Running(a, "bandwidth")' =>
            /\ BwRuns(a)' /\ proc'[a].todo # Start
            /\ proc[a].cmd = "check" => link'[a] = link[a] /\ ifbs' = ifbs
  PROVE  BwInv'
<1>1. /\ Plugins' = Plugins /\ "bandwidth" \in Plugins
      /\ \A b \in Att \ {a} :
            /\ proc'[b] = proc[b] /\ told'[b] = told[b]
            /\ Running(b, "bandwidth")' <=> Running(b, "bandwidth")
            /\ Done(b, "bandwidth")' <=> Done(b, "bandwidth")
            /\ NotBegun(b, "bandwidth")' <=> NotBegun(b, "bandwidth")
            /\ Undone(b, "bandwidth")' <=> Undone(b, "bandwidth")
      /\ told'[a] # "gone" /\ ~NotBegun(a, "bandwidth")'
      /\ Running(a, "bandwidth")' =>
            /\ proc'[a].cmd = proc[a].cmd
            /\ Done(a, "bandwidth")' <=>
                 (Ready(a, "bandwidth") \/ (proc[a].cmd = "add" /\ proc'[a].todo = <<>>))
            /\ Undone(a, "bandwidth")' <=> (proc[a].cmd = "del" /\ proc'[a].todo = <<>>)
      /\ ~Running(a, "bandwidth")' => ~Done(a, "bandwidth")' /\ ~Undone(a, "bandwidth")'
  BY OwnPlugin
<1>2. ASSUME NEW b \in Att \ {a} PROVE BwOK(b)'
  <2>1. BwOK(b) /\ link'[b] = link[b] /\ ifbs'[IfbOf[b]] = ifbs[IfbOf[b]]
    BY DEF BwInv, BwTouches
  <2>2. Clear(b, "bandwidth")' => Clear(b, "bandwidth")
    BY <1>1 DEF Clear
  <2>3. InPlace(b) => InPlace(b)'
    BY <2>1 DEF InPlace
  <2>4. BwRuns(b) => BwRuns(b)'
    BY <1>1, <2>1 DEF BwRuns, Shaping, Unshaping, TcPends
  <2> QED
    BY <1>1, <2>1, <2>2, <2>3, <2>4 DEF BwOK
<1>3. BwOK(a)'
  <2>1. CASE ~Running(a, "bandwidth")'
    BY <1>1, <2>1 DEF BwOK, Clear
  <2>2. CASE Running(a, "bandwidth")'
    <3>1. BwRuns(a)' /\ proc'[a].todo # Start /\ proc'[a].cmd = proc[a].cmd
      BY <1>1, <2>2
    <3>2. ASSUME Clear(a, "bandwidth")' PROVE (ifbs[IfbOf[a]] = NoIfb)'
      <4>1. proc'[a].cmd = "del" /\ proc'[a].todo = <<>>
        BY <1>1, <2>2, <3>1, <3>2 DEF Clear
      <4>2. Unshaping(a)'
        BY <3>1, <4>1 DEF BwRuns
      <4> QED
        BY <4>1, <4>2, NoSeq DEF Unshaping, TcPends
    <3>3. ASSUME Done(a, "bandwidth")', Bandwidths[a] # NoBandwidth PROVE InPlace(a)'
      <4>1. CASE proc[a].cmd = "add" /\ proc'[a].todo = <<>>
        <5>1. Shaping(a)'
          BY <3>1, <4>1 DEF BwRuns
        <5> QED
          BY <3>3, <4>1, <5>1, NoSeq DEF Shaping, TcPends, InPlace
      <4>2. CASE Ready(a, "bandwidth")
        <5>1. proc[a].cmd = "check"
          BY <4>2 DEF Ready, ChainInv, ProcOK, Running, Idle
        <5>2. InPlace(a)
          BY <3>3, <4>2 DEF BwInv, BwOK, Done
        <5> QED
          BY <2>2, <5>1, <5>2 DEF InPlace
      <4> QED
        BY <1>1, <2>2, <3>3, <4>1, <4>2
    <3> QED
      BY <3>1, <3>2, <3>3 DEF BwOK
  <2> QED
    BY <2>1, <2>2
<1>4. LinkInv'
  BY ChainKept DEF BwInv, SameLinks
<1> QED
  BY <1>2, <1>3, <1>4 DEF BwInv, BwTouches

\* The call at the head of a process that has begun.
LEMMA TcHead ==
  ASSUME ChainInv, BwInv, NEW a \in Att, Running(a, "bandwidth"), proc[a].todo # <<>>,
         Call(a).op # "start"
  PROVE  /\ IsSeq(Rest(a))
         /\ \/ /\ proc[a].cmd = "add" /\ Shaping(a) /\ Bandwidths[a] # NoBandwidth
               /\ ToSet(Rest(a)) \subseteq TcAddCalls /\ link[a] \in Links
               /\ Call(a).op \in {"root tbf", "ifb", "ingress", "filter", "ifb tbf"}
               /\ \A op : TcPends(a, op) => op = Call(a).op \/ TcCall(op) \in ToSet(Rest(a))
            \/ /\ proc[a].cmd = "del" /\ Unshaping(a) /\ Call(a).op = "teardown"
               /\ ToSet(Rest(a)) \subseteq {TcCall("teardown")}
<1>1. proc[a].todo # Start
  BY DEF Call, Start
<1>2. BwRuns(a)
  BY <1>1 DEF BwInv, BwOK
<1>3. CASE proc[a].cmd = "add" /\ Shaping(a)
  <2>1. IsSeq(Rest(a)) /\ ToSet(proc[a].todo) = {Call(a)} \cup ToSet(Rest(a))
    BY <1>3, TailSeq DEF Shaping, Call, Rest
  <2>2. Call(a) \in TcAddCalls /\ ToSet(Rest(a)) \subseteq TcAddCalls
    BY <1>3, <2>1 DEF Shaping
  <2>3. \A op : TcPends(a, op) => op = Call(a).op \/ TcCall(op) \in ToSet(Rest(a))
    BY <2>1 DEF TcPends, TcCall
  <2>4. link[a] \in Links
    BY <1>3 DEF BwInv, LinkInv, LinkOK
  <2>5. Call(a).op \in {"root tbf", "ifb", "ingress", "filter", "ifb tbf"}
    BY <2>2 DEF TcAddCalls
  <2>6. Bandwidths[a] # NoBandwidth
    BY <1>3 DEF Shaping
  <2> QED
    BY <1>3, <2>1, <2>2, <2>3, <2>4, <2>5, <2>6
<1>4. CASE proc[a].cmd = "del" /\ Unshaping(a)
  <2>1. IsSeq(Rest(a)) /\ ToSet(proc[a].todo) = {Call(a)} \cup ToSet(Rest(a))
    BY <1>4, TailSeq DEF Unshaping, Call, Rest
  <2>2. Call(a) = TcCall("teardown") /\ ToSet(Rest(a)) \subseteq {TcCall("teardown")}
    BY <1>4, <2>1 DEF Unshaping
  <2> QED
    BY <1>4, <2>1, <2>2 DEF TcCall
<1> QED
  BY <1>2, <1>3, <1>4 DEF BwRuns

LEMMA TcNotStart ==
  ASSUME NEW s, ToSet(s) \subseteq TcAddCalls \/ ToSet(s) \subseteq {TcCall("teardown")}
  PROVE  s # Start /\ s # Failed
<1>1. ToSet(Start) = {[op |-> "start"]} /\ ToSet(Failed) = {[op |-> "abort"]}
  BY OneSeq DEF Start, Failed
<1>2. /\ [op |-> "start"] \notin TcAddCalls \cup {TcCall("teardown")}
      /\ [op |-> "abort"] \notin TcAddCalls \cup {TcCall("teardown")}
  BY DEF TcAddCalls, TcCall
<1> QED
  BY <1>1, <1>2

\* The token buckets that are configured.
LEMMA TbfTypes ==
  ASSUME NEW a \in Att, Bandwidths[a] # NoBandwidth
  PROVE  /\ IngressTbf(a) \in Tbfs /\ EgressTbf(a) \in Tbfs
         /\ EgressTbf(a) # NoTbf /\ EgressTbf(a) # NoIfb /\ NoTbf # NoIfb
         /\ isZero(Bandwidths[a]) => ~ShapesIngress(a) /\ ~ShapesEgress(a)
<1>1. Bandwidths[a] \in [ingressRate : Nat, ingressBurst : Nat, egressRate : Nat, egressBurst : Nat]
  BY BandwidthAssumption
<1>2. /\ Bandwidths[a].ingressRate \in Nat /\ Bandwidths[a].ingressBurst \in Nat
      /\ Bandwidths[a].egressRate \in Nat /\ Bandwidths[a].egressBurst \in Nat
  BY <1>1
<1>3. \A x \in Nat : x \div 8 \in Nat
  OBVIOUS
<1>4. IngressTbf(a) \in Tbfs /\ EgressTbf(a) \in Tbfs
  BY <1>2, <1>3 DEF IngressTbf, EgressTbf, Tbf, Tbfs
<1>5. isZero(Bandwidths[a]) => ~ShapesIngress(a) /\ ~ShapesEgress(a)
  BY <1>2 DEF isZero, ShapesIngress, ShapesEgress
<1> QED
  BY <1>4, <1>5, BandwidthAssumption

\* Nothing of the interfaces and the devices changes.
LEMMA BwSame ==
  ASSUME ChainInv, BwInv, NEW a \in Att, UNCHANGED <<link, ifbs>>
  PROVE  SameLinks /\ BwTouches(a)
BY DEF ChainInv, LinkInv, LinkOK, SameLinks, BwInv, BwTouches

\* The calls that the plugin starts with.
LEMMA BwStarts ==
  ASSUME ChainInv, BwInv, OnePerChain, NEW a \in Att, Running(a, "bandwidth"), BandwidthStart(a)
  PROVE  BwInv'
<1>1. UNCHANGED <<link, ifbs>> /\ SameLinks /\ BwTouches(a) /\ Steps(a)
  BY BwSame, BandwidthSteps DEF BandwidthStart, BandwidthStep
<1>2. ASSUME NEW s, Do(a, s), proc[a].cmd = "add" => Shaping(a)',
             proc[a].cmd = "del" => Unshaping(a)', proc[a].cmd = "check" => s = <<>>,
             proc[a].cmd \in {"add", "del", "check"}
      PROVE  BwInv'
  <2>1. proc'[a].cmd = proc[a].cmd /\ proc'[a].todo = s
    BY <1>2, DoFacts
  <2>2. BwRuns(a)'
    BY <1>2, <2>1 DEF BwRuns
  <2>3. proc'[a].todo # Start
    <3>1. s = <<>> => s # Start
      BY DEF Start
    <3> QED
      BY <1>2, <2>1, <3>1, TcNotStart DEF Shaping, Unshaping
  <2> QED
    BY <1>1, <2>2, <2>3, BwOwn
<1>3. ASSUME Error(a) PROVE BwInv'
  BY <1>1, <1>3, ErrorFacts, BwOwn
<1>4. ASSUME BandwidthAdd(a) PROVE BwInv'
  <2>1. proc[a].cmd = "add"
    BY <1>4 DEF BandwidthAdd
  <2>2. ASSUME Do(a, <<>>), Bandwidths[a] # NoBandwidth => isZero(Bandwidths[a])
        PROVE  BwInv'
    <3>1. proc'[a].todo = <<>>
      BY <2>2, DoFacts
    <3>2. Shaping(a)'
      BY <2>2, <3>1, NoSeq, TbfTypes DEF Shaping
    <3> QED
      BY <1>2, <2>1, <2>2, <3>2
  <2> DEFINE s == (IF ShapesIngress(a) THEN <<TcCall("root tbf")>> ELSE <<>>)
                  \o (IF ShapesEgress(a)
                      THEN <<TcCall("ifb"), TcCall("ingress"), TcCall("filter"), TcCall("ifb tbf")>>
                      ELSE <<>>)
  <2>3. ASSUME Do(a, s), Bandwidths[a] # NoBandwidth PROVE BwInv'
    <3> DEFINE in == IF ShapesIngress(a) THEN <<TcCall("root tbf")>> ELSE <<>>
               four == <<TcCall("ifb"), TcCall("ingress"), TcCall("filter"), TcCall("ifb tbf")>>
               out == IF ShapesEgress(a) THEN four ELSE <<>>
    <3>1. /\ IsSeq(in) /\ ToSet(in) \subseteq TcAddCalls
          /\ ShapesIngress(a) => TcCall("root tbf") \in ToSet(in)
      <4>1. TcCall("root tbf") \in TcAddCalls
        BY DEF TcCall, TcAddCalls
      <4> QED
        BY <4>1, NoSeq, OneSeq
    <3>2. /\ IsSeq(four) /\ ToSet(four) \subseteq TcAddCalls
          /\ TcCall("filter") \in ToSet(four) /\ TcCall("ifb tbf") \in ToSet(four)
      <4>1. /\ TcCall("ifb") \in TcAddCalls /\ TcCall("ingress") \in TcAddCalls
            /\ TcCall("filter") \in TcAddCalls /\ TcCall("ifb tbf") \in TcAddCalls
        BY DEF TcCall, TcAddCalls
      <4>2. /\ IsSeq(four)
            /\ ToSet(four) = {TcCall("ifb"), TcCall("ingress"), TcCall("filter"), TcCall("ifb tbf")}
        BY FourSeq
      <4> HIDE DEF four
      <4> QED
        BY <4>1, <4>2
    <3> HIDE DEF four
    <3>3. /\ IsSeq(out) /\ ToSet(out) \subseteq TcAddCalls
          /\ ShapesEgress(a) => TcCall("filter") \in ToSet(out) /\ TcCall("ifb tbf") \in ToSet(out)
      BY <3>2, NoSeq
    <3>4. s = in \o out
      BY DEF four
    <3> HIDE DEF in, out, s
    <3>5. IsSeq(s) /\ ToSet(s) = ToSet(in) \cup ToSet(out)
      BY <3>1, <3>3, <3>4, ConcatSeq
    <3>6. proc'[a].todo = s
      BY <2>3, DoFacts
    <3>7. Shaping(a)'
      BY <2>3, <3>1, <3>3, <3>5, <3>6 DEF Shaping, TcPends
    <3> QED
      BY <1>2, <2>1, <2>3, <3>7
  <2> QED
    BY <1>3, <1>4, <2>2, <2>3 DEF BandwidthAdd
<1>5. ASSUME BandwidthDel(a) PROVE BwInv'
  <2>1. proc[a].cmd = "del"
    BY <1>5 DEF BandwidthDel
  <2>2. ASSUME Do(a, <<TcCall("teardown")>>) PROVE BwInv'
    <3>1. proc'[a].todo = <<TcCall("teardown")>>
      BY <2>2, DoFacts
    <3>2. Unshaping(a)'
      BY <3>1, OneSeq DEF Unshaping, TcPends
    <3> QED
      BY <1>2, <2>1, <2>2, <3>2
  <2> QED
    BY <1>3, <1>5, <2>2 DEF BandwidthDel
<1>6. ASSUME BandwidthCheck(a) PROVE BwInv'
  BY <1>2, <1>3, <1>6 DEF BandwidthCheck
<1> QED
  BY <1>1, <1>4, <1>5, <1>6 DEF BandwidthStart

LEMMA TeardownLinks ==
  ASSUME LinkInv, NEW a \in Att,
         link' = [b \in Att |-> IF link[b] = NoLink THEN NoLink
                                ELSE IF IfbOf[b] = IfbOf[a] /\ link[b].redirect = "ifb"
                                THEN [link[b] EXCEPT !.redirect = "dangling"]
                                ELSE link[b]]
  PROVE  SameLinks
<1>1. ASSUME NEW b \in Att
      PROVE  /\ link'[b] \in Links \cup {NoLink}
             /\ link'[b] = NoLink <=> link[b] = NoLink
  <2>1. link[b] \in Links \cup {NoLink} /\ NoLink \notin Links
    BY BandwidthAssumption DEF LinkInv, LinkOK
  <2> DEFINE r == [link[b] EXCEPT !.redirect = "dangling"]
  <2>2. link[b] \in Links => r \in Links
    BY DEF Links
  <2>3. link'[b] = IF link[b] = NoLink THEN NoLink
                   ELSE IF IfbOf[b] = IfbOf[a] /\ link[b].redirect = "ifb" THEN r ELSE link[b]
    OBVIOUS
  <2> HIDE DEF r
  <2> QED
    BY <2>1, <2>2, <2>3
<1> QED
  BY <1>1 DEF SameLinks

\* A change of one field of the interface of a.
LEMMA LinkSet ==
  ASSUME ChainInv, LinkInv, NEW a \in Att, link[a] \in Links, NEW r \in Links,
         link' = [link EXCEPT ![a] = r]
  PROVE  SameLinks /\ link'[a] = r /\ \A b \in Att \ {a} : link'[b] = link[b]
<1>1. link = [b \in Att |-> link[b]] /\ NoLink \notin Links
  BY BandwidthAssumption DEF ChainInv
<1>2. \A b \in Att : link[b] \in Links \cup {NoLink}
  BY DEF LinkInv, LinkOK
<1> QED
  BY <1>1, <1>2 DEF SameLinks

\* A change of the device of a.
LEMMA IfbSet ==
  ASSUME BwInv, IfbsApart, NEW a \in Att, NEW x, ifbs' = [ifbs EXCEPT ![IfbOf[a]] = x]
  PROVE  /\ ifbs' = [n \in IfbNames |-> ifbs'[n]] /\ ifbs'[IfbOf[a]] = x
         /\ \A b \in Att \ {a} : ifbs'[IfbOf[b]] = ifbs[IfbOf[b]]
BY DEF BwInv, IfbsApart, IfbNames

LEMMA BwOwnStep ==
  ASSUME ChainInv, BwInv, OnePerChain, IfbsApart, NEW a \in Att,
         Running(a, "bandwidth"), BandwidthStep(a)
  PROVE  BwInv'
<1>1. Steps(a)
  BY BandwidthSteps
<1>2. CASE BandwidthStart(a)
  BY <1>2, BwStarts
<1>3. CASE TcFails(a)
  <2>1. UNCHANGED <<link, ifbs>> /\ SameLinks /\ BwTouches(a)
    BY <1>3, BwSame DEF TcFails
  <2>2. ~Running(a, "bandwidth")'
    BY <1>3, ErrorFacts, FaultFacts DEF TcFails
  <2> QED
    BY <1>1, <2>1, <2>2, BwOwn
<1> DEFINE OfAdd == /\ proc[a].cmd = "add" /\ Shaping(a) /\ Bandwidths[a] # NoBandwidth
                    /\ ToSet(Rest(a)) \subseteq TcAddCalls /\ link[a] \in Links
                    /\ \A op : TcPends(a, op) => op = Call(a).op \/ TcCall(op) \in ToSet(Rest(a))
                    /\ IsSeq(Rest(a)) /\ Rest(a) # Start
<1>4. ASSUME NEW op \in {"root tbf", "ifb", "ingress", "filter", "ifb tbf"}, At(a, "bandwidth", op)
      PROVE  OfAdd /\ Call(a).op = op
  <2>1. Call(a).op = op /\ proc[a].todo # <<>> /\ op # "start" /\ op # "teardown"
    BY <1>4 DEF At, Call
  <2>2. ToSet(Rest(a)) \subseteq TcAddCalls => Rest(a) # Start
    BY TcNotStart
  <2> QED
    BY <2>1, <2>2, TcHead
\* What is left to show of a call of an ADD.
<1>5. ASSUME OfAdd, Do(a, Rest(a)), BwTouches(a),
             SameLinks,
             link'[a].root = link[a].root \/ (Call(a).op = "root tbf" /\ link'[a].root = IngressTbf(a)),
             link'[a].redirect = link[a].redirect \/ link'[a].redirect = "ifb",
             Call(a).op = "root tbf" => link'[a].root = IngressTbf(a),
             Call(a).op = "filter" => link'[a].redirect = "ifb",
             Call(a).op = "ifb tbf" => ifbs'[IfbOf[a]] = EgressTbf(a),
             ifbs[IfbOf[a]] = EgressTbf(a) => ifbs'[IfbOf[a]] = EgressTbf(a)
      PROVE  BwInv'
  <2>1. proc'[a].cmd = "add" /\ proc'[a].todo = Rest(a)
    BY <1>5, DoFacts
  <2>2. \A op : op # Call(a).op /\ TcPends(a, op) => TcPends(a, op)'
    BY <1>5, <2>1 DEF TcPends
  <2>3. ShapesIngress(a) => TcPends(a, "root tbf")' \/ link'[a].root = IngressTbf(a)
    BY <1>5, <2>2 DEF Shaping
  <2>4. ShapesEgress(a) => TcPends(a, "filter")' \/ link'[a].redirect = "ifb"
    BY <1>5, <2>2 DEF Shaping
  <2>5. ShapesEgress(a) => TcPends(a, "ifb tbf")' \/ ifbs'[IfbOf[a]] = EgressTbf(a)
    BY <1>5, <2>2 DEF Shaping
  <2>6. Shaping(a)'
    BY <1>5, <2>1, <2>3, <2>4, <2>5 DEF Shaping
  <2>7. BwRuns(a)' /\ proc'[a].todo # Start
    BY <1>5, <2>1, <2>6 DEF BwRuns
  <2>8. proc[a].cmd # "check"
    BY <1>5
  <2> QED
    BY <1>1, <1>5, <2>7, <2>8, BwOwn
<1> HIDE DEF OfAdd
<1>6. CASE CreateIngressQdisc(a)
  <2>1. /\ OfAdd /\ Call(a).op = "root tbf" /\ Do(a, Rest(a)) /\ ifbs' = ifbs
        /\ link' = [link EXCEPT ![a].root = IngressTbf(a)]
    BY <1>4, <1>6 DEF CreateIngressQdisc
  <2>2. link[a] \in Links /\ IngressTbf(a) \in Tbfs
    BY <2>1, TbfTypes DEF OfAdd
  <2> DEFINE r == [link[a] EXCEPT !.root = IngressTbf(a)]
  <2>3. r \in Links /\ r.root = IngressTbf(a) /\ r.redirect = link[a].redirect
    BY <2>2 DEF Links
  <2>4. link' = [link EXCEPT ![a] = r]
    BY <2>1
  <2> HIDE DEF r
  <2>5. SameLinks /\ link'[a] = r /\ BwTouches(a)
    BY <2>1, <2>2, <2>3, <2>4, LinkSet DEF BwTouches, BwInv
  <2> QED
    BY <1>5, <2>1, <2>3, <2>5
<1>7. CASE CreateIfb(a)
  <2>1. /\ OfAdd /\ Call(a).op = "ifb" /\ Do(a, Rest(a)) /\ link' = link
        /\ ifbs' = [ifbs EXCEPT ![IfbOf[a]] = NoTbf] /\ ifbs[IfbOf[a]] = NoIfb
    BY <1>4, <1>7 DEF CreateIfb, Refused
  <2>2. EgressTbf(a) # NoIfb
    BY <2>1, TbfTypes DEF OfAdd
  <2>3. SameLinks /\ BwTouches(a)
    BY <2>1, IfbSet DEF BwTouches, ChainInv, BwInv, LinkInv, LinkOK, SameLinks
  <2> QED
    BY <1>5, <2>1, <2>2, <2>3
<1>8. CASE AddIngress(a)
  <2>1. /\ OfAdd /\ Call(a).op = "ingress" /\ Do(a, Rest(a)) /\ ifbs' = ifbs
        /\ link' = [link EXCEPT ![a].ingress = TRUE]
    BY <1>4, <1>8 DEF AddIngress
  <2>2. link[a] \in Links
    BY <2>1 DEF OfAdd
  <2> DEFINE r == [link[a] EXCEPT !.ingress = TRUE]
  <2>3. r \in Links /\ r.root = link[a].root /\ r.redirect = link[a].redirect
    BY <2>2 DEF Links
  <2>4. link' = [link EXCEPT ![a] = r]
    BY <2>1
  <2> HIDE DEF r
  <2>5. SameLinks /\ link'[a] = r /\ BwTouches(a)
    BY <2>1, <2>2, <2>3, <2>4, LinkSet DEF BwTouches, BwInv
  <2> QED
    BY <1>5, <2>1, <2>3, <2>5
<1>9. CASE AddFilter(a)
  <2>1. /\ OfAdd /\ Call(a).op = "filter" /\ Do(a, Rest(a)) /\ ifbs' = ifbs
        /\ link' = [link EXCEPT ![a].redirect = "ifb"]
    BY <1>4, <1>9 DEF AddFilter
  <2>2. link[a] \in Links
    BY <2>1 DEF OfAdd
  <2> DEFINE r == [link[a] EXCEPT !.redirect = "ifb"]
  <2>3. r \in Links /\ r.root = link[a].root /\ r.redirect = "ifb"
    BY <2>2 DEF Links
  <2>4. link' = [link EXCEPT ![a] = r]
    BY <2>1
  <2> HIDE DEF r
  <2>5. SameLinks /\ link'[a] = r /\ BwTouches(a)
    BY <2>1, <2>2, <2>3, <2>4, LinkSet DEF BwTouches, BwInv
  <2> QED
    BY <1>5, <2>1, <2>3, <2>5
<1>10. CASE ThrottleIfb(a)
  <2>1. /\ OfAdd /\ Call(a).op = "ifb tbf" /\ Do(a, Rest(a)) /\ link' = link
        /\ ifbs' = [ifbs EXCEPT ![IfbOf[a]] = EgressTbf(a)]
    BY <1>4, <1>10 DEF ThrottleIfb
  <2>2. SameLinks /\ BwTouches(a) /\ ifbs'[IfbOf[a]] = EgressTbf(a)
    BY <2>1, IfbSet DEF BwTouches, ChainInv, BwInv, LinkInv, LinkOK, SameLinks
  <2> QED
    BY <1>5, <2>1, <2>2
<1>11. CASE TeardownIfb(a)
  <2>1. /\ Call(a).op = "teardown" /\ proc[a].todo # <<>> /\ Do(a, Rest(a))
        /\ ifbs' = [ifbs EXCEPT ![IfbOf[a]] = NoIfb]
        /\ link' = [b \in Att |-> IF link[b] = NoLink THEN NoLink
                                  ELSE IF IfbOf[b] = IfbOf[a] /\ link[b].redirect = "ifb"
                                  THEN [link[b] EXCEPT !.redirect = "dangling"]
                                  ELSE link[b]]
    BY <1>11 DEF TeardownIfb, At, Call
  <2>2. /\ proc[a].cmd = "del" /\ ToSet(Rest(a)) \subseteq {TcCall("teardown")} /\ IsSeq(Rest(a))
    BY <2>1, TcHead
  <2>3. \A b \in Att \ {a} : link'[b] = link[b]
    BY <2>1 DEF IfbsApart
  <2>4. BwTouches(a) /\ ifbs'[IfbOf[a]] = NoIfb /\ SameLinks
    BY <2>1, <2>3, IfbSet, TeardownLinks DEF BwTouches, BwInv
  <2>5. proc'[a].cmd = "del" /\ proc'[a].todo = Rest(a)
    BY <2>1, <2>2, DoFacts
  <2>6. BwRuns(a)' /\ proc'[a].todo # Start
    BY <2>2, <2>4, <2>5, TcNotStart DEF BwRuns, Unshaping
  <2>7. proc[a].cmd # "check"
    BY <2>2
  <2> QED
    BY <1>1, <2>4, <2>6, <2>7, BwOwn
<1> QED
  BY <1>2, <1>3, <1>6, <1>7, <1>8, <1>9, <1>10, <1>11 DEF BandwidthStep

LEMMA ChainNext ==
  ASSUME ChainInv, [Next]_vars
  PROVE  ChainInv'
<1>1. ASSUME UNCHANGED chainVars PROVE ChainInv'
  BY <1>1 DEF chainVars, ChainInv, ProcOK, IpOK
<1>2. ASSUME NEW a \in Att, RuntimeStep(a) PROVE ChainInv'
  BY <1>2, ChainRuntime DEF RuntimeStep
<1>3. ASSUME NEW a \in Att, PluginStep(a) PROVE ChainInv'
  <2>1. link = [b \in Att |-> link[b]]
    BY DEF ChainInv
  <2>2. Steps(a)
    BY <1>3, PortmapSteps, FirewallSteps, BandwidthSteps DEF PluginStep
  <2>3. link' = [b \in Att |-> link'[b]]
    <3>1. CASE BandwidthStep(a)
      BY <2>1, <3>1 DEF BandwidthStep, BandwidthStart, CreateIngressQdisc, CreateIfb, AddIngress,
                        AddFilter, ThrottleIfb, TeardownIfb, TcFails
    <3> QED
      BY <1>3, <2>1, <3>1, PortmapSteps, FirewallSteps DEF PluginStep
  <2> QED
    BY <2>2, <2>3, ChainKept
<1>4. ASSUME NEW f \in Usable, NEW p \in UdpPorts, Traffic(f, p) PROVE ChainInv'
  BY <1>1, <1>4 DEF Traffic, NewFlow, FlowExpires
<1>5. CASE UNCHANGED vars
  BY <1>1, <1>5 DEF vars
<1> QED
  BY <1>2, <1>3, <1>4, <1>5 DEF Next

LEMMA ChainInvariant == Spec => []ChainInv
BY ChainInvInit, ChainNext, PTL DEF Spec

\* Nothing of the runtime changes.
LEMMA QuietSame ==
  ASSUME UNCHANGED chainVars, NEW b, NEW plugin
  PROVE  Quiet(b, plugin)
<1>1. UNCHANGED <<chain, proc, told, link, ip>>
  BY DEF chainVars
<1> QED
  BY <1>1 DEF Quiet, Clear, Done, NotBegun, Undone, Ready, Behind, Ahead, Running, Idle, Plugins

LEMMA BwNext ==
  ASSUME ChainInv, BwInv, OnePerChain, IfbsApart, [Next]_vars
  PROVE  BwInv'
<1>1. ASSUME UNCHANGED <<chainVars, ifbs>> PROVE BwInv'
  <2>1. UNCHANGED <<chain, told, link, ifbs>> /\ UNCHANGED proc
    BY <1>1 DEF chainVars
  <2>2. LinkInv'
    BY <2>1 DEF BwInv, LinkInv, LinkOK, Stays
  <2>3. \A b \in Att : Quiet(b, "bandwidth")
    BY <1>1, QuietSame
  <2> QED
    BY <2>1, <2>2, <2>3, BwQuiet
<1>2. ASSUME NEW a \in Att, RuntimeStep(a) PROVE BwInv'
  <2>1. Runtime(a) /\ ifbs' = ifbs
    BY <1>2 DEF RuntimeStep
  <2>2. \A b \in Att : Quiet(b, "bandwidth")
    BY <2>1, RuntimeQuiet
  <2>3. \A b \in Att : Done(b, "bandwidth")' \/ (Running(b, "bandwidth")' /\ proc'[b].todo # Start)
                          => link'[b] = link[b]
    BY <2>1, RuntimeFacts
  <2>4. LinkInv'
    BY <2>1, ChainRuntime DEF BwInv
  <2> QED
    BY <2>1, <2>2, <2>3, <2>4, BwQuiet
<1>3. ASSUME NEW a \in Att, ~Running(a, "bandwidth"), Steps(a), UNCHANGED <<link, ifbs>>
      PROVE  BwInv'
  <2>1. \A b \in Att : Quiet(b, "bandwidth")
    BY <1>3, OtherPlugin
  <2>2. LinkInv'
    BY <1>3, BwSame, ChainKept DEF BwInv, SameLinks
  <2> QED
    BY <1>3, <2>1, <2>2, BwQuiet
<1>4. ASSUME NEW a \in Att, PluginStep(a) PROVE BwInv'
  <2>1. CASE Running(a, "portmap") /\ PortmapStep(a) /\ UNCHANGED <<firewallVars, ifbs>>
    <3>1. ~Running(a, "bandwidth")
      BY <2>1 DEF Running
    <3> QED
      BY <1>3, <2>1, <3>1, PortmapSteps
  <2>2. CASE Running(a, "firewall") /\ FirewallStep(a) /\ UNCHANGED <<portmapVars, ifbs>>
    <3>1. ~Running(a, "bandwidth")
      BY <2>2 DEF Running
    <3> QED
      BY <1>3, <2>2, <3>1, FirewallSteps
  <2>3. CASE Running(a, "bandwidth") /\ BandwidthStep(a)
    BY <2>3, BwOwnStep
  <2> QED
    BY <1>4, <2>1, <2>2, <2>3 DEF PluginStep
<1>5. ASSUME NEW f \in Usable, NEW p \in UdpPorts, Traffic(f, p) PROVE BwInv'
  BY <1>1, <1>5 DEF Traffic, NewFlow, FlowExpires
<1>6. CASE UNCHANGED vars
  BY <1>1, <1>6 DEF vars
<1> QED
  BY <1>2, <1>4, <1>5, <1>6 DEF Next

LEMMA BwInvariant == OnePerChain /\ IfbsApart => (Spec => []BwInv)
<1> SUFFICES ASSUME OnePerChain, IfbsApart PROVE Spec => []BwInv
  OBVIOUS
<1>1. ChainInv /\ BwInv /\ [Next]_vars => BwInv'
  BY BwNext
<1> QED
  BY <1>1, BwInit, ChainInvariant, PTL DEF Spec

(* An attachment that is ready is shaped as configured, and no ifb device  *)
(* outlives its attachment, with any number of attachments, any limits,    *)
(* failing calls and kills (cmdAdd and cmdDel of plugins/meta/bandwidth).  *)
THEOREM TrafficIsShaped == OnePerChain /\ IfbsApart => (Spec => []Shaped)
<1> SUFFICES ASSUME OnePerChain, IfbsApart PROVE Spec => []Shaped
  OBVIOUS
<1>1. BwInv => Shaped
  BY DEF BwInv, BwOK, Done, Clear, Shaped
<1> QED
  BY <1>1, BwInvariant, PTL

-----------------------------------------------------------------------------
(* The tables of iptables.                                                 *)

\* Rule p of s is removed.
Without(s, p) == [i \in 1 .. (Len(s) - 1) |-> IF i < p THEN s[i] ELSE s[i + 1]]

LEMMA RemoveFacts ==
  ASSUME NEW s, IsSeq(s), NEW x \in ToSet(s)
  PROVE  \E p \in 1 .. Len(s) : s[p] = x /\ RemoveFirst(s, x) = Without(s, p)
<1>1. Len(s) \in Nat /\ DOMAIN s = 1 .. Len(s) /\ s \in Seq(ToSet(s))
  BY SeqFacts DEF IsSeq
<1> DEFINE I == {i \in 1 .. Len(s) : s[i] = x}
           p == CHOOSE y \in I : \A z \in I : y <= z
<1>2. I # {} /\ I \in SUBSET Nat
  <2>1. PICK i \in 1 .. Len(s) : s[i] = x
    BY SeqFacts
  <2>2. i \in I
    BY <2>1
  <2>3. \A j \in 1 .. Len(s) : j \in Nat
    BY <1>1
  <2> QED
    BY <2>2, <2>3
<1>3. p \in I
  BY <1>2, LeastNat
<1>4. RemoveFirst(s, x) = RemoveAt(s, p)
  BY <1>2 DEF RemoveFirst, SelectInSeq, Min
<1> HIDE DEF p
<1>5. p \in 1 .. Len(s) /\ s[p] = x
  BY <1>3
<1> HIDE DEF I
<1> DEFINE l == SubSeq(s, 1, p - 1)
           r == SubSeq(s, p + 1, Len(s))
<1>6. /\ l \in Seq(ToSet(s)) /\ Len(l) = p - 1
      /\ \A i \in 1 .. (p - 1) : l[i] = s[i]
  <2>1. \A i \in 1 .. (p - 1) : s[i] \in ToSet(s)
    BY <1>1, <1>5, SeqFacts
  <2>2. 1 \in 1 .. (Len(s) + 1) /\ p - 1 \in 0 .. Len(s)
    BY <1>1, <1>5
  <2> QED
    BY <1>1, <1>5, <2>1, <2>2, SubSeqProperties
<1>7. /\ r \in Seq(ToSet(s)) /\ Len(r) = Len(s) - p
      /\ \A i \in 1 .. (Len(s) - p) : r[i] = s[p + i]
  <2>1. \A i \in (p + 1) .. Len(s) : s[i] \in ToSet(s)
    BY <1>1, <1>5, SeqFacts
  <2>2. p + 1 \in 1 .. (Len(s) + 1) /\ Len(s) \in 0 .. Len(s)
    BY <1>1, <1>5
  <2>3. CASE p + 1 <= Len(s)
    BY <1>1, <1>5, <2>1, <2>2, <2>3, SubSeqProperties
  <2>4. CASE ~(p + 1 <= Len(s))
    <3>0. Len(s) \in Nat /\ p \in Nat /\ p <= Len(s) /\ ~(p + 1 <= Len(s))
      <4> HIDE DEF l, r
      <4> QED
        BY <1>1, <1>5, <2>4
    <3>1. Len(s) - p = 0 /\ p + 1 > Len(s) /\ p + 1 \in Int
      BY <3>0
    <3>2. r = <<>>
      BY <3>0, <3>1, SubSeqEmpty
    <3> HIDE DEF r
    <3> QED
      BY <3>1, <3>2
  <2> QED
    BY <2>3, <2>4
<1>8. RemoveFirst(s, x) = l \o r
  BY <1>4 DEF RemoveAt
<1> HIDE DEF l, r
<1>9. /\ Len(l \o r) = Len(s) - 1 /\ DOMAIN (l \o r) = 1 .. (Len(s) - 1)
      /\ \A i \in 1 .. (Len(s) - 1) : (l \o r)[i] = IF i <= p - 1 THEN l[i] ELSE r[i - (p - 1)]
  <2>1. (p - 1) + (Len(s) - p) = Len(s) - 1
    BY <1>1, <1>5
  <2>2. /\ l \o r \in Seq(ToSet(s)) /\ Len(l \o r) = Len(l) + Len(r)
        /\ \A i \in 1 .. (Len(l) + Len(r)) : (l \o r)[i] = IF i <= Len(l) THEN l[i] ELSE r[i - Len(l)]
    BY <1>6, <1>7, ConcatProperties
  <2> QED
    BY <1>6, <1>7, <2>1, <2>2, LenProperties
<1>10. ASSUME NEW i \in 1 .. (Len(s) - 1)
       PROVE  (l \o r)[i] = IF i < p THEN s[i] ELSE s[i + 1]
  <2>1. CASE i < p
    <3>1. i \in 1 .. (p - 1) /\ i <= p - 1
      BY <1>1, <1>5, <2>1
    <3> QED
      BY <1>6, <1>9, <2>1, <3>1
  <2>2. CASE ~(i < p)
    <3>1. i - (p - 1) \in 1 .. (Len(s) - p) /\ ~(i <= p - 1) /\ p + (i - (p - 1)) = i + 1
      BY <1>1, <1>5, <2>2
    <3> QED
      BY <1>7, <1>9, <2>2, <3>1
  <2> QED
    BY <2>1, <2>2
<1>11. l \o r = Without(s, p)
  <2>1. l \o r \in Seq(ToSet(s))
    BY <1>6, <1>7, ConcatProperties
  <2>2. l \o r = [i \in 1 .. (Len(s) - 1) |-> (l \o r)[i]]
    <3> DEFINE q == l \o r
    <3>1. q \in Seq(ToSet(s)) /\ Len(q) = Len(s) - 1
      BY <1>9, <2>1
    <3> HIDE DEF q
    <3>2. q = [i \in 1 .. Len(q) |-> q[i]]
      BY <3>1
    <3>3. q = [i \in 1 .. (Len(s) - 1) |-> q[i]]
      BY <3>1, <3>2
    <3> QED
      BY <3>3 DEF q
  <2> QED
    BY <1>10, <2>2 DEF Without
<1> QED
  BY <1>5, <1>8, <1>11

LEMMA WithoutFacts ==
  ASSUME NEW s, IsSeq(s), NEW p \in 1 .. Len(s)
  PROVE  /\ IsSeq(Without(s, p)) /\ Len(Without(s, p)) = Len(s) - 1
         /\ \A i \in 1 .. (Len(s) - 1) : Without(s, p)[i] = IF i < p THEN s[i] ELSE s[i + 1]
         /\ ToSet(Without(s, p)) \subseteq ToSet(s)
         /\ ToSet(s) \ {s[p]} \subseteq ToSet(Without(s, p))
<1> DEFINE t == Without(s, p)
<1>1. Len(s) \in Nat /\ Len(s) - 1 \in Nat
  BY SeqFacts
<1>2. t = [i \in 1 .. (Len(s) - 1) |-> t[i]]
  BY DEF Without
<1>3. \A i \in 1 .. (Len(s) - 1) : t[i] = IF i < p THEN s[i] ELSE s[i + 1]
  BY DEF Without
<1> HIDE DEF t
<1>4. IsSeq(t) /\ Len(t) = Len(s) - 1 /\ ToSet(t) = {t[i] : i \in 1 .. (Len(s) - 1)}
  BY <1>1, <1>2, FunSeq
<1>5. ASSUME NEW i \in 1 .. (Len(s) - 1) PROVE t[i] \in ToSet(s)
  <2>1. i \in 1 .. Len(s) /\ i + 1 \in 1 .. Len(s)
    BY <1>1
  <2> QED
    BY <1>3, <2>1, SeqFacts
<1>6. ASSUME NEW x \in ToSet(s), x # s[p] PROVE x \in ToSet(t)
  <2>1. PICK j \in 1 .. Len(s) : s[j] = x /\ j # p
    BY <1>6, SeqFacts
  <2>2. CASE j < p
    <3>1. j \in 1 .. (Len(s) - 1) /\ t[j] = s[j]
      BY <1>1, <1>3, <2>1, <2>2
    <3> QED
      BY <1>4, <2>1, <3>1
  <2>3. CASE ~(j < p)
    <3>1. j - 1 \in 1 .. (Len(s) - 1) /\ ~(j - 1 < p) /\ (j - 1) + 1 = j
      BY <1>1, <2>1, <2>3
    <3>2. t[j - 1] = s[j]
      BY <1>3, <3>1
    <3> QED
      BY <1>4, <2>1, <3>1, <3>2
  <2> QED
    BY <2>2, <2>3
<1> QED
  BY <1>3, <1>4, <1>5, <1>6 DEF t

-----------------------------------------------------------------------------

TablesOK ==
    /\ tables = [t \in Tables |-> tables[t]]
    /\ \A t \in Tables : \A c \in DOMAIN tables[t] : IsSeq(tables[t][c])

\* Only chain c of table t may change.
OtherChains(t, c) ==
    \A u \in Tables : \A d : u # t \/ d # c =>
        /\ ChainExists(u, d)' <=> ChainExists(u, d)
        /\ RulesIn(u, d)' = RulesIn(u, d)

LEMMA RulesSeq ==
  ASSUME TablesOK, NEW t \in Tables, NEW c
  PROVE  /\ IsSeq(RulesIn(t, c))
         /\ RulesIn(t, c) # <<>> => ChainExists(t, c)
         /\ \A r : Exists(t, c, r) <=> r \in ToSet(RulesIn(t, c))
<1>1. IsSeq(RulesIn(t, c))
  BY NoSeq DEF TablesOK, RulesIn, ChainExists
<1> QED
  BY <1>1, HasSeq DEF Exists, RulesIn

LEMMA ChainSet ==
  ASSUME TablesOK, NEW t \in Tables, NEW c, NEW rules, IsSeq(rules), SetChain(t, c, rules)
  PROVE  TablesOK' /\ ChainExists(t, c)' /\ RulesIn(t, c)' = rules /\ OtherChains(t, c)
<1> DEFINE g == [d \in DOMAIN tables[t] \cup {c} |-> IF d = c THEN rules ELSE tables[t][d]]
<1>1. tables' = [tables EXCEPT ![t] = g] /\ tables = [u \in Tables |-> tables[u]]
  BY DEF SetChain, TablesOK
<1>2. DOMAIN g = DOMAIN tables[t] \cup {c} /\ \A d \in DOMAIN g : g[d] = IF d = c THEN rules ELSE tables[t][d]
  OBVIOUS
<1> HIDE DEF g
<1>3. /\ tables' = [u \in Tables |-> tables'[u]] /\ tables'[t] = g
      /\ \A u \in Tables \ {t} : tables'[u] = tables[u]
  BY <1>1
<1>4. TablesOK'
  BY <1>2, <1>3 DEF TablesOK
<1>5. ChainExists(t, c)' /\ RulesIn(t, c)' = rules
  BY <1>2, <1>3 DEF ChainExists, RulesIn
<1>6. ASSUME NEW u \in Tables, NEW d, u # t \/ d # c
      PROVE  /\ ChainExists(u, d)' <=> ChainExists(u, d)
             /\ RulesIn(u, d)' = RulesIn(u, d)
  BY <1>2, <1>3, <1>6 DEF ChainExists, RulesIn
<1> QED
  BY <1>4, <1>5, <1>6 DEF OtherChains

LEMMA ChainGone ==
  ASSUME TablesOK, NEW t \in Tables, NEW c,
         tables' = [tables EXCEPT ![t] = [d \in DOMAIN @ \ {c} |-> @[d]]]
  PROVE  TablesOK' /\ ~ChainExists(t, c)' /\ RulesIn(t, c)' = <<>> /\ OtherChains(t, c)
<1> DEFINE g == [d \in DOMAIN tables[t] \ {c} |-> tables[t][d]]
<1>1. tables' = [tables EXCEPT ![t] = g] /\ tables = [u \in Tables |-> tables[u]]
  BY DEF TablesOK
<1>2. DOMAIN g = DOMAIN tables[t] \ {c} /\ \A d \in DOMAIN g : g[d] = tables[t][d]
  OBVIOUS
<1> HIDE DEF g
<1>3. /\ tables' = [u \in Tables |-> tables'[u]] /\ tables'[t] = g
      /\ \A u \in Tables \ {t} : tables'[u] = tables[u]
  BY <1>1
<1>4. TablesOK'
  BY <1>2, <1>3 DEF TablesOK
<1>5. ~ChainExists(t, c)' /\ RulesIn(t, c)' = <<>>
  BY <1>2, <1>3 DEF ChainExists, RulesIn
<1>6. ASSUME NEW u \in Tables, NEW d, u # t \/ d # c
      PROVE  /\ ChainExists(u, d)' <=> ChainExists(u, d)
             /\ RulesIn(u, d)' = RulesIn(u, d)
  BY <1>2, <1>3, <1>6 DEF ChainExists, RulesIn
<1> QED
  BY <1>4, <1>5, <1>6 DEF OtherChains

LEMMA ChainsSame ==
  ASSUME TablesOK, tables' = tables
  PROVE  /\ TablesOK'
         /\ \A t \in Tables : \A c : /\ ChainExists(t, c)' <=> ChainExists(t, c)
                                     /\ RulesIn(t, c)' = RulesIn(t, c)
         /\ \A t, c : OtherChains(t, c)
BY DEF TablesOK, ChainExists, RulesIn, OtherChains


\* What a call of iptables does to the tables when it works.
Inserted(k) == [k EXCEPT !.op = "insert"]

Deletes(k) ==
    FlattenSeq([i \in DOMAIN RulesIn(k.t, k.c) |->
        IF RulesIn(k.t, k.c)[i].to = k.r.to
        THEN <<Delete(k.t, k.c, RulesIn(k.t, k.c)[i])>> ELSE <<>>])

Effect(k) ==
    /\ OtherChains(k.t, k.c)
    /\ \/ /\ k.op = "ensure"
          /\ ChainExists(k.t, k.c)' /\ RulesIn(k.t, k.c)' = RulesIn(k.t, k.c)
       \/ /\ k.op = "unique"
          /\ Exists(k.t, k.c, k.r) /\ tables' = tables
       \/ /\ k.op = "insert"
          /\ ChainExists(k.t, k.c) /\ ChainExists(k.t, k.c)'
          /\ k.r.to[1] \in Targets \/ ChainExists(k.t, k.r.to)
          /\ RulesIn(k.t, k.c)' = IF k.first THEN <<k.r>> \o RulesIn(k.t, k.c)
                                  ELSE RulesIn(k.t, k.c) \o <<k.r>>
       \/ /\ k.op = "clear"
          /\ ChainExists(k.t, k.c)' /\ RulesIn(k.t, k.c)' = <<>>
       \/ /\ k.op = "delete" /\ ~Exists(k.t, k.c, k.r) /\ tables' = tables
       \/ /\ k.op = "delete" /\ ChainExists(k.t, k.c) /\ ChainExists(k.t, k.c)'
          /\ \E p \in 1 .. Len(RulesIn(k.t, k.c)) :
                /\ RulesIn(k.t, k.c)[p] = k.r
                /\ RulesIn(k.t, k.c)' = Without(RulesIn(k.t, k.c), p)
       \/ /\ k.op = "delchain"
          /\ ~ChainExists(k.t, k.c)' /\ RulesIn(k.t, k.c)' = <<>>
          /\ ~ChainExists(k.t, k.c) \/ (RulesIn(k.t, k.c) = <<>> /\ ~Referenced(k.t, k.c))

\* What is left to do after a call that has not ended the process.
Goes(a, k) ==
    \/ Effect(k) /\ proc'[a].todo = Rest(a)
    \/ /\ tables' = tables
       /\ \/ k.op = "unique" /\ proc'[a].todo = <<Inserted(k)>> \o Rest(a)
          \/ k.op = "list" /\ proc'[a].todo = Rest(a)
          \/ k.op = "list" /\ proc'[a].todo = OnError(Deletes(k), k.fail) \o Rest(a)
          \/ /\ k.op \notin {"list", "abort"} /\ k.fail # Failed
             /\ proc'[a].todo = IF k.fail = GoOn THEN Rest(a) ELSE k.fail

LEMMA IptOutcome ==
  ASSUME ChainInv, TablesOK, NEW a \in Att, NEW plugin, IptStep(a, plugin), NEW k, k = Call(a),
         k.op = "abort" \/ k.t \in Tables
  PROVE  /\ TablesOK'
         /\ \/ proc'[a] = Quit /\ ~Running(a, plugin)' /\ tables' = tables
            \/ /\ Running(a, plugin)' /\ proc'[a].cmd = proc[a].cmd
               /\ k.op # "abort" /\ Goes(a, k)
<1>0. Running(a, plugin) /\ ~Idle(a)
  BY DEF IptStep, Running
<1>same. ASSUME tables' = tables PROVE TablesOK' /\ \A t, c : OtherChains(t, c)
  BY <1>same, ChainsSame
<1>go. ASSUME NEW calls, Do(a, calls)
       PROVE  proc'[a].todo = calls /\ proc'[a].cmd = proc[a].cmd /\ Running(a, plugin)'
  BY <1>go, <1>0, DoFacts
<1>fault. ASSUME NEW calls, Fault(a, calls)
       PROVE  /\ calls = Failed => proc'[a] = Quit /\ ~Running(a, plugin)'
              /\ calls # Failed => proc'[a].todo = calls /\ proc'[a].cmd = proc[a].cmd /\ Running(a, plugin)'
  <2>1. chain' = chain /\ (calls # Failed => proc'[a].i = proc[a].i)
    <3>1. chain' = chain
      BY <1>fault DEF Fault
    <3>2. ASSUME calls # Failed PROVE proc'[a].i = proc[a].i
      <4>1. IsProc(proc[a]) /\ proc = [b \in Att |-> proc[b]] /\ proc' = [proc EXCEPT ![a].todo = calls]
        BY <1>fault, <3>2 DEF ChainInv, ProcOK, Fault
      <4>2. proc'[a] = [cmd |-> proc[a].cmd, i |-> proc[a].i, todo |-> calls]
        BY <4>1 DEF IsProc
      <4> QED
        BY <4>2
    <3> QED
      BY <3>1, <3>2
  <2> QED
    BY <1>fault, <1>0, <2>1, FaultFacts DEF Running, Idle
<1>error. ASSUME Error(a) PROVE proc'[a] = Quit /\ ~Running(a, plugin)'
  BY <1>error, ErrorFacts
<1> DEFINE Result == \/ proc'[a] = Quit /\ ~Running(a, plugin)' /\ tables' = tables
                     \/ /\ Running(a, plugin)' /\ proc'[a].cmd = proc[a].cmd
                        /\ k.op # "abort" /\ Goes(a, k)
\* A call that works.
<1>works. ASSUME Effect(k), Do(a, Rest(a)) PROVE Result
  <2>1. k.op # "abort"
    BY <1>works DEF Effect
  <2> QED
    BY <1>go, <1>works, <2>1 DEF Goes
<1>fails. ASSUME tables' = tables, k.op \notin {"list", "abort"},
                 Fail(a) \/ Fault(a, OnFailure(a))
          PROVE  Result
  <2>1. OnFailure(a) = IF k.fail = GoOn THEN Rest(a) ELSE k.fail
    BY DEF OnFailure
  <2>2. GoOn # Failed
    BY DEF GoOn, Failed
  <2>3. CASE Error(a) /\ OnFailure(a) = Failed
    BY <1>error, <1>fails, <2>3
  <2>4. CASE Do(a, OnFailure(a)) /\ OnFailure(a) # Failed
    <3>1. k.fail # Failed
      BY <2>1, <2>2, <2>4
    <3> QED
      BY <1>go, <1>fails, <2>1, <2>4, <3>1 DEF Goes
  <2>5. CASE Fault(a, OnFailure(a))
    <3>1. CASE OnFailure(a) = Failed
      BY <1>fault, <1>fails, <2>5, <3>1
    <3>2. CASE OnFailure(a) # Failed
      <4>1. k.fail # Failed
        BY <2>1, <2>2, <3>2
      <4> QED
        BY <1>fault, <1>fails, <2>1, <2>5, <3>2, <4>1 DEF Goes
    <3> QED
      BY <3>1, <3>2
  <2> QED
    BY <1>fails, <2>3, <2>4, <2>5 DEF Fail
<1> HIDE DEF Result
<1>1. CASE k.op = "ensure" /\ EnsureChain(a)
  <2>1. IsSeq(RulesIn(k.t, k.c)) /\ SetChain(k.t, k.c, RulesIn(k.t, k.c)) /\ Do(a, Rest(a)) /\ k.t \in Tables
    BY <1>1, RulesSeq DEF EnsureChain
  <2>2. TablesOK' /\ Effect(k)
    BY <1>1, <2>1, ChainSet DEF Effect
  <2> QED
    BY <1>works, <2>1, <2>2 DEF Result
<1>2. CASE k.op = "unique" /\ CheckRule(a)
  <2>1. tables' = tables /\ k.t \in Tables
    BY <1>2 DEF CheckRule
  <2>2. CASE Exists(k.t, k.c, k.r)
    <3>1. Do(a, Rest(a)) /\ Effect(k)
      BY <1>2, <1>same, <2>1, <2>2 DEF CheckRule, Effect
    <3> QED
      BY <1>works, <1>same, <2>1, <3>1 DEF Result
  <2>3. CASE ~Exists(k.t, k.c, k.r)
    <3>1. Do(a, <<Inserted(k)>> \o Rest(a))
      BY <1>2, <2>3 DEF CheckRule, Inserted
    <3> QED
      BY <1>2, <1>go, <1>same, <2>1, <3>1 DEF Goes
  <2> QED
    BY <2>2, <2>3
<1>3. CASE k.op = "insert" /\ InsertRule(a)
  <2>0. k.t \in Tables
    BY <1>3
  <2>1. CASE ChainExists(k.t, k.c) /\ (k.r.to[1] \in Targets \/ ChainExists(k.t, k.r.to))
    <3> DEFINE new == IF k.first THEN <<k.r>> \o tables[k.t][k.c] ELSE Append(tables[k.t][k.c], k.r)
    <3>1. SetChain(k.t, k.c, new) /\ Do(a, Rest(a))
      BY <1>3, <2>1 DEF InsertRule
    <3>2. RulesIn(k.t, k.c) = tables[k.t][k.c] /\ IsSeq(RulesIn(k.t, k.c))
      BY <2>0, <2>1, RulesSeq DEF RulesIn
    <3>3. \A s : IsSeq(s) => Append(s, k.r) = s \o <<k.r>>
      <4> SUFFICES ASSUME NEW s, IsSeq(s) PROVE Append(s, k.r) = s \o <<k.r>>
        OBVIOUS
      <4> DEFINE S == ToSet(s) \cup {k.r}
      <4>1. s \in Seq(S) /\ k.r \in S
        BY SeqMonotonic DEF IsSeq
      <4> HIDE DEF S
      <4> QED
        BY <4>1, AppendIsConcat
    <3>4. new = IF k.first THEN <<k.r>> \o RulesIn(k.t, k.c) ELSE RulesIn(k.t, k.c) \o <<k.r>>
      BY <3>2, <3>3
    <3>5. IsSeq(new)
      BY <3>2, <3>4, OneSeq, ConcatSeq
    <3> HIDE DEF new
    <3>6. TablesOK' /\ ChainExists(k.t, k.c)' /\ RulesIn(k.t, k.c)' = new /\ OtherChains(k.t, k.c)
      BY <2>0, <3>1, <3>5, ChainSet
    <3>7. Effect(k)
      BY <1>3, <2>1, <3>4, <3>6 DEF Effect
    <3> QED
      BY <1>works, <3>1, <3>6, <3>7 DEF Result
  <2>2. CASE ~(ChainExists(k.t, k.c) /\ (k.r.to[1] \in Targets \/ ChainExists(k.t, k.r.to)))
    <3>1. Fail(a) /\ tables' = tables
      BY <1>3, <2>2 DEF InsertRule
    <3> QED
      BY <1>3, <1>fails, <1>same, <3>1 DEF Result
  <2> QED
    BY <2>1, <2>2
<1>4. CASE k.op = "clear" /\ ClearChain(a)
  <2>1. SetChain(k.t, k.c, <<>>) /\ Do(a, Rest(a)) /\ k.t \in Tables
    BY <1>4 DEF ClearChain
  <2>2. TablesOK' /\ Effect(k)
    BY <1>4, <2>1, ChainSet, NoSeq DEF Effect
  <2> QED
    BY <1>works, <2>1, <2>2 DEF Result
<1>5. CASE k.op = "list" /\ ListRules(a)
  <2>1. tables' = tables
    BY <1>5 DEF ListRules
  <2>2. CASE Do(a, OnError(Deletes(k), k.fail) \o Rest(a))
    BY <1>5, <1>go, <1>same, <2>1, <2>2 DEF Goes
  <2>3. CASE Fault(a, Rest(a))
    BY <1>5, <1>fault, <1>same, <2>1, <2>3 DEF Goes
  <2> QED
    BY <1>5, <2>2, <2>3 DEF ListRules, Deletes
<1>6. CASE k.op = "delete" /\ DeleteRule(a)
  <2>0. k.t \in Tables /\ Do(a, Rest(a))
    BY <1>6 DEF DeleteRule
  <2>1. CASE Exists(k.t, k.c, k.r)
    <3>1. IsSeq(RulesIn(k.t, k.c)) /\ k.r \in ToSet(RulesIn(k.t, k.c))
      BY <2>0, <2>1, RulesSeq
    <3>2. ChainExists(k.t, k.c)
      BY <2>0, <3>1, RulesSeq, NoSeq
    <3>3. RulesIn(k.t, k.c) = tables[k.t][k.c]
      BY <3>2 DEF RulesIn
    <3>4. PICK p \in 1 .. Len(RulesIn(k.t, k.c)) :
             /\ RulesIn(k.t, k.c)[p] = k.r
             /\ RemoveFirst(RulesIn(k.t, k.c), k.r) = Without(RulesIn(k.t, k.c), p)
      BY <3>1, RemoveFacts
    <3>5. SetChain(k.t, k.c, Without(RulesIn(k.t, k.c), p)) /\ IsSeq(Without(RulesIn(k.t, k.c), p))
      BY <1>6, <2>1, <3>1, <3>3, <3>4, WithoutFacts DEF DeleteRule
    <3>6. TablesOK' /\ ChainExists(k.t, k.c)' /\ OtherChains(k.t, k.c)
          /\ RulesIn(k.t, k.c)' = Without(RulesIn(k.t, k.c), p)
      BY <2>0, <3>5, ChainSet
    <3>7. Effect(k)
      BY <1>6, <3>2, <3>4, <3>6 DEF Effect
    <3> QED
      BY <1>works, <2>0, <3>6, <3>7 DEF Result
  <2>2. CASE ~Exists(k.t, k.c, k.r)
    <3>1. tables' = tables
      BY <1>6, <2>2 DEF DeleteRule
    <3>2. Effect(k)
      BY <1>6, <1>same, <2>2, <3>1 DEF Effect
    <3> QED
      BY <1>works, <1>same, <2>0, <3>1, <3>2 DEF Result
  <2> QED
    BY <2>1, <2>2
<1>7. CASE k.op = "delchain" /\ DeleteChain(a)
  <2>0. k.t \in Tables
    BY <1>7
  <2>1. CASE ChainExists(k.t, k.c) /\ (tables[k.t][k.c] # <<>> \/ Referenced(k.t, k.c))
    <3>1. Fail(a) /\ tables' = tables
      BY <1>7, <2>1 DEF DeleteChain
    <3> QED
      BY <1>7, <1>fails, <1>same, <3>1 DEF Result
  <2>2. CASE ~(ChainExists(k.t, k.c) /\ (tables[k.t][k.c] # <<>> \/ Referenced(k.t, k.c)))
    <3>1. Do(a, Rest(a)) /\ tables' = [tables EXCEPT ![k.t] = [d \in DOMAIN @ \ {k.c} |-> @[d]]]
      BY <1>7, <2>2 DEF DeleteChain
    <3>2. TablesOK' /\ ~ChainExists(k.t, k.c)' /\ RulesIn(k.t, k.c)' = <<>> /\ OtherChains(k.t, k.c)
      BY <2>0, <3>1, ChainGone
    <3>3. ~ChainExists(k.t, k.c) \/ (RulesIn(k.t, k.c) = <<>> /\ ~Referenced(k.t, k.c))
      BY <2>2 DEF RulesIn
    <3>4. Effect(k)
      BY <1>7, <3>2, <3>3 DEF Effect
    <3> QED
      BY <1>works, <3>1, <3>2, <3>4 DEF Result
  <2> QED
    BY <2>1, <2>2
<1>8. CASE k.op = "abort" /\ Abort(a)
  BY <1>8, <1>error, <1>same DEF Abort, Result
<1>9. CASE k.op \in {"ensure", "unique", "insert", "clear", "delete", "delchain"} /\ IptFails(a)
  <2>1. tables' = tables /\ Fault(a, OnFailure(a)) /\ k.op \notin {"list", "abort"}
    BY <1>9 DEF IptFails
  <2> QED
    BY <1>fails, <1>same, <2>1 DEF Result
<1> QED
  BY <1>1, <1>2, <1>3, <1>4, <1>5, <1>6, <1>7, <1>8, <1>9 DEF IptStep, Result

\* Which calls make and remove rules and chains.
Removes(k, u, c, r) ==
    u = k.t /\ c = k.c /\ (k.op = "clear" \/ (k.op = "delete" /\ r = k.r))
Makes(k, u, c, r) ==
    u = k.t /\ c = k.c /\ k.op = "insert" /\ r = k.r
RemovesChain(k, u, c) == u = k.t /\ c = k.c /\ k.op = "delchain"
MakesChain(k, u, c) == u = k.t /\ c = k.c /\ k.op \in {"ensure", "clear"}

LEMMA EffectFacts ==
  ASSUME TablesOK, TablesOK', NEW k, k.t \in Tables, Effect(k) \/ tables' = tables
  PROVE  \A u \in Tables : \A c :
            /\ \A r : Exists(u, c, r) => Exists(u, c, r)' \/ Removes(k, u, c, r)
            /\ \A r : Exists(u, c, r)' => Exists(u, c, r) \/ Makes(k, u, c, r)
            /\ ChainExists(u, c) => ChainExists(u, c)' \/ RemovesChain(k, u, c)
            /\ ChainExists(u, c)' => ChainExists(u, c) \/ MakesChain(k, u, c)
<1> SUFFICES ASSUME NEW u \in Tables, NEW c
             PROVE  /\ \A r : Exists(u, c, r) => Exists(u, c, r)' \/ Removes(k, u, c, r)
                    /\ \A r : Exists(u, c, r)' => Exists(u, c, r) \/ Makes(k, u, c, r)
                    /\ ChainExists(u, c) => ChainExists(u, c)' \/ RemovesChain(k, u, c)
                    /\ ChainExists(u, c)' => ChainExists(u, c) \/ MakesChain(k, u, c)
  OBVIOUS
<1>rules. /\ \A r : Exists(u, c, r) <=> r \in ToSet(RulesIn(u, c))
          /\ \A r : Exists(u, c, r)' <=> r \in ToSet(RulesIn(u, c)')
          /\ IsSeq(RulesIn(u, c)) /\ (RulesIn(u, c) # <<>> => ChainExists(u, c))
  <2>1. /\ IsSeq(RulesIn(u, c)) /\ (RulesIn(u, c) # <<>> => ChainExists(u, c))
        /\ \A r : Exists(u, c, r) <=> r \in ToSet(RulesIn(u, c))
    BY RulesSeq
  <2>2. IsSeq(RulesIn(u, c)')
    BY NoSeq DEF TablesOK, RulesIn, ChainExists
  <2>3. \A r : Exists(u, c, r)' <=> r \in ToSet(RulesIn(u, c)')
    BY <2>2, HasSeq DEF Exists
  <2> QED
    BY <2>1, <2>3
<1>1. CASE tables' = tables
  BY <1>1 DEF Exists, RulesIn, ChainExists
<1>2. CASE Effect(k) /\ (u # k.t \/ c # k.c)
  <2>1. (ChainExists(u, c)' <=> ChainExists(u, c)) /\ RulesIn(u, c)' = RulesIn(u, c)
    BY <1>2 DEF Effect, OtherChains
  <2> QED
    BY <1>rules, <2>1
<1>3. CASE u = k.t /\ c = k.c /\ k.op = "ensure" /\ Effect(k)
  <2>1. ChainExists(u, c)' /\ RulesIn(u, c)' = RulesIn(u, c) /\ MakesChain(k, u, c)
    BY <1>3 DEF Effect, MakesChain
  <2> QED
    BY <1>rules, <2>1
<1>4. CASE u = k.t /\ c = k.c /\ k.op = "insert" /\ Effect(k)
  <2>1. ToSet(RulesIn(u, c)') = ToSet(RulesIn(u, c)) \cup {k.r}
    <3>1. RulesIn(u, c)' = IF k.first THEN <<k.r>> \o RulesIn(u, c) ELSE RulesIn(u, c) \o <<k.r>>
      BY <1>4 DEF Effect
    <3>2. IsSeq(<<k.r>>) /\ ToSet(<<k.r>>) = {k.r}
      BY OneSeq
    <3> QED
      BY <1>rules, <3>1, <3>2, ConcatSeq
  <2>2. ChainExists(u, c) /\ ChainExists(u, c)'
    BY <1>4 DEF Effect
  <2> QED
    BY <1>4, <1>rules, <2>1, <2>2 DEF Makes
<1>5. CASE u = k.t /\ c = k.c /\ k.op = "clear" /\ Effect(k)
  <2>1. ChainExists(u, c)' /\ RulesIn(u, c)' = <<>>
    BY <1>5 DEF Effect
  <2> QED
    BY <1>5, <1>rules, <2>1, NoSeq DEF Removes, MakesChain
<1>6. CASE u = k.t /\ c = k.c /\ k.op = "delete" /\ Effect(k) /\ tables' # tables
  <2>1. PICK p \in 1 .. Len(RulesIn(u, c)) :
           RulesIn(u, c)[p] = k.r /\ RulesIn(u, c)' = Without(RulesIn(u, c), p)
    BY <1>6 DEF Effect
  <2>2. /\ ToSet(RulesIn(u, c)') \subseteq ToSet(RulesIn(u, c))
        /\ ToSet(RulesIn(u, c)) \ {k.r} \subseteq ToSet(RulesIn(u, c)')
    BY <1>rules, <2>1, WithoutFacts
  <2>3. ChainExists(u, c) /\ ChainExists(u, c)'
    BY <1>6 DEF Effect
  <2> QED
    BY <1>6, <1>rules, <2>2, <2>3 DEF Removes
<1>7. CASE u = k.t /\ c = k.c /\ k.op = "delchain" /\ Effect(k)
  <2>1. RulesIn(u, c)' = <<>> /\ ~ChainExists(u, c)' /\ (~ChainExists(u, c) \/ RulesIn(u, c) = <<>>)
    BY <1>7 DEF Effect
  <2>2. RulesIn(u, c) = <<>>
    BY <1>rules, <2>1
  <2> QED
    BY <1>7, <1>rules, <2>1, <2>2, NoSeq DEF RemovesChain
<1> QED
  BY <1>1, <1>2, <1>3, <1>4, <1>5, <1>6, <1>7 DEF Effect


-----------------------------------------------------------------------------
(* The calls of portmap.                                                   *)

\* The rules of a chain and the ones that lead to it, with the chains they are in.
WantedOf(c) ==
    {<<c.name, c.rules[i]>> : i \in DOMAIN c.rules} \cup
    UNION {{<<c.into[j], EntryTo(c, i)>> : i \in DOMAIN c.entries} : j \in DOMAIN c.into}

ChainsOf(a, f) ==
    {genToplevelDnatChain, genDnatChain(a, f)} \cup
    IF SNAT[a] /\ ~ExternalMark THEN {genSetMarkChain, genMarkMasqChain} ELSE {}

\* All that an ADD of a wants in the nat table of family f.
Wanted(a, f) == UNION {WantedOf(c) : c \in ChainsOf(a, f)}

Clearing(a, f) == [IptCall("clear", NatTable(f), DN(a)) EXCEPT !.fail = Failed]

\* The removals of the two chains that may be there, of one family.
dnOf(a, f, fail) == teardown(f, DN(a), Shared("HOSTPORT-DNAT"), fail)
snOf(a, f, fail) == teardown(f, OldSN(a), Shared("HOSTPORT-SNAT"), fail)
Six(a) == dnOf(a, 6, Failed) \o snOf(a, 6, <<>>)

\* A record that has the fields of a call of iptables.
IptFields(k) == {"op", "t", "c", "r", "first", "fail"} \subseteq DOMAIN k

\* Chain c is not that of another attachment.
NoOthers(a, c) == \A b \in Att : c = DN(b) => b = a

AddIpt(a, k) ==
    /\ IptFields(k) /\ k.fail = Failed
    /\ \E f \in Usable \cap ContFams(a) :
          /\ k.t = NatTable(f)
          /\ \/ k.op = "ensure" /\ NoOthers(a, k.c)
             \/ /\ k.op \in {"unique", "insert"} /\ <<k.c, k.r>> \in Wanted(a, f)
                /\ k.first => k.c = Shared("POSTROUTING")

PmAddCall(a, k) ==
    \/ k.op \in {"abort", "localnet"}
    \/ /\ k.op = "purge" /\ {"op", "f", "ports"} \subseteq DOMAIN k
       /\ k.f \in Usable \cap ContFams(a) /\ IsSeq(k.ports)
    \/ AddIpt(a, k)

PmDelCall(a, k) ==
    /\ \E f \in Usable : k.t = NatTable(f)
    /\ \/ k.op \in {"clear", "delchain"} /\ k.c \in {DN(a), OldSN(a)}
       \/ k.op \in {"list", "delete"} /\ k.r.to \in {DN(a), OldSN(a)}
    /\ k.fail = Failed \/ k.fail = <<>> \/ (6 \in Usable /\ k.fail = Six(a))

PmTyped(a) ==
    /\ IsSeq(proc[a].todo)
    /\ proc[a].cmd = "add" => \A k \in ToSet(proc[a].todo) : PmAddCall(a, k)
    /\ proc[a].cmd = "del" => \A k \in ToSet(proc[a].todo) : PmDelCall(a, k)
    /\ proc[a].cmd = "check" => proc[a].todo = <<>>

\* The rule of w leads to chain c.
Leads(c, w) == \E j \in DOMAIN c.into : w[1] = c.into[j]

\* The calls that set up a chain.
LEMMA SetupFacts ==
  ASSUME NEW f, NEW c, IsSeq(c.rules), IsSeq(c.into), IsSeq(c.entries)
  PROVE  /\ IsSeq(setup(f, c))
         /\ \A k \in ToSet(setup(f, c)) :
               \/ k = Ensure(NatTable(f), c.name)
               \/ \E w \in WantedOf(c) : \E first :
                     k = Unique(NatTable(f), w[1], w[2], first) /\ (first => c.prepend /\ Leads(c, w))
         /\ \A w \in WantedOf(c) : \E first :
               Unique(NatTable(f), w[1], w[2], first) \in ToSet(setup(f, c))
<1> DEFINE q == <<Ensure(NatTable(f), c.name)>>
           rs == [i \in DOMAIN c.rules |-> Unique(NatTable(f), c.name, c.rules[i], FALSE)]
           es(j) == [i \in DOMAIN c.entries |->
                        Unique(NatTable(f), c.into[j], EntryTo(c, i), c.prepend)]
           qs == [j \in DOMAIN c.into |-> es(j)]
<1>1. IsSeq(q) /\ ToSet(q) = {Ensure(NatTable(f), c.name)}
  BY OneSeq
<1>2. /\ IsSeq(rs)
      /\ ToSet(rs) = {Unique(NatTable(f), c.name, c.rules[i], FALSE) : i \in DOMAIN c.rules}
  <2>1. \A i \in DOMAIN c.rules : rs[i] = Unique(NatTable(f), c.name, c.rules[i], FALSE)
    OBVIOUS
  <2>2. rs = [i \in DOMAIN c.rules |-> rs[i]]
    OBVIOUS
  <2> HIDE DEF rs
  <2>3. IsSeq(rs) /\ ToSet(rs) = {rs[i] : i \in DOMAIN c.rules}
    BY <2>2, LikeSeq
  <2> QED
    BY <2>1, <2>3
<1>3. ASSUME NEW j
      PROVE  /\ IsSeq(es(j))
             /\ ToSet(es(j)) = {Unique(NatTable(f), c.into[j], EntryTo(c, i), c.prepend) : i \in DOMAIN c.entries}
  <2> DEFINE e == es(j)
  <2>1. \A i \in DOMAIN c.entries : e[i] = Unique(NatTable(f), c.into[j], EntryTo(c, i), c.prepend)
    OBVIOUS
  <2>2. e = [i \in DOMAIN c.entries |-> e[i]]
    OBVIOUS
  <2> HIDE DEF e
  <2>3. IsSeq(e) /\ ToSet(e) = {e[i] : i \in DOMAIN c.entries}
    BY <2>2, LikeSeq
  <2>4. IsSeq(e) /\ ToSet(e) = {Unique(NatTable(f), c.into[j], EntryTo(c, i), c.prepend) : i \in DOMAIN c.entries}
    BY <2>1, <2>3
  <2> QED
    BY <2>4 DEF e
<1>4. IsSeq(qs) /\ DOMAIN qs = DOMAIN c.into /\ \A j \in DOMAIN qs : qs[j] = es(j)
  BY SeqFacts, FunSeq
<1>5. setup(f, c) = (q \o rs) \o FlattenSeq(qs)
  BY DEF setup
<1> HIDE DEF q, rs, es, qs
<1>6. /\ IsSeq(FlattenSeq(qs))
      /\ \A x : x \in ToSet(FlattenSeq(qs)) <=> \E i \in DOMAIN qs : x \in ToSet(qs[i])
  BY <1>3, <1>4, FlattenFacts
<1>7. IsSeq(q \o rs) /\ ToSet(q \o rs) = ToSet(q) \cup ToSet(rs)
  BY <1>1, <1>2, ConcatSeq
<1>8. IsSeq(setup(f, c)) /\ ToSet(setup(f, c)) = ToSet(q) \cup ToSet(rs) \cup ToSet(FlattenSeq(qs))
  BY <1>5, <1>6, <1>7, ConcatSeq
<1>9. ASSUME NEW k \in ToSet(setup(f, c))
      PROVE  \/ k = Ensure(NatTable(f), c.name)
             \/ \E w \in WantedOf(c) : \E first :
                     k = Unique(NatTable(f), w[1], w[2], first) /\ (first => c.prepend /\ Leads(c, w))
  <2>1. CASE k \in ToSet(q)
    BY <1>1, <2>1
  <2>2. CASE k \in ToSet(rs)
    <3>1. PICK i \in DOMAIN c.rules : k = Unique(NatTable(f), c.name, c.rules[i], FALSE)
      BY <1>2, <2>2
    <3>2. <<c.name, c.rules[i]>> \in WantedOf(c)
      BY DEF WantedOf
    <3>3. /\ <<c.name, c.rules[i]>>[1] = c.name /\ <<c.name, c.rules[i]>>[2] = c.rules[i]
      OBVIOUS
    <3> QED
      BY <3>1, <3>2, <3>3
  <2>3. CASE k \in ToSet(FlattenSeq(qs))
    <3>1. PICK j \in DOMAIN c.into : k \in ToSet(es(j))
      BY <1>4, <1>6, <2>3
    <3>2. PICK i \in DOMAIN c.entries : k = Unique(NatTable(f), c.into[j], EntryTo(c, i), c.prepend)
      BY <1>3, <3>1
    <3>3. <<c.into[j], EntryTo(c, i)>> \in WantedOf(c)
      BY DEF WantedOf
    <3>4. /\ <<c.into[j], EntryTo(c, i)>>[1] = c.into[j]
          /\ <<c.into[j], EntryTo(c, i)>>[2] = EntryTo(c, i)
      OBVIOUS
    <3> QED
      BY <3>2, <3>3, <3>4 DEF Leads
  <2> QED
    BY <1>8, <2>1, <2>2, <2>3
<1>10. ASSUME NEW w \in WantedOf(c)
       PROVE  \E first : Unique(NatTable(f), w[1], w[2], first) \in ToSet(setup(f, c))
  <2>1. CASE \E i \in DOMAIN c.rules : w = <<c.name, c.rules[i]>>
    <3>1. PICK i \in DOMAIN c.rules : w = <<c.name, c.rules[i]>>
      BY <2>1
    <3>2. Unique(NatTable(f), w[1], w[2], FALSE) \in ToSet(rs)
      BY <1>2, <3>1
    <3> QED
      BY <1>8, <3>2
  <2>2. CASE \E j \in DOMAIN c.into : \E i \in DOMAIN c.entries : w = <<c.into[j], EntryTo(c, i)>>
    <3>1. PICK j \in DOMAIN c.into, i \in DOMAIN c.entries : w = <<c.into[j], EntryTo(c, i)>>
      BY <2>2
    <3>2. Unique(NatTable(f), w[1], w[2], c.prepend) \in ToSet(es(j))
      BY <1>3, <3>1
    <3>3. Unique(NatTable(f), w[1], w[2], c.prepend) \in ToSet(FlattenSeq(qs))
      BY <1>4, <1>6, <3>2
    <3> QED
      BY <1>8, <3>3
  <2> QED
    BY <2>1, <2>2 DEF WantedOf
<1> QED
  BY <1>8, <1>9, <1>10

LEMMA MappingFacts ==
  ASSUME NEW a \in Att
  PROVE  /\ IsSeq(Mappings[a])
         /\ \A i \in DOMAIN Mappings[a] :
               /\ Mappings[a][i].proto \in {"tcp", "udp", "sctp"}
               /\ Mappings[a][i].host \in Nat /\ Mappings[a][i].cont \in Nat
               /\ Mappings[a][i].hip \in Hosts
               /\ Mappings[a][i] \in ToSet(Mappings[a])
<1> DEFINE M == [proto : {"tcp", "udp", "sctp"}, host : Nat, cont : Nat, hip : Hosts]
<1>1. Mappings[a] \in Seq(M)
  BY PortmapAssumption
<1>2. IsSeq(Mappings[a]) /\ ToSet(Mappings[a]) \subseteq M
  <2> HIDE DEF M
  <2> QED
    BY <1>1, SeqSet
<1>3. \A i \in DOMAIN Mappings[a] : Mappings[a][i] \in ToSet(Mappings[a])
  BY <1>2, SeqFacts
<1> QED
  BY <1>2, <1>3

LEMMA GroupFacts ==
  ASSUME NEW a \in Att, NEW proto
  PROVE  /\ IsSeq(groupByProto(a, proto))
         /\ \A p : p \in ToSet(groupByProto(a, proto)) <=>
               \E i \in DOMAIN Mappings[a] : Mappings[a][i].proto = proto /\ Mappings[a][i].host = p
<1> DEFINE part(i) == IF Mappings[a][i].proto = proto THEN <<Mappings[a][i].host>> ELSE <<>>
           q == [i \in DOMAIN Mappings[a] |-> part(i)]
<1>1. \A i : /\ IsSeq(part(i))
             /\ \A p : p \in ToSet(part(i)) <=> Mappings[a][i].proto = proto /\ Mappings[a][i].host = p
  BY NoSeq, OneSeq
<1>2. groupByProto(a, proto) = FlattenSeq(q)
  BY DEF groupByProto
<1> HIDE DEF part
<1>3. IsSeq(q) /\ DOMAIN q = DOMAIN Mappings[a] /\ \A i \in DOMAIN q : q[i] = part(i)
  BY MappingFacts, SeqFacts, FunSeq
<1> HIDE DEF q
<1>4. /\ IsSeq(FlattenSeq(q))
      /\ \A x : x \in ToSet(FlattenSeq(q)) <=> \E i \in DOMAIN q : x \in ToSet(q[i])
  BY <1>1, <1>3, FlattenFacts
<1> QED
  BY <1>1, <1>2, <1>3, <1>4

\* The chunks have the ports, and nothing else.
LEMMA SplitFacts ==
  ASSUME NEW ports, IsSeq(ports)
  PROVE  /\ IsSeq(splitPortList(ports))
         /\ \A i \in DOMAIN splitPortList(ports) :
               /\ IsSeq(splitPortList(ports)[i]) /\ splitPortList(ports)[i] # <<>>
               /\ ToSet(splitPortList(ports)[i]) \subseteq ToSet(ports)
         /\ \A p \in ToSet(ports) : \E i \in DOMAIN splitPortList(ports) :
               p \in ToSet(splitPortList(ports)[i])
<1> DEFINE M == MultiportMax
           L == Len(ports)
           n == (L + M - 1) \div M
           lo(i) == (i - 1) * M + 1
           hi(i) == IF i * M < L THEN i * M ELSE L
<1>1. M \in Nat \ {0} /\ L \in Nat /\ DOMAIN ports = 1 .. L /\ ports \in Seq(ToSet(ports))
  BY PortmapAssumption, SeqFacts DEF IsSeq
<1>2. splitPortList(ports) = [i \in 1 .. n |-> SubSeq(ports, lo(i), hi(i))]
  BY DEF splitPortList
<1>3. n \in Nat /\ n * M <= L + M - 1 /\ L + M - 1 < n * M + M
  <2>1. L + M - 1 \in Nat
    BY <1>1
  <2> HIDE DEF L, M
  <2> QED
    BY <1>1, <2>1
<1>4. /\ IsSeq(splitPortList(ports)) /\ DOMAIN splitPortList(ports) = 1 .. n
      /\ \A i \in 1 .. n : splitPortList(ports)[i] = SubSeq(ports, lo(i), hi(i))
  <2> DEFINE q == [i \in 1 .. n |-> SubSeq(ports, lo(i), hi(i))]
  <2>1. q = [i \in 1 .. n |-> q[i]]
    OBVIOUS
  <2>2. \A i \in 1 .. n : q[i] = SubSeq(ports, lo(i), hi(i))
    OBVIOUS
  <2> HIDE DEF q, n
  <2>3. IsSeq(q) /\ DOMAIN q = 1 .. n
    BY <1>3, <2>1, FunSeq
  <2> QED
    BY <1>2, <2>2, <2>3 DEF q
<1> HIDE DEF L, M, n
<1>5. ASSUME NEW i \in 1 .. n PROVE lo(i) \in 1 .. L /\ hi(i) \in lo(i) .. L
  <2>1. i \in Nat /\ i >= 1 /\ i <= n
    BY <1>3
  <2>2. i * M <= n * M /\ (i - 1) * M \in Nat /\ i * M = (i - 1) * M + M
    BY <1>1, <1>3, <2>1
  <2>3. i * M \in Nat /\ i * M <= L + M - 1
    BY <1>1, <1>3, <2>2
  <2> QED
    BY <1>1, <2>2, <2>3
<1>6. ASSUME NEW i \in 1 .. n
      PROVE  /\ SubSeq(ports, lo(i), hi(i)) \in Seq(ToSet(ports))
             /\ Len(SubSeq(ports, lo(i), hi(i))) = hi(i) - lo(i) + 1
             /\ \A j \in 1 .. hi(i) - lo(i) + 1 : SubSeq(ports, lo(i), hi(i))[j] = ports[lo(i) + j - 1]
             /\ hi(i) - lo(i) + 1 >= 1
  <2>1. lo(i) \in 1 .. L /\ hi(i) \in lo(i) .. L
    BY <1>5
  <2> DEFINE x == lo(i)
             y == hi(i)
  <2> HIDE DEF x, y
  <2>2. x \in 1 .. L /\ y \in x .. L
    BY <2>1 DEF x, y
  <2>3. x \in 1 .. (Len(ports) + 1) /\ y \in 0 .. Len(ports) /\ x <= y
    BY <1>1, <2>2 DEF L
  <2>4. \A j \in x .. y : ports[j] \in ToSet(ports)
    BY <1>1, <2>2, SeqFacts DEF L
  <2>5. /\ SubSeq(ports, x, y) \in Seq(ToSet(ports))
        /\ Len(SubSeq(ports, x, y)) = y - x + 1
        /\ \A j \in 1 .. y - x + 1 : SubSeq(ports, x, y)[j] = ports[x + j - 1]
    BY <1>1, <2>2, <2>3, <2>4, SubSeqProperties DEF L
  <2> QED
    BY <1>1, <2>2, <2>5 DEF x, y
<1>7. ASSUME NEW i \in 1 .. n
      PROVE  /\ IsSeq(splitPortList(ports)[i]) /\ splitPortList(ports)[i] # <<>>
             /\ ToSet(splitPortList(ports)[i]) \subseteq ToSet(ports)
  <2> DEFINE c == SubSeq(ports, lo(i), hi(i))
  <2>1. c \in Seq(ToSet(ports)) /\ Len(c) >= 1 /\ splitPortList(ports)[i] = c
    BY <1>4, <1>6
  <2> HIDE DEF c
  <2>2. IsSeq(c) /\ ToSet(c) \subseteq ToSet(ports)
    BY <2>1, SeqSet
  <2>3. c # <<>>
    BY <2>1, <2>2, SeqFacts
  <2> QED
    BY <2>1, <2>2, <2>3
<1>8. ASSUME NEW p \in ToSet(ports)
      PROVE  \E i \in 1 .. n : p \in ToSet(splitPortList(ports)[i])
  <2>1. PICK j \in 1 .. L : ports[j] = p
    BY <1>1, SeqFacts
  <2> DEFINE i == (j - 1) \div M + 1
             d == (j - 1) \div M
  <2>2. d \in Nat /\ d * M <= j - 1 /\ j - 1 < d * M + M
    <3>1. j - 1 \in Nat
      BY <1>1
    <3> QED
      BY <1>1, <3>1
  <2> HIDE DEF d
  <2>3. i = d + 1 /\ i \in Nat /\ i >= 1 /\ lo(i) = d * M + 1 /\ i * M = d * M + M
    BY <1>1, <2>2 DEF d
  <2> HIDE DEF i
  <2>4. i <= n
    <3>0. j \in Nat /\ j <= L
      BY <1>1
    <3>1. CASE i > n
      <4>1. d >= n
        BY <1>3, <2>2, <2>3, <3>1
      <4>2. d * M >= n * M
        BY <1>1, <1>3, <2>2, <4>1
      <4>3. n * M <= j - 1 /\ L - 1 < n * M /\ n * M \in Nat
        BY <1>1, <1>3, <2>2, <3>0, <4>2
      <4> QED
        BY <1>1, <3>0, <4>3
    <3> QED
      BY <1>3, <2>3, <3>1
  <2>5. i \in 1 .. n
    BY <1>3, <2>3, <2>4
  <2>6. j >= lo(i) /\ j <= hi(i) /\ j \in Nat /\ lo(i) \in Nat /\ hi(i) \in Nat
    <3>1. d * M \in Nat
      BY <1>1, <2>2
    <3> QED
      BY <1>1, <2>2, <2>3, <3>1
  <2> DEFINE x == lo(i)
             y == hi(i)
             c == SubSeq(ports, x, y)
  <2>7. /\ c \in Seq(ToSet(ports)) /\ Len(c) = y - x + 1 /\ splitPortList(ports)[i] = c
        /\ \A m \in 1 .. y - x + 1 : c[m] = ports[x + m - 1]
    BY <1>4, <1>6, <2>5
  <2>8. j >= x /\ j <= y /\ j \in Nat /\ x \in Nat /\ y \in Nat
    BY <2>6
  <2> HIDE DEF x, y, c
  <2>9. j - x + 1 \in 1 .. y - x + 1 /\ x + (j - x + 1) - 1 = j
    BY <2>8
  <2>10. c[j - x + 1] = p /\ j - x + 1 \in DOMAIN c
    BY <2>1, <2>7, <2>9, SeqSet
  <2> QED
    BY <2>5, <2>7, <2>10 DEF ToSet
<1> QED
  BY <1>4, <1>7, <1>8


\* The rules of a mapping.
BaseOf(m) == [Always EXCEPT !.proto = m.proto, !.ports = <<m.host>>,
                         !.dst = IF m.hip \in {"v4", "v6"} THEN m.hip ELSE "any"]
MarkOf(m, from) == [BaseOf(m) EXCEPT !.from = from, !.to = SetMark]
DnatOf(a, m) == [BaseOf(m) EXCEPT !.to = <<"DNAT", <<ip[a], m.cont>>>>]

\* The marks of a mapping, which come before its translation.
MarksOf(a, f, m) ==
    {MarkOf(m, from) : from \in IF SNAT[a] THEN {ip[a]} \cup (IF f = 4 THEN {"localhost"} ELSE {}) ELSE {}}

\* An entry for the ports of one protocol.
EntryOf(a, proto, ports) == [Always EXCEPT !.proto = proto, !.ports = ports, !.comment = a]

LEMMA MappingRulesFacts ==
  ASSUME NEW a, NEW f, NEW m
  PROVE  /\ IsSeq(MappingRules(a, f, m))
         /\ ToSet(MappingRules(a, f, m)) = MarksOf(a, f, m) \cup {DnatOf(a, m)}
<1> DEFINE x == IF SNAT[a] THEN <<MarkOf(m, ip[a])>> ELSE <<>>
           y == IF SNAT[a] /\ f = 4 THEN <<MarkOf(m, "localhost")>> ELSE <<>>
           z == <<DnatOf(a, m)>>
<1>1. MappingRules(a, f, m) = (x \o y) \o z
  BY DEF MappingRules, MarkOf, DnatOf, BaseOf
<1>2. /\ IsSeq(x) /\ ToSet(x) = IF SNAT[a] THEN {MarkOf(m, ip[a])} ELSE {}
      /\ IsSeq(y) /\ ToSet(y) = IF SNAT[a] /\ f = 4 THEN {MarkOf(m, "localhost")} ELSE {}
      /\ IsSeq(z) /\ ToSet(z) = {DnatOf(a, m)}
  BY NoSeq, OneSeq
<1> HIDE DEF x, y, z
<1>3. IsSeq(x \o y) /\ ToSet(x \o y) = ToSet(x) \cup ToSet(y)
  BY <1>2, ConcatSeq
<1>4. /\ IsSeq(MappingRules(a, f, m))
      /\ ToSet(MappingRules(a, f, m)) = (ToSet(x) \cup ToSet(y)) \cup ToSet(z)
  BY <1>1, <1>2, <1>3, ConcatSeq
<1>5. MarksOf(a, f, m) = ToSet(x) \cup ToSet(y)
  BY <1>2 DEF MarksOf
<1> QED
  BY <1>2, <1>4, <1>5

\* The mappings of a that have rules in the table of family f.
FitOf(a, f) == {Mappings[a][i] : i \in {j \in DOMAIN Mappings[a] : Fits(Mappings[a][j], f)}}

LEMMA FillFacts ==
  ASSUME NEW a \in Att, NEW f
  PROVE  /\ IsSeq(fillDnatRules(a, f))
         /\ \A x : x \in ToSet(fillDnatRules(a, f)) <=>
               \E m \in FitOf(a, f) : x \in MarksOf(a, f, m) \cup {DnatOf(a, m)}
         /\ \A I, K : (\A m \in FitOf(a, f) : First(MappingRules(a, f, m), I, K))
                         => First(fillDnatRules(a, f), I, K)
<1> DEFINE part(i) == IF Fits(Mappings[a][i], f) THEN MappingRules(a, f, Mappings[a][i]) ELSE <<>>
           q == [i \in DOMAIN Mappings[a] |-> part(i)]
<1>1. \A i : /\ IsSeq(part(i))
             /\ \A x : x \in ToSet(part(i)) <=>
                   /\ Fits(Mappings[a][i], f)
                   /\ x \in MarksOf(a, f, Mappings[a][i]) \cup {DnatOf(a, Mappings[a][i])}
             /\ \A I, K : (Fits(Mappings[a][i], f) => First(MappingRules(a, f, Mappings[a][i]), I, K))
                             => First(part(i), I, K)
  BY NoSeq, MappingRulesFacts
<1>2. fillDnatRules(a, f) = FlattenSeq(q)
  BY DEF fillDnatRules
<1> HIDE DEF part
<1>3. IsSeq(q) /\ DOMAIN q = DOMAIN Mappings[a] /\ \A i \in DOMAIN q : q[i] = part(i)
  <2>1. q = [i \in DOMAIN Mappings[a] |-> q[i]] /\ \A i \in DOMAIN Mappings[a] : q[i] = part(i)
    OBVIOUS
  <2> HIDE DEF q
  <2> QED
    BY <2>1, MappingFacts, LikeSeq
<1> HIDE DEF q
<1>4. /\ IsSeq(FlattenSeq(q))
      /\ \A x : x \in ToSet(FlattenSeq(q)) <=> \E i \in DOMAIN q : x \in ToSet(q[i])
      /\ \A I, K : (\A i \in DOMAIN q : First(q[i], I, K)) => First(FlattenSeq(q), I, K)
  BY <1>1, <1>3, FlattenFacts
<1>5. \A x : x \in ToSet(FlattenSeq(q)) <=>
         \E m \in FitOf(a, f) : x \in MarksOf(a, f, m) \cup {DnatOf(a, m)}
  <2> SUFFICES ASSUME NEW x
               PROVE  x \in ToSet(FlattenSeq(q)) <=>
                         \E m \in FitOf(a, f) : x \in MarksOf(a, f, m) \cup {DnatOf(a, m)}
    OBVIOUS
  <2>1. x \in ToSet(FlattenSeq(q)) <=> \E i \in DOMAIN Mappings[a] : x \in ToSet(part(i))
    BY <1>3, <1>4
  <2>2. (\E i \in DOMAIN Mappings[a] : x \in ToSet(part(i))) <=>
           \E i \in DOMAIN Mappings[a] :
              /\ Fits(Mappings[a][i], f)
              /\ x \in MarksOf(a, f, Mappings[a][i]) \cup {DnatOf(a, Mappings[a][i])}
    BY <1>1
  <2>3. (\E i \in DOMAIN Mappings[a] :
              /\ Fits(Mappings[a][i], f)
              /\ x \in MarksOf(a, f, Mappings[a][i]) \cup {DnatOf(a, Mappings[a][i])})
         <=> \E m \in FitOf(a, f) : x \in MarksOf(a, f, m) \cup {DnatOf(a, m)}
    BY DEF FitOf
  <2> QED
    BY <2>1, <2>2, <2>3
<1>6. ASSUME NEW I, NEW K, \A m \in FitOf(a, f) : First(MappingRules(a, f, m), I, K)
      PROVE  First(FlattenSeq(q), I, K)
  <2>1. \A i \in DOMAIN q : Fits(Mappings[a][i], f) => First(MappingRules(a, f, Mappings[a][i]), I, K)
    BY <1>3, <1>6 DEF FitOf
  <2>2. \A i \in DOMAIN q : First(q[i], I, K)
    BY <1>1, <1>3, <2>1
  <2> QED
    BY <1>4, <2>2
<1> QED
  BY <1>2, <1>4, <1>5, <1>6

LEMMA EntryFacts ==
  ASSUME NEW a \in Att
  PROVE  /\ IsSeq(EntryRules(a))
         /\ \A e \in ToSet(EntryRules(a)) : \E proto \in {"sctp", "tcp", "udp"} : \E ports :
               /\ e = EntryOf(a, proto, ports)
               /\ IsSeq(ports) /\ ports # <<>> /\ ToSet(ports) \subseteq ToSet(groupByProto(a, proto))
         /\ \A i \in DOMAIN Mappings[a] : \E ports :
               /\ IsSeq(ports) /\ Mappings[a][i].host \in ToSet(ports)
               /\ EntryOf(a, Mappings[a][i].proto, ports) \in ToSet(EntryRules(a))
<1> DEFINE chunks(proto) == splitPortList(groupByProto(a, proto))
           rules(proto) == [i \in DOMAIN chunks(proto) |-> EntryOf(a, proto, chunks(proto)[i])]
<1>1. EntryRules(a) = (rules("sctp") \o rules("tcp")) \o rules("udp")
  BY DEF EntryRules, EntryOf
<1>2. ASSUME NEW proto
      PROVE  /\ IsSeq(chunks(proto))
             /\ \A i \in DOMAIN chunks(proto) :
                   /\ IsSeq(chunks(proto)[i]) /\ chunks(proto)[i] # <<>>
                   /\ ToSet(chunks(proto)[i]) \subseteq ToSet(groupByProto(a, proto))
             /\ \A p \in ToSet(groupByProto(a, proto)) : \E i \in DOMAIN chunks(proto) :
                   p \in ToSet(chunks(proto)[i])
  BY GroupFacts, SplitFacts
<1>3. ASSUME NEW proto
      PROVE  /\ IsSeq(rules(proto))
             /\ ToSet(rules(proto)) = {EntryOf(a, proto, chunks(proto)[i]) : i \in DOMAIN chunks(proto)}
  <2> DEFINE r == rules(proto)
  <2>1. /\ r = [i \in DOMAIN chunks(proto) |-> r[i]]
        /\ \A i \in DOMAIN chunks(proto) : r[i] = EntryOf(a, proto, chunks(proto)[i])
    OBVIOUS
  <2> HIDE DEF r, chunks
  <2>2. IsSeq(r) /\ ToSet(r) = {r[i] : i \in DOMAIN chunks(proto)}
    BY <1>2, <2>1, LikeSeq DEF chunks
  <2>3. IsSeq(r) /\ ToSet(r) = {EntryOf(a, proto, chunks(proto)[i]) : i \in DOMAIN chunks(proto)}
    BY <2>1, <2>2
  <2> QED
    BY <2>3 DEF r
<1> HIDE DEF chunks, rules
<1>4. /\ IsSeq(EntryRules(a))
      /\ ToSet(EntryRules(a)) = ToSet(rules("sctp")) \cup ToSet(rules("tcp")) \cup ToSet(rules("udp"))
  <2>1. /\ IsSeq(rules("sctp") \o rules("tcp"))
        /\ ToSet(rules("sctp") \o rules("tcp")) = ToSet(rules("sctp")) \cup ToSet(rules("tcp"))
    BY <1>3, ConcatSeq
  <2> QED
    BY <1>1, <1>3, <2>1, ConcatSeq
<1>5. ASSUME NEW proto \in {"sctp", "tcp", "udp"}, NEW e \in ToSet(rules(proto))
      PROVE  \E ports : /\ e = EntryOf(a, proto, ports)
                        /\ IsSeq(ports) /\ ports # <<>> /\ ToSet(ports) \subseteq ToSet(groupByProto(a, proto))
  BY <1>2, <1>3
<1>6. ASSUME NEW i \in DOMAIN Mappings[a]
      PROVE  \E ports : /\ IsSeq(ports) /\ Mappings[a][i].host \in ToSet(ports)
                        /\ EntryOf(a, Mappings[a][i].proto, ports) \in ToSet(EntryRules(a))
  <2> DEFINE proto == Mappings[a][i].proto
  <2>1. proto \in {"sctp", "tcp", "udp"} /\ Mappings[a][i].host \in ToSet(groupByProto(a, proto))
    BY MappingFacts, GroupFacts
  <2> HIDE DEF proto
  <2>2. PICK j \in DOMAIN chunks(proto) : Mappings[a][i].host \in ToSet(chunks(proto)[j])
    BY <1>2, <2>1
  <2>3. EntryOf(a, proto, chunks(proto)[j]) \in ToSet(rules(proto)) /\ IsSeq(chunks(proto)[j])
    BY <1>2, <1>3
  <2>4. EntryOf(a, proto, chunks(proto)[j]) \in ToSet(EntryRules(a))
    BY <1>4, <2>1, <2>3
  <2> QED
    BY <2>2, <2>3, <2>4 DEF proto
<1>7. ASSUME NEW e \in ToSet(EntryRules(a))
      PROVE  \E proto \in {"sctp", "tcp", "udp"} : e \in ToSet(rules(proto))
  BY <1>4
<1> QED
  BY <1>4, <1>5, <1>6, <1>7


\* The chains of an ADD have rules and entries in order.
LEMMA ChainsOfFacts ==
  ASSUME NEW a \in Att, NEW f, NEW c \in ChainsOf(a, f)
  PROVE  IsSeq(c.rules) /\ IsSeq(c.into) /\ IsSeq(c.entries)
<1>1. \A x : IsSeq(<<x>>)
  BY OneSeq
<1>2. \A x, y : IsSeq(<<x, y>>)
  <2> SUFFICES ASSUME NEW x, NEW y PROVE IsSeq(<<x, y>>)
    OBVIOUS
  <2>1. <<x, y>> \in Seq({x, y})
    OBVIOUS
  <2> HIDE DEF IsSeq
  <2> QED
    BY <2>1, SeqSet
<1>3. IsSeq(<<>>)
  BY NoSeq
<1>4. CASE c = genToplevelDnatChain
  <2>1. c.rules = <<>> /\ c.into = <<Shared("PREROUTING"), Shared("OUTPUT")>> /\ c.entries = <<Always>>
    BY <1>4 DEF genToplevelDnatChain, NatChain
  <2> QED
    BY <1>1, <1>2, <1>3, <2>1
<1>5. CASE c = genDnatChain(a, f)
  <2>1. c.rules = fillDnatRules(a, f) /\ c.into = <<Shared("HOSTPORT-DNAT")>> /\ c.entries = EntryRules(a)
    BY <1>5 DEF genDnatChain, NatChain
  <2> QED
    BY <1>1, <2>1, FillFacts, EntryFacts
<1>6. CASE c = genSetMarkChain
  <2>1. c.rules = <<JumpTo(Shared("MARK"))>> /\ c.into = <<>> /\ c.entries = <<>>
    BY <1>6 DEF genSetMarkChain, NatChain
  <2> QED
    BY <1>1, <1>3, <2>1
<1>7. CASE c = genMarkMasqChain
  <2>1. /\ c.rules = <<JumpTo(Shared("MASQUERADE"))>> /\ c.into = <<Shared("POSTROUTING")>>
        /\ c.entries = <<Always>>
    BY <1>7 DEF genMarkMasqChain, NatChain
  <2> QED
    BY <1>1, <2>1
<1> QED
  BY <1>4, <1>5, <1>6, <1>7 DEF ChainsOf

\* A call that makes the plugin want w.
UniqueFor(f, w, first) == Unique(NatTable(f), w[1], w[2], first)

\* The calls that forward the ports of one family.
LEMMA ForwardFacts ==
  ASSUME NEW a \in Att, NEW f
  PROVE  /\ IsSeq(forwardPorts(a, f))
         /\ \A k \in ToSet(forwardPorts(a, f)) :
               \/ k = [op |-> "localnet"]
               \/ \E c : k = Ensure(NatTable(f), c) /\ NoOthers(a, c)
               \/ \E w \in Wanted(a, f) : \E first :
                     k = UniqueFor(f, w, first) /\ (first => w[1] = Shared("POSTROUTING"))
         /\ \A w \in Wanted(a, f) : \E first : UniqueFor(f, w, first) \in ToSet(forwardPorts(a, f))
<1> DEFINE marks == SNAT[a] /\ ~ExternalMark
           sm == setup(f, genSetMarkChain)
           mm == setup(f, genMarkMasqChain)
           ms == IF marks THEN sm \o mm ELSE <<>>
           ln == IF SNAT[a] /\ f = 4 /\ LocalnetIf(a) # {} THEN <<[op |-> "localnet"]>> ELSE <<>>
           tl == setup(f, genToplevelDnatChain)
           dn == setup(f, genDnatChain(a, f))
           Good(k) == \/ k = [op |-> "localnet"]
                      \/ \E c : k = Ensure(NatTable(f), c) /\ NoOthers(a, c)
                      \/ \E w \in Wanted(a, f) : \E first :
                             k = UniqueFor(f, w, first) /\ (first => w[1] = Shared("POSTROUTING"))
<1>1. forwardPorts(a, f) = ((ms \o ln) \o tl) \o dn
  BY DEF forwardPorts
<1>2. ASSUME NEW c \in ChainsOf(a, f)
      PROVE  /\ IsSeq(setup(f, c)) /\ \A k \in ToSet(setup(f, c)) : Good(k)
             /\ \A w \in WantedOf(c) : \E first : UniqueFor(f, w, first) \in ToSet(setup(f, c))
  <2>1. IsSeq(c.rules) /\ IsSeq(c.into) /\ IsSeq(c.entries)
    BY ChainsOfFacts
  <2>2. \A w \in WantedOf(c) : w \in Wanted(a, f)
    BY DEF Wanted
  <2>3. \A w : c.prepend /\ Leads(c, w) => w[1] = Shared("POSTROUTING")
    <3>1. CASE c = genMarkMasqChain
      <4>1. c.into = <<Shared("POSTROUTING")>>
        BY <3>1 DEF genMarkMasqChain, NatChain
      <4> QED
        BY <4>1 DEF Leads
    <3>2. CASE c # genMarkMasqChain
      BY <3>2 DEF ChainsOf, genToplevelDnatChain, genDnatChain, genSetMarkChain, NatChain
    <3> QED
      BY <3>1, <3>2
  <2>4. NoOthers(a, c.name)
    BY IptAssumption DEF NoOthers, ChainsOf, DN, Shared, genToplevelDnatChain, genDnatChain,
                         genSetMarkChain, genMarkMasqChain, NatChain
  <2> QED
    BY <2>1, <2>2, <2>3, <2>4, SetupFacts DEF UniqueFor
<1>3. /\ genToplevelDnatChain \in ChainsOf(a, f) /\ genDnatChain(a, f) \in ChainsOf(a, f)
      /\ marks => genSetMarkChain \in ChainsOf(a, f) /\ genMarkMasqChain \in ChainsOf(a, f)
      /\ \A c \in ChainsOf(a, f) : \/ c = genToplevelDnatChain \/ c = genDnatChain(a, f)
                                   \/ marks /\ (c = genSetMarkChain \/ c = genMarkMasqChain)
  BY DEF ChainsOf
<1> HIDE DEF Good
<1>4. IsSeq(ms) /\ (marks => ToSet(ms) = ToSet(sm) \cup ToSet(mm)) /\ \A k \in ToSet(ms) : Good(k)
  <2>1. CASE marks
    <3>1. IsSeq(sm) /\ IsSeq(mm) /\ (\A k \in ToSet(sm) : Good(k)) /\ (\A k \in ToSet(mm) : Good(k))
      BY <1>2, <1>3, <2>1
    <3> HIDE DEF sm, mm
    <3>2. IsSeq(sm \o mm) /\ ToSet(sm \o mm) = ToSet(sm) \cup ToSet(mm)
      BY <3>1, ConcatSeq
    <3> QED
      BY <2>1, <3>1, <3>2
  <2>2. CASE ~marks
    BY <2>2, NoSeq
  <2> QED
    BY <2>1, <2>2
<1>5. IsSeq(ln) /\ \A k \in ToSet(ln) : Good(k)
  BY NoSeq, OneSeq DEF Good
<1>6. /\ IsSeq(tl) /\ IsSeq(dn) /\ (\A k \in ToSet(tl) : Good(k)) /\ (\A k \in ToSet(dn) : Good(k))
  BY <1>2, <1>3
<1>7. ASSUME NEW w \in Wanted(a, f)
      PROVE  \E first : UniqueFor(f, w, first) \in ToSet(ms) \cup ToSet(tl) \cup ToSet(dn)
  <2>1. PICK c \in ChainsOf(a, f) : w \in WantedOf(c)
    BY DEF Wanted
  <2>2. PICK first : UniqueFor(f, w, first) \in ToSet(setup(f, c))
    BY <1>2, <2>1
  <2>3. setup(f, c) = tl \/ setup(f, c) = dn \/ (marks /\ (setup(f, c) = sm \/ setup(f, c) = mm))
    BY <1>3, <2>1
  <2> HIDE DEF ms, tl, dn, sm, mm
  <2> QED
    BY <1>4, <2>2, <2>3
<1> HIDE DEF ms, ln, tl, dn
<1>8. IsSeq(ms \o ln) /\ ToSet(ms \o ln) = ToSet(ms) \cup ToSet(ln)
  BY <1>4, <1>5, ConcatSeq
<1>9. IsSeq((ms \o ln) \o tl) /\ ToSet((ms \o ln) \o tl) = ToSet(ms \o ln) \cup ToSet(tl)
  BY <1>6, <1>8, ConcatSeq
<1>10. /\ IsSeq(forwardPorts(a, f))
       /\ ToSet(forwardPorts(a, f)) = ToSet((ms \o ln) \o tl) \cup ToSet(dn)
  BY <1>1, <1>6, <1>9, ConcatSeq
<1>11. \A k \in ToSet(forwardPorts(a, f)) : Good(k)
  BY <1>4, <1>5, <1>6, <1>8, <1>9, <1>10
<1> QED
  BY <1>7, <1>8, <1>9, <1>10, <1>11 DEF Good

\* The calls of an ADD for one family.
AddFamily(a, f) ==
    IF f \notin ContFams(a) THEN <<>>
    ELSE IF f \notin Usable THEN Failed
    ELSE forwardPorts(a, f) \o deletePortmapStaleConnections(a, f)

Purge(a, f) == [op |-> "purge", f |-> f, ports |-> groupByProto(a, "udp")]

LEMMA AddFamilyFacts ==
  ASSUME NEW a \in Att, NEW f
  PROVE  /\ IsSeq(AddFamily(a, f))
         /\ \A k \in ToSet(AddFamily(a, f)) : PmAddCall(a, k)
         /\ f \in ContFams(a) \cap Usable =>
               /\ AddFamily(a, f) = forwardPorts(a, f) \o <<Purge(a, f)>>
               /\ ToSet(AddFamily(a, f)) = ToSet(forwardPorts(a, f)) \cup {Purge(a, f)}
         /\ f \in ContFams(a) \ Usable => ToSet(AddFamily(a, f)) = {[op |-> "abort"]}
         /\ f \notin ContFams(a) => AddFamily(a, f) = <<>>
<1>1. CASE f \notin ContFams(a)
  BY <1>1, NoSeq DEF AddFamily
<1>2. CASE f \in ContFams(a) \ Usable
  <2>1. AddFamily(a, f) = <<[op |-> "abort"]>>
    BY <1>2 DEF AddFamily, Failed
  <2>2. PmAddCall(a, [op |-> "abort"])
    BY DEF PmAddCall
  <2> QED
    BY <1>2, <2>1, <2>2, OneSeq
<1>3. CASE f \in ContFams(a) \cap Usable
  <2>1. AddFamily(a, f) = forwardPorts(a, f) \o <<Purge(a, f)>>
    BY <1>3 DEF AddFamily, deletePortmapStaleConnections, Purge
  <2>2. /\ IsSeq(AddFamily(a, f))
        /\ ToSet(AddFamily(a, f)) = ToSet(forwardPorts(a, f)) \cup {Purge(a, f)}
    BY <2>1, ForwardFacts, OneSeq, ConcatSeq
  <2>3. PmAddCall(a, Purge(a, f))
    BY <1>3, GroupFacts DEF PmAddCall, Purge
  <2>4. ASSUME NEW k \in ToSet(forwardPorts(a, f)) PROVE PmAddCall(a, k)
    <3>1. CASE k = [op |-> "localnet"]
      BY <3>1 DEF PmAddCall
    <3>2. CASE \E c : k = Ensure(NatTable(f), c) /\ NoOthers(a, c)
      <4>1. /\ k.op = "ensure" /\ k.t = NatTable(f) /\ k.fail = Failed /\ IptFields(k)
            /\ NoOthers(a, k.c)
        BY <3>2 DEF Ensure, IptCall, IptFields
      <4> QED
        BY <1>3, <4>1 DEF PmAddCall, AddIpt
    <3>3. CASE \E w \in Wanted(a, f) : \E first :
                  k = UniqueFor(f, w, first) /\ (first => w[1] = Shared("POSTROUTING"))
      <4>1. PICK w \in Wanted(a, f) : \E first :
                  k = UniqueFor(f, w, first) /\ (first => w[1] = Shared("POSTROUTING"))
        BY <3>3
      <4>2. /\ k.op = "unique" /\ k.t = NatTable(f) /\ k.fail = Failed /\ k.c = w[1] /\ k.r = w[2]
            /\ IptFields(k) /\ (k.first => w[1] = Shared("POSTROUTING"))
        BY <4>1 DEF UniqueFor, Unique, IptCall, IptFields
      <4>3. <<w[1], w[2]>> = w
        BY DEF Wanted, WantedOf
      <4> QED
        BY <1>3, <4>2, <4>3 DEF PmAddCall, AddIpt
    <3> QED
      BY <3>1, <3>2, <3>3, ForwardFacts
  <2> QED
    BY <1>3, <2>1, <2>2, <2>3, <2>4
<1> QED
  BY <1>1, <1>2, <1>3

LEMMA AddCallsFacts ==
  ASSUME NEW a \in Att
  PROVE  /\ IsSeq(addCalls(a)) /\ \A k \in ToSet(addCalls(a)) : PmAddCall(a, k)
         /\ Mappings[a] = <<>> => addCalls(a) = <<>>
         /\ Mappings[a] # <<>> => /\ addCalls(a) = AddFamily(a, 4) \o AddFamily(a, 6)
                                  /\ ToSet(addCalls(a)) = ToSet(AddFamily(a, 4)) \cup ToSet(AddFamily(a, 6))
<1>1. addCalls(a) = IF Mappings[a] = <<>> THEN <<>> ELSE AddFamily(a, 4) \o AddFamily(a, 6)
  BY DEF addCalls, AddFamily
<1>2. CASE Mappings[a] = <<>>
  BY <1>1, <1>2, NoSeq
<1>3. CASE Mappings[a] # <<>>
  <2> DEFINE s == AddFamily(a, 4)
             t == AddFamily(a, 6)
  <2>1. IsSeq(s) /\ IsSeq(t) /\ \A k \in ToSet(s) \cup ToSet(t) : PmAddCall(a, k)
    BY AddFamilyFacts
  <2>2. addCalls(a) = s \o t
    BY <1>1, <1>3
  <2> HIDE DEF s, t
  <2>3. IsSeq(s \o t) /\ ToSet(s \o t) = ToSet(s) \cup ToSet(t)
    BY <2>1, ConcatSeq
  <2>4. IsSeq(addCalls(a)) /\ ToSet(addCalls(a)) = ToSet(s) \cup ToSet(t)
    BY <2>2, <2>3
  <2> QED
    BY <1>3, <2>1, <2>2, <2>4 DEF s, t
<1> QED
  BY <1>2, <1>3


LEMMA FirstMono ==
  ASSUME NEW s, NEW I, NEW J, NEW K, NEW L, First(s, I, K), I \subseteq J, ToSet(s) \cap L \subseteq K
  PROVE  First(s, J, L)
BY DEF First, ToSet

\* A call that helps to remove a chain.
TearsDown(k, f, name) ==
    /\ k.t = NatTable(f)
    /\ (k.op \in {"clear", "delchain"} /\ k.c = name) \/ (k.op = "list" /\ k.r.to = name)

\* The three calls that remove a chain.
LEMMA TeardownFacts ==
  ASSUME NEW f, NEW name, NEW into, NEW fail, NEW s, s = teardown(f, name, into, fail)
  PROVE  /\ IsSeq(s)
         /\ [IptCall("clear", NatTable(f), name) EXCEPT !.fail = fail] \in ToSet(s)
         /\ \A k \in ToSet(s) : k.fail = fail /\ TearsDown(k, f, name)
<1> DEFINE x == IptCall("clear", NatTable(f), name)
           y == [IptCall("list", NatTable(f), into) EXCEPT !.r = JumpTo(name)]
           z == IptCall("delchain", NatTable(f), name)
           q == <<x, y, z>>
           Failing(k) == [k EXCEPT !.fail = fail]
<1>1. s = [i \in DOMAIN q |-> [q[i] EXCEPT !.fail = fail]]
  BY DEF teardown, OnError
<1>2. IsSeq(q) /\ DOMAIN q = 1 .. 3 /\ q[1] = x /\ q[2] = y /\ q[3] = z
  BY ThreeSeq
<1>3. TearsDown(Failing(x), f, name) /\ Failing(x).fail = fail
  BY DEF TearsDown, IptCall
<1>4. TearsDown(Failing(y), f, name) /\ Failing(y).fail = fail
  BY DEF TearsDown, IptCall, JumpTo, Always
<1>5. TearsDown(Failing(z), f, name) /\ Failing(z).fail = fail
  BY DEF TearsDown, IptCall
<1>6. Failing(x) = [IptCall("clear", NatTable(f), name) EXCEPT !.fail = fail]
  OBVIOUS
<1> HIDE DEF x, y, z, q
<1>7. s[1] = Failing(x) /\ s[2] = Failing(y) /\ s[3] = Failing(z) /\ DOMAIN s = DOMAIN q
  BY <1>1, <1>2
<1>8. s = [i \in DOMAIN q |-> s[i]]
  BY <1>1
<1>9. IsSeq(s) /\ ToSet(s) = {s[i] : i \in DOMAIN q}
  BY <1>2, <1>8, LikeSeq
<1> HIDE DEF Failing
<1>10. s[1] \in ToSet(s) /\ \A k \in ToSet(s) : k = s[1] \/ k = s[2] \/ k = s[3]
  BY <1>2, <1>9
<1> QED
  BY <1>3, <1>4, <1>5, <1>6, <1>7, <1>9, <1>10

LEMMA TearsFacts ==
  ASSUME NEW f, NEW name, NEW into, NEW fail, NEW s, s = teardown(f, name, into, fail)
  PROVE  IsSeq(s) /\ \A k \in ToSet(s) : k.fail = fail /\ TearsDown(k, f, name)
BY TeardownFacts

\* The calls in s that would leave the chain of a as it is when they fail.
Loses(s, a, f) == {k \in ToSet(s) : k.fail # Failed /\ Clearing(a, f) \notin ToSet(k.fail)}

\* The chain of a is still to be cleared, also when a call fails without
\* ending the command.
Pend(s, a, f) ==
    Clearing(a, f) \in ToSet(s) /\ First(s, {Clearing(a, f)}, Loses(s, a, f))

LEMMA SixFacts ==
  ASSUME NEW a
  PROVE  /\ IsSeq(Six(a)) /\ Pend(Six(a), a, 6)
         /\ \A k \in ToSet(Six(a)) :
               /\ k.fail = Failed \/ k.fail = <<>>
               /\ TearsDown(k, 6, DN(a)) \/ TearsDown(k, 6, OldSN(a))
         /\ Six(a) # GoOn /\ Six(a) # Failed /\ Six(a) # <<>>
<1> DEFINE s == dnOf(a, 6, Failed)
           t == snOf(a, 6, <<>>)
<1>1. /\ IsSeq(s) /\ Clearing(a, 6) \in ToSet(s)
      /\ \A k \in ToSet(s) : k.fail = Failed /\ TearsDown(k, 6, DN(a))
  <2>1. [IptCall("clear", NatTable(6), DN(a)) EXCEPT !.fail = Failed] = Clearing(a, 6)
    BY DEF Clearing
  <2>2. s = teardown(6, DN(a), Shared("HOSTPORT-DNAT"), Failed)
    BY DEF dnOf
  <2> HIDE DEF s
  <2> QED
    BY <2>1, <2>2, TeardownFacts
<1>2. /\ IsSeq(t)
      /\ \A k \in ToSet(t) : k.fail = <<>> /\ TearsDown(k, 6, OldSN(a))
  <2>1. t = teardown(6, OldSN(a), Shared("HOSTPORT-SNAT"), <<>>)
    BY DEF snOf
  <2> HIDE DEF t
  <2> QED
    BY <2>1, TearsFacts
<1>3. Six(a) = s \o t
  BY DEF Six
<1> HIDE DEF s, t
<1>4. IsSeq(Six(a)) /\ ToSet(Six(a)) = ToSet(s) \cup ToSet(t)
  BY <1>1, <1>2, <1>3, ConcatSeq
<1>5. First(s, {Clearing(a, 6)}, Loses(Six(a), a, 6))
  <2>1. \A i \in DOMAIN s : s[i].fail = Failed
    BY <1>1 DEF ToSet
  <2> QED
    BY <2>1 DEF First, Loses
<1>6. Pend(Six(a), a, 6)
  BY <1>1, <1>2, <1>3, <1>4, <1>5, ConcatFirst DEF Pend
<1>7. ToSet(GoOn) = {[op |-> "go on"]} /\ ToSet(Failed) = {[op |-> "abort"]} /\ ToSet(<<>>) = {}
  BY OneSeq, NoSeq DEF GoOn, Failed
<1>8. Clearing(a, 6).op = "clear" /\ Clearing(a, 6) \in ToSet(Six(a))
  BY <1>1, <1>4 DEF Clearing, IptCall
<1>9. [op |-> "go on"].op = "go on" /\ [op |-> "abort"].op = "abort"
  OBVIOUS
<1>10. Six(a) # GoOn /\ Six(a) # Failed /\ Six(a) # <<>>
  BY <1>7, <1>8, <1>9
<1> QED
  BY <1>1, <1>2, <1>4, <1>6, <1>10

LEMMA UnforwardFacts ==
  ASSUME NEW a, NEW found, found \subseteq Usable
  PROVE  /\ IsSeq(unforwardPorts(a, found))
         /\ \A k \in ToSet(unforwardPorts(a, found)) : PmDelCall(a, k)
         /\ \A f \in found : Pend(unforwardPorts(a, found), a, f)
<1> DEFINE six == IF 6 \in found THEN Six(a) ELSE <<>>
           s == dnOf(a, 4, Failed)
           t == snOf(a, 4, six)
           four == IF 4 \in found THEN s \o t ELSE <<>>
           all == unforwardPorts(a, found)
<1>1. all = four \o six
  BY DEF unforwardPorts, dnOf, snOf, Six
<1>2. /\ IsSeq(s) /\ Clearing(a, 4) \in ToSet(s)
      /\ \A k \in ToSet(s) : k.fail = Failed /\ TearsDown(k, 4, DN(a))
  <2>1. [IptCall("clear", NatTable(4), DN(a)) EXCEPT !.fail = Failed] = Clearing(a, 4)
    BY DEF Clearing
  <2>2. s = teardown(4, DN(a), Shared("HOSTPORT-DNAT"), Failed)
    BY DEF dnOf
  <2> HIDE DEF s
  <2> QED
    BY <2>1, <2>2, TeardownFacts
<1>3. /\ IsSeq(t)
      /\ \A k \in ToSet(t) : k.fail = six /\ TearsDown(k, 4, OldSN(a))
  <2>1. t = teardown(4, OldSN(a), Shared("HOSTPORT-SNAT"), six)
    BY DEF snOf
  <2> HIDE DEF t, six
  <2> QED
    BY <2>1, TearsFacts
<1>4. /\ IsSeq(six) /\ (6 \notin found => ToSet(six) = {})
      /\ \A k \in ToSet(six) :
            /\ (k.fail = Failed \/ k.fail = <<>>) /\ 6 \in found
            /\ TearsDown(k, 6, DN(a)) \/ TearsDown(k, 6, OldSN(a))
  BY SixFacts, NoSeq
<1> HIDE DEF s, t, all
<1>5. IsSeq(s \o t) /\ ToSet(s \o t) = ToSet(s) \cup ToSet(t)
  BY <1>2, <1>3, ConcatSeq
<1>6. IsSeq(four) /\ ToSet(four) = IF 4 \in found THEN ToSet(s) \cup ToSet(t) ELSE {}
  BY <1>5, NoSeq
<1>7. IsSeq(all) /\ ToSet(all) = ToSet(four) \cup ToSet(six)
  <2> HIDE DEF four, six
  <2> QED
    BY <1>1, <1>4, <1>6, ConcatSeq
<1>8. six = <<>> \/ (6 \in Usable /\ six = Six(a))
  OBVIOUS
<1>9. ASSUME NEW k \in ToSet(all) PROVE PmDelCall(a, k)
  <2>1. CASE k \in ToSet(s) /\ 4 \in found
    BY <1>2, <2>1 DEF PmDelCall, TearsDown
  <2>2. CASE k \in ToSet(t) /\ 4 \in found
    <3> HIDE DEF six
    <3> QED
      BY <1>3, <1>8, <2>2 DEF PmDelCall, TearsDown
  <2>3. CASE k \in ToSet(six)
    <3> HIDE DEF six
    <3> QED
      BY <1>4, <2>3 DEF PmDelCall, TearsDown
  <2> QED
    BY <1>6, <1>7, <2>1, <2>2, <2>3
<1>10. ASSUME 6 \in found PROVE Pend(all, a, 6)
  <2>1. six = Six(a) /\ Clearing(a, 6) \in ToSet(Six(a))
    BY <1>10, SixFacts DEF Pend
  <2>2. \A k \in ToSet(four) : k.fail = Failed \/ k.fail = Six(a)
    BY <1>2, <1>3, <1>6, <2>1
  <2>3. First(four, {Clearing(a, 6)}, Loses(all, a, 6))
    <3>1. \A i \in DOMAIN four : four[i].fail = Failed \/ four[i].fail = Six(a)
      BY <2>2 DEF ToSet
    <3> HIDE DEF four
    <3> QED
      BY <2>1, <3>1 DEF First, Loses
  <2>4. First(Six(a), {Clearing(a, 6)}, Loses(all, a, 6))
    <3>1. First(Six(a), {Clearing(a, 6)}, Loses(Six(a), a, 6))
      BY SixFacts DEF Pend
    <3>2. ToSet(Six(a)) \cap Loses(all, a, 6) \subseteq Loses(Six(a), a, 6)
      BY DEF Loses
    <3> QED
      BY <3>1, <3>2, FirstMono
  <2> HIDE DEF four, six
  <2>5. First(four \o six, {Clearing(a, 6)}, Loses(all, a, 6))
    BY <1>4, <1>6, <2>1, <2>3, <2>4, ConcatFirst
  <2> QED
    BY <1>1, <1>7, <2>1, <2>5 DEF Pend
<1>11. ASSUME 4 \in found PROVE Pend(all, a, 4)
  <2>1. four = s \o t /\ Clearing(a, 4) \in ToSet(four)
    BY <1>2, <1>6, <1>11
  <2>2. First(s, {Clearing(a, 4)}, Loses(all, a, 4))
    <3>1. \A i \in DOMAIN s : s[i].fail = Failed
      BY <1>2 DEF ToSet
    <3> QED
      BY <3>1 DEF First, Loses
  <2> HIDE DEF four, six
  <2>3. First(four, {Clearing(a, 4)}, Loses(all, a, 4))
    BY <1>2, <1>3, <2>1, <2>2, ConcatFirst
  <2>4. First(four \o six, {Clearing(a, 4)}, Loses(all, a, 4))
    BY <1>4, <1>6, <2>1, <2>3, ConcatFirst
  <2> QED
    BY <1>1, <1>7, <2>1, <2>4 DEF Pend
<1>12. \A f \in found : f = 4 \/ f = 6
  BY PortmapAssumption
<1> QED
  BY <1>7, <1>9, <1>10, <1>11, <1>12 DEF all


\* What listing a chain leaves to do.
LEMMA DeletesFacts ==
  ASSUME TablesOK, NEW k, k.t \in Tables, NEW fail, NEW s, s = OnError(Deletes(k), fail)
  PROVE  /\ IsSeq(s)
         /\ \A d \in ToSet(s) : /\ d.op = "delete" /\ d.t = k.t /\ d.c = k.c
                                /\ d.r.to = k.r.to /\ d.fail = fail
                                /\ Exists(k.t, k.c, d.r)
         /\ \A r : Exists(k.t, k.c, r) /\ r.to = k.r.to =>
               [Delete(k.t, k.c, r) EXCEPT !.fail = fail] \in ToSet(s)
<1> DEFINE rules == RulesIn(k.t, k.c)
           part(i) == IF rules[i].to = k.r.to THEN <<Delete(k.t, k.c, rules[i])>> ELSE <<>>
           q == [i \in DOMAIN rules |-> part(i)]
           d == Deletes(k)
<1>1. IsSeq(rules) /\ \A r : Exists(k.t, k.c, r) <=> r \in ToSet(rules)
  BY RulesSeq
<1>2. d = FlattenSeq(q)
  BY DEF Deletes
<1>3. \A i \in DOMAIN rules :
         /\ IsSeq(part(i))
         /\ \A x : x \in ToSet(part(i)) <=>
               rules[i].to = k.r.to /\ x = Delete(k.t, k.c, rules[i])
  BY OneSeq, NoSeq
<1> HIDE DEF part
<1>4. \A i \in DOMAIN rules : q[i] = part(i)
  OBVIOUS
<1>5. DOMAIN q = DOMAIN rules /\ q = [i \in DOMAIN rules |-> q[i]]
  OBVIOUS
<1> HIDE DEF q, rules, d
<1>6. IsSeq(q)
  BY <1>1, <1>5, LikeSeq
<1>7. \A x : x \in ToSet(d) <=> \E i \in DOMAIN rules : x \in ToSet(q[i])
  BY <1>2, <1>3, <1>4, <1>5, <1>6, FlattenFacts
<1>8. IsSeq(d)
  BY <1>2, <1>3, <1>4, <1>5, <1>6, FlattenFacts
<1>9. s = [i \in DOMAIN d |-> [d[i] EXCEPT !.fail = fail]]
  BY DEF OnError, d
<1>10. s = [i \in DOMAIN d |-> s[i]]
  BY <1>9
<1>11. IsSeq(s) /\ ToSet(s) = {s[i] : i \in DOMAIN d}
  BY <1>8, <1>10, LikeSeq
<1>12. \A x : x \in ToSet(s) <=> \E y \in ToSet(d) : x = [y EXCEPT !.fail = fail]
  <2> DEFINE Failing(y) == [y EXCEPT !.fail = fail]
  <2>1. \A i \in DOMAIN d : s[i] = Failing(d[i])
    BY <1>9
  <2>2. \A y : y \in ToSet(d) <=> \E i \in DOMAIN d : d[i] = y
    BY DEF ToSet
  <2> HIDE DEF Failing
  <2>3. \A x : x \in ToSet(s) <=> \E y \in ToSet(d) : x = Failing(y)
    BY <1>11, <2>1, <2>2
  <2> QED
    BY <2>3 DEF Failing
<1>13. \A r : LET x == [Delete(k.t, k.c, r) EXCEPT !.fail = fail] IN
         x.op = "delete" /\ x.t = k.t /\ x.c = k.c /\ x.r = r /\ x.fail = fail
  BY DEF Delete, IptCall
<1>14. \A r : r \in ToSet(rules) <=> \E i \in DOMAIN rules : rules[i] = r
  BY DEF ToSet
<1>15. ASSUME NEW x \in ToSet(s)
       PROVE  /\ x.op = "delete" /\ x.t = k.t /\ x.c = k.c
              /\ x.r.to = k.r.to /\ x.fail = fail
              /\ Exists(k.t, k.c, x.r)
  <2>1. PICK y \in ToSet(d) : x = [y EXCEPT !.fail = fail]
    BY <1>12
  <2>2. PICK i \in DOMAIN rules : y \in ToSet(q[i])
    BY <1>7
  <2>3. y = Delete(k.t, k.c, rules[i]) /\ rules[i].to = k.r.to
    BY <1>3, <1>4, <2>2
  <2> QED
    BY <1>1, <1>13, <1>14, <2>1, <2>3
<1>16. ASSUME NEW r, Exists(k.t, k.c, r), r.to = k.r.to
       PROVE  [Delete(k.t, k.c, r) EXCEPT !.fail = fail] \in ToSet(s)
  <2>1. PICK i \in DOMAIN rules : rules[i] = r
    BY <1>1, <1>14, <1>16
  <2>2. Delete(k.t, k.c, r) \in ToSet(d)
    BY <1>3, <1>4, <1>7, <1>16, <2>1
  <2> QED
    BY <1>12, <2>2
<1> QED
  BY <1>11, <1>15, <1>16

\* The operation of the calls.
LEMMA CallOps ==
  ASSUME NEW a
  PROVE  /\ proc[a].todo = Start => proc[a].todo # <<>> /\ Call(a).op = "start"
         /\ IsSeq(proc[a].todo) /\ proc[a].todo # <<>> =>
               /\ Call(a) \in ToSet(proc[a].todo)
               /\ IsSeq(Rest(a)) /\ ToSet(Rest(a)) \subseteq ToSet(proc[a].todo)
         /\ Start # <<>> /\ Start # Failed
<1>1. ASSUME proc[a].todo = Start PROVE proc[a].todo # <<>> /\ Call(a).op = "start"
  BY <1>1 DEF Start, Call
<1>2. ASSUME IsSeq(proc[a].todo), proc[a].todo # <<>>
      PROVE  /\ Call(a) \in ToSet(proc[a].todo)
             /\ IsSeq(Rest(a)) /\ ToSet(Rest(a)) \subseteq ToSet(proc[a].todo)
  BY <1>2, TailSeq DEF Call, Rest
<1>3. Start # <<>> /\ Start # Failed
  BY DEF Start, Failed
<1> QED
  BY <1>1, <1>2, <1>3

LEMMA IptOps ==
  ASSUME NEW a, NEW plugin, IptStep(a, plugin)
  PROVE  /\ proc[a].todo # <<>> /\ Running(a, plugin)
         /\ Call(a).op \in {"ensure", "unique", "insert", "clear", "list", "delete", "delchain", "abort"}
BY DEF IptStep


LEMMA WantedSame ==
  ASSUME NEW a, NEW f, ip'[a] = ip[a]
  PROVE  Wanted(a, f)' = Wanted(a, f)
<1>1. fillDnatRules(a, f)' = fillDnatRules(a, f)
  BY DEF fillDnatRules, MappingRules
<1>2. genDnatChain(a, f)' = genDnatChain(a, f)
  BY <1>1 DEF genDnatChain
<1>3. ChainsOf(a, f)' = ChainsOf(a, f)
  BY <1>2 DEF ChainsOf
<1> QED
  BY <1>3 DEF Wanted, WantedOf

\* The types of the calls depend on the address of the attachment only.
LEMMA PmAddSame ==
  ASSUME NEW a, ip'[a] = ip[a], NEW k
  PROVE  PmAddCall(a, k)' <=> PmAddCall(a, k)
<1>1. \A f : Wanted(a, f)' = Wanted(a, f)
  BY WantedSame
<1> QED
  BY <1>1 DEF PmAddCall, AddIpt

LEMMA PmTypedSame ==
  ASSUME NEW a, ip'[a] = ip[a], proc'[a] = proc[a]
  PROVE  PmTyped(a)' <=> PmTyped(a)
<1>1. \A k : PmAddCall(a, k)' <=> PmAddCall(a, k)
  BY PmAddSame
<1>2. \A k : PmDelCall(a, k)' <=> PmDelCall(a, k)
  BY DEF PmDelCall
<1> QED
  BY <1>1, <1>2 DEF PmTyped

\* The calls of a command that goes on are of their types.
LEMMA PmTypedTodo ==
  ASSUME NEW a, ip'[a] = ip[a], proc'[a].cmd = proc[a].cmd, NEW s, proc'[a].todo = s, IsSeq(s),
         proc[a].cmd = "add" => \A k \in ToSet(s) : PmAddCall(a, k),
         proc[a].cmd = "del" => \A k \in ToSet(s) : PmDelCall(a, k),
         proc[a].cmd = "check" => s = <<>>
  PROVE  PmTyped(a)'
<1>1. \A k : PmAddCall(a, k)' <=> PmAddCall(a, k)
  BY PmAddSame
<1>2. \A k : PmDelCall(a, k)' <=> PmDelCall(a, k)
  BY DEF PmDelCall
<1> QED
  BY <1>1, <1>2 DEF PmTyped

\* Which calls of iptables portmap makes.
LEMMA PmIptCalls ==
  ASSUME ChainInv, NEW a \in Att, PmTyped(a), IptStep(a, "portmap"), NEW k, k = Call(a)
  PROVE  /\ k \in ToSet(proc[a].todo) /\ proc[a].todo # <<>>
         /\ proc[a].cmd \in {"add", "del"}
         /\ proc[a].cmd = "add" =>
               \/ k.op = "abort"
               \/ AddIpt(a, k) /\ k.op \in {"ensure", "unique", "insert"}
         /\ proc[a].cmd = "del" => PmDelCall(a, k) /\ k.op \notin {"unique", "ensure", "insert", "abort"}
         /\ k.op # "abort" => k.t \in Tables /\ \E f \in {4, 6} : k.t = NatTable(f)
<1>1. k \in ToSet(proc[a].todo) /\ proc[a].todo # <<>>
  BY IptOps, CallOps DEF PmTyped
<1>2. k.op \in {"ensure", "unique", "insert", "clear", "list", "delete", "delchain", "abort"}
  BY IptOps
<1>3. Running(a, "portmap") /\ proc[a].cmd \in {"none", "add", "del", "check"}
  BY IptOps DEF ChainInv, ProcOK
<1>4. proc[a].cmd \in {"add", "del"}
  <2>1. ASSUME proc[a].cmd = "check" PROVE FALSE
    BY <1>1, <2>1 DEF PmTyped
  <2> QED
    BY <1>3, <2>1 DEF Running, Idle
<1>5. ASSUME proc[a].cmd = "add"
      PROVE  \/ k.op = "abort"
             \/ AddIpt(a, k) /\ k.op \in {"ensure", "unique", "insert"}
  BY <1>1, <1>2, <1>5 DEF PmTyped, PmAddCall, AddIpt
<1>6. ASSUME proc[a].cmd = "del"
      PROVE  PmDelCall(a, k) /\ k.op \notin {"unique", "ensure", "insert", "abort"}
  BY <1>1, <1>2, <1>6 DEF PmTyped, PmDelCall
<1>7. ASSUME k.op # "abort" PROVE \E f \in {4, 6} : k.t = NatTable(f)
  BY <1>4, <1>5, <1>6, <1>7, PortmapAssumption DEF AddIpt, PmDelCall
<1>8. \A f \in {4, 6} : NatTable(f) \in Tables
  BY IptAssumption DEF NatTable
<1> QED
  BY <1>1, <1>4, <1>5, <1>6, <1>7, <1>8

\* An ADD's rule that was not there is to be inserted.
LEMMA InsertedFacts ==
  ASSUME NEW k, IptFields(k)
  PROVE  /\ IptFields(Inserted(k)) /\ Inserted(k).op = "insert"
         /\ Inserted(k).t = k.t /\ Inserted(k).c = k.c /\ Inserted(k).r = k.r
         /\ Inserted(k).fail = k.fail /\ Inserted(k).first = k.first
BY DEF IptFields, Inserted

\* A call of portmap that starts, or that is not one of iptables.
LEMMA PmTypedOther ==
  ASSUME ChainInv, NEW a \in Att, Running(a, "portmap"), proc[a].todo = Start \/ PmTyped(a),
         PortmapStart(a) \/ enableLocalnetRouting(a) \/ PurgeFlows(a)
  PROVE  Running(a, "portmap")' => PmTyped(a)'
<1> SUFFICES ASSUME Running(a, "portmap")' PROVE PmTyped(a)'
  OBVIOUS
<1>1. ASSUME NEW s, Do(a, s) \/ Fault(a, s)
      PROVE  ip'[a] = ip[a] /\ proc'[a].cmd = proc[a].cmd /\ proc'[a].todo = s
  <2>1. ip' = ip
    BY <1>1 DEF Do, Fault
  <2> QED
    BY <1>1, <2>1, DoFacts, FaultFacts
<1>2. ~Error(a)
  BY ErrorFacts
<1>3. CASE PortmapStart(a)
  <2>1. CASE PortmapAdd(a)
    <3>1. Do(a, addCalls(a)) /\ proc[a].cmd = "add"
      BY <1>2, <2>1 DEF PortmapAdd
    <3> QED
      BY <1>1, <3>1, AddCallsFacts, PmTypedTodo
  <2>2. CASE PortmapDel(a)
    <3>1. proc[a].cmd = "del"
      BY <2>2 DEF PortmapDel
    <3>2. CASE Do(a, <<>>)
      BY <1>1, <3>1, <3>2, NoSeq, PmTypedTodo
    <3>3. CASE UnforwardFound(a)
      <4>1. ASSUME NEW found, found \subseteq Usable,
                   Do(a, unforwardPorts(a, found)) \/ Fault(a, unforwardPorts(a, found))
            PROVE  PmTyped(a)'
        BY <1>1, <3>1, <4>1, UnforwardFacts, PmTypedTodo
      <4>2. ~Fault(a, Failed)
        BY FaultFacts
      <4> QED
        BY <3>3, <4>1, <4>2 DEF UnforwardFound
    <3> QED
      BY <1>2, <2>2, <3>2, <3>3 DEF PortmapDel
  <2>3. CASE PortmapCheck(a)
    <3>1. proc[a].cmd = "check" /\ Do(a, <<>>)
      BY <1>2, <2>3 DEF PortmapCheck
    <3> QED
      BY <1>1, <3>1, NoSeq, PmTypedTodo
  <2> QED
    BY <1>3, <2>1, <2>2, <2>3 DEF PortmapStart
<1>4. CASE enableLocalnetRouting(a)
  <2>1. proc[a].todo # <<>> /\ Call(a).op = "localnet"
    BY <1>4 DEF enableLocalnetRouting, At, Call
  <2>2. PmTyped(a)
    BY <2>1, CallOps
  <2>3. Do(a, Rest(a))
    <3>1. ~Fault(a, Failed)
      BY FaultFacts
    <3> QED
      BY <1>4, <3>1 DEF enableLocalnetRouting
  <2>4. IsSeq(proc[a].todo)
    BY <2>2 DEF PmTyped
  <2>5. IsSeq(Rest(a)) /\ ToSet(Rest(a)) \subseteq ToSet(proc[a].todo)
    BY <2>1, <2>4, CallOps
  <2> QED
    BY <1>1, <2>1, <2>2, <2>3, <2>5, PmTypedTodo DEF PmTyped
<1>5. CASE PurgeFlows(a)
  <2> DEFINE k == Call(a)
             new == [k EXCEPT !.ports = Tail(@)]
  <2>1. proc[a].todo # <<>> /\ k.op = "purge"
    BY <1>5 DEF PurgeFlows, At, Call
  <2>2. PmTyped(a)
    BY <2>1, CallOps
  <2>3. IsSeq(proc[a].todo)
    BY <2>2 DEF PmTyped
  <2>4. k \in ToSet(proc[a].todo) /\ IsSeq(Rest(a)) /\ ToSet(Rest(a)) \subseteq ToSet(proc[a].todo)
    BY <2>1, <2>3, CallOps
  <2>5. CASE Do(a, Rest(a)) \/ Fault(a, Rest(a))
    BY <1>1, <2>1, <2>2, <2>4, <2>5, PmTypedTodo DEF PmTyped
  <2>6. CASE k.ports # <<>> /\ Do(a, <<new>> \o Rest(a))
    <3>1. proc[a].cmd = "add"
      <4>1. proc[a].cmd \in {"add", "del", "check"}
        BY DEF ChainInv, ProcOK, Running, Idle
      <4>2. proc[a].cmd # "check"
        BY <2>1, <2>2 DEF PmTyped
      <4>3. ASSUME proc[a].cmd = "del" PROVE FALSE
        BY <2>1, <2>2, <2>4, <4>3 DEF PmTyped, PmDelCall
      <4> QED
        BY <4>1, <4>2, <4>3
    <3>2. PmAddCall(a, k)
      BY <2>2, <2>4, <3>1 DEF PmTyped
    <3>3. /\ {"op", "f", "ports"} \subseteq DOMAIN k
          /\ k.f \in Usable \cap ContFams(a) /\ IsSeq(k.ports)
      BY <2>1, <3>2 DEF PmAddCall, AddIpt
    <3>4. /\ {"op", "f", "ports"} \subseteq DOMAIN new
          /\ new.op = k.op /\ new.f = k.f /\ new.ports = Tail(k.ports)
      <4> HIDE DEF k
      <4> QED
        BY <3>3
    <3>5. PmAddCall(a, new)
      BY <2>1, <2>6, <3>3, <3>4, TailSeq DEF PmAddCall
    <3> HIDE DEF new
    <3>6. IsSeq(<<new>> \o Rest(a)) /\ ToSet(<<new>> \o Rest(a)) = {new} \cup ToSet(Rest(a))
      BY <2>4, OneSeq, ConcatSeq
    <3>7. \A x \in ToSet(<<new>> \o Rest(a)) : PmAddCall(a, x)
      BY <2>2, <2>4, <3>1, <3>5, <3>6 DEF PmTyped
    <3> QED
      BY <1>1, <2>6, <3>1, <3>6, <3>7, PmTypedTodo
  <2> QED
    BY <1>5, <2>5, <2>6 DEF PurgeFlows
<1> QED
  BY <1>3, <1>4, <1>5

LEMMA PmTypedIpt ==
  ASSUME ChainInv, TablesOK, NEW a \in Att, PmTyped(a), IptStep(a, "portmap")
  PROVE  TablesOK' /\ (Running(a, "portmap")' => PmTyped(a)')
<1> DEFINE k == Call(a)
<1>1. /\ k \in ToSet(proc[a].todo) /\ proc[a].todo # <<>>
      /\ proc[a].cmd \in {"add", "del"}
      /\ proc[a].cmd = "add" =>
            \/ k.op = "abort"
            \/ AddIpt(a, k) /\ k.op \in {"ensure", "unique", "insert"}
      /\ proc[a].cmd = "del" => PmDelCall(a, k) /\ k.op \notin {"unique", "ensure", "insert", "abort"}
      /\ k.op # "abort" => k.t \in Tables
  BY PmIptCalls
<1>2. IsSeq(proc[a].todo)
  BY DEF PmTyped
<1>3. IsSeq(Rest(a)) /\ ToSet(Rest(a)) \subseteq ToSet(proc[a].todo)
  BY <1>1, <1>2, CallOps
<1> HIDE DEF k
<1>4. /\ TablesOK'
      /\ \/ ~Running(a, "portmap")'
         \/ proc'[a].cmd = proc[a].cmd /\ k.op # "abort" /\ Goes(a, k)
  BY <1>1, IptOutcome DEF k
<1>5. ip'[a] = ip[a]
  BY IptSteps DEF Steps
<1>6. ASSUME proc'[a].cmd = proc[a].cmd, k.op # "abort", Goes(a, k)
      PROVE  PmTyped(a)'
  <2>1. CASE proc'[a].todo = Rest(a)
    BY <1>1, <1>3, <1>5, <1>6, <2>1, PmTypedTodo DEF PmTyped
  <2>2. CASE k.op = "unique" /\ proc'[a].todo = <<Inserted(k)>> \o Rest(a)
    <3>1. proc[a].cmd = "add" /\ AddIpt(a, k)
      BY <1>1, <2>2
    <3>2. PmAddCall(a, Inserted(k))
      BY <2>2, <3>1, InsertedFacts DEF PmAddCall, AddIpt
    <3>3. /\ IsSeq(<<Inserted(k)>> \o Rest(a))
          /\ ToSet(<<Inserted(k)>> \o Rest(a)) = {Inserted(k)} \cup ToSet(Rest(a))
      BY <1>3, OneSeq, ConcatSeq
    <3>4. \A x \in ToSet(<<Inserted(k)>> \o Rest(a)) : PmAddCall(a, x)
      BY <1>3, <3>1, <3>2, <3>3 DEF PmTyped
    <3> QED
      BY <1>5, <1>6, <2>2, <3>1, <3>3, <3>4, PmTypedTodo
  <2>3. CASE k.op = "list" /\ proc'[a].todo = OnError(Deletes(k), k.fail) \o Rest(a)
    <3> DEFINE d == OnError(Deletes(k), k.fail)
    <3>1. proc[a].cmd = "del" /\ PmDelCall(a, k)
      BY <1>1, <2>3
    <3>2. /\ IsSeq(d)
          /\ \A x \in ToSet(d) : x.op = "delete" /\ x.t = k.t /\ x.r.to = k.r.to /\ x.fail = k.fail
      BY <1>1, <1>6, DeletesFacts
    <3>3. \A x \in ToSet(d) : PmDelCall(a, x)
      BY <2>3, <3>1, <3>2 DEF PmDelCall
    <3> HIDE DEF d
    <3>4. IsSeq(d \o Rest(a)) /\ ToSet(d \o Rest(a)) = ToSet(d) \cup ToSet(Rest(a))
      BY <1>3, <3>2, ConcatSeq
    <3>5. \A x \in ToSet(d \o Rest(a)) : PmDelCall(a, x)
      BY <1>3, <3>1, <3>3, <3>4 DEF PmTyped
    <3>6. proc'[a].todo = d \o Rest(a)
      BY <2>3 DEF d
    <3> QED
      BY <1>5, <1>6, <3>1, <3>4, <3>5, <3>6, PmTypedTodo
  <2>4. CASE k.fail # Failed /\ proc'[a].todo = IF k.fail = GoOn THEN Rest(a) ELSE k.fail
    <3>1. proc[a].cmd = "del" /\ PmDelCall(a, k)
      BY <1>1, <1>6, <2>4 DEF AddIpt
    <3>2. CASE k.fail = <<>>
      BY <1>3, <1>5, <1>6, <2>1, <2>4, <3>1, <3>2, NoSeq, PmTypedTodo
    <3>3. CASE k.fail = Six(a) /\ 6 \in Usable
      <4>1. \A x \in ToSet(Six(a)) : PmDelCall(a, x)
        BY <3>3, SixFacts DEF PmDelCall, TearsDown
      <4> QED
        BY <1>5, <1>6, <2>4, <3>1, <3>3, <4>1, SixFacts, PmTypedTodo
    <3> QED
      BY <2>4, <3>1, <3>2, <3>3 DEF PmDelCall
  <2> QED
    BY <1>6, <2>1, <2>2, <2>3, <2>4 DEF Goes
<1> QED
  BY <1>4, <1>6

LEMMA PmTypedStep ==
  ASSUME ChainInv, TablesOK, NEW a \in Att, Running(a, "portmap"), PortmapStep(a),
         proc[a].todo = Start \/ PmTyped(a)
  PROVE  TablesOK' /\ (Running(a, "portmap")' => PmTyped(a)')
<1>1. CASE PortmapStart(a) \/ enableLocalnetRouting(a) \/ PurgeFlows(a)
  <2>1. tables' = tables
    BY <1>1 DEF PortmapStart, enableLocalnetRouting, PurgeFlows
  <2> QED
    BY <1>1, <2>1, PmTypedOther, ChainsSame
<1>2. CASE IptStep(a, "portmap")
  <2>1. PmTyped(a)
    BY <1>2, IptOps, CallOps
  <2> QED
    BY <1>2, <2>1, PmTypedIpt
<1> QED
  BY <1>1, <1>2 DEF PortmapStep


-----------------------------------------------------------------------------
(* The steps, as the plugins that use iptables see them.                   *)

\* No call of portmap or firewall.
Elsewhere ==
    /\ UNCHANGED <<tables, firewallVars, localnet, logged>>
    /\ \A b \in Att : Quiet(b, "portmap") /\ Quiet(b, "firewall")

LEMMA NextCases ==
  ASSUME ChainInv, [Next]_vars
  PROVE  \/ \E a \in Att : /\ Running(a, "portmap") /\ PortmapStep(a) /\ UNCHANGED firewallVars
                           /\ \A b \in Att : Quiet(b, "firewall")
         \/ \E a \in Att : /\ Running(a, "firewall") /\ FirewallStep(a) /\ UNCHANGED portmapVars
                           /\ \A b \in Att : Quiet(b, "portmap")
         \/ /\ Elsewhere
            /\ flows' = flows \/ \E f \in Usable, p \in UdpPorts : Traffic(f, p)
<1>1. ASSUME NEW a \in Att, RuntimeStep(a) PROVE Elsewhere /\ flows' = flows
  BY <1>1, RuntimeQuiet DEF RuntimeStep, Elsewhere, portmapVars
<1>2. ASSUME NEW a \in Att, Running(a, "bandwidth"), BandwidthStep(a), UNCHANGED <<tables, portmapVars, firewallVars>>
      PROVE  Elsewhere /\ flows' = flows
  <2>1. ~Running(a, "portmap") /\ ~Running(a, "firewall")
    BY <1>2 DEF Running
  <2>2. Steps(a)
    BY <1>2, BandwidthSteps
  <2> QED
    BY <1>2, <2>1, <2>2, OtherPlugin DEF Elsewhere, portmapVars
<1>3. ASSUME NEW a \in Att, Running(a, "portmap"), PortmapStep(a)
      PROVE  \A b \in Att : Quiet(b, "firewall")
  <2>1. ~Running(a, "firewall")
    BY <1>3 DEF Running
  <2> QED
    BY <1>3, <2>1, PortmapSteps, OtherPlugin
<1>4. ASSUME NEW a \in Att, Running(a, "firewall"), FirewallStep(a)
      PROVE  \A b \in Att : Quiet(b, "portmap")
  <2>1. ~Running(a, "portmap")
    BY <1>4 DEF Running
  <2> QED
    BY <1>4, <2>1, FirewallSteps, OtherPlugin
<1>5. ASSUME NEW f \in Usable, NEW p \in UdpPorts, Traffic(f, p) PROVE Elsewhere
  <2>1. UNCHANGED <<chainVars, tables, localnet, logged, firewallVars>>
    BY <1>5 DEF Traffic, NewFlow, FlowExpires
  <2> QED
    BY <2>1, QuietSame DEF Elsewhere
<1>6. CASE UNCHANGED vars
  BY <1>6, QuietSame DEF vars, Elsewhere, portmapVars
<1>7. ASSUME NEW a \in Att, PluginStep(a)
      PROVE  \/ Running(a, "portmap") /\ PortmapStep(a) /\ UNCHANGED firewallVars
             \/ Running(a, "firewall") /\ FirewallStep(a) /\ UNCHANGED portmapVars
             \/ Elsewhere /\ flows' = flows
  BY <1>2, <1>7 DEF PluginStep
<1> QED
  BY <1>1, <1>3, <1>4, <1>5, <1>6, <1>7 DEF Next

-----------------------------------------------------------------------------
(* The calls of portmap are of their types.                                *)

PmCalls == \A a \in Att : Running(a, "portmap") => proc[a].todo = Start \/ PmTyped(a)

\* The processes of portmap that a step of another plugin leaves alone.
LEMMA PmCallsQuiet ==
  ASSUME PmCalls, \A b \in Att : Quiet(b, "portmap")
  PROVE  PmCalls'
<1> SUFFICES ASSUME NEW b \in Att, Running(b, "portmap")', proc'[b].todo # Start PROVE PmTyped(b)'
  BY DEF PmCalls
<1>1. Running(b, "portmap") /\ proc'[b] = proc[b] /\ ip'[b] = ip[b]
  BY DEF Quiet
<1> QED
  BY <1>1, PmTypedSame DEF PmCalls

LEMMA PmCallsOwn ==
  ASSUME ChainInv, TablesOK, PmCalls, NEW a \in Att, Running(a, "portmap"), PortmapStep(a)
  PROVE  TablesOK' /\ PmCalls'
<1>1. TablesOK' /\ (Running(a, "portmap")' => PmTyped(a)')
  BY PmTypedStep DEF PmCalls
<1>2. Steps(a)
  BY PortmapSteps
<1>3. ASSUME NEW b \in Att \ {a}, Running(b, "portmap")', proc'[b].todo # Start PROVE PmTyped(b)'
  <2>1. proc'[b] = proc[b] /\ ip'[b] = ip[b] /\ chain' = chain
    BY <1>2, StepsFacts DEF Steps
  <2>2. Running(b, "portmap")
    BY <1>3, <2>1 DEF Running, Idle
  <2> QED
    BY <1>3, <2>1, <2>2, PmTypedSame DEF PmCalls
<1> QED
  BY <1>1, <1>3 DEF PmCalls

-----------------------------------------------------------------------------
(* The firewall plugin.                                                    *)

\* The rules that let address i through.
Accepts(i) == {getPrivChainRules(i)[1], getPrivChainRules(i)[2]}

\* The rules that an ADD of a wants, with their chains.
FwWanted(a) ==
    {<<Forward, JumpTo(Priv)>>, <<Priv, JumpTo(Admin(a))>>} \cup {<<Priv, r>> : r \in Accepts(ip[a])}

\* The calls of its commands, with the iptables backend.
FwAdds(a, k) ==
    /\ k.op \in {"unique", "insert"}
    /\ <<k.c, k.r>> \in FwWanted(a)
    /\ k.first <=> k.r \notin Accepts(ip[a])
    /\ k.fail = Failed \/ \E f \in FwFams[a] : k.fail = cleanupRules(f, ip[a]) \o Failed
FwDeletes(a, k) ==
    /\ k.op = "delete" /\ k.c = Priv /\ k.r \in Accepts(ip[a])
    /\ k.fail = GoOn

FwIptCall(a, k) ==
    /\ IptFields(k)
    /\ \E f \in FwFams[a] : k.t = Filter(f)
    /\ (k.op = "ensure" /\ k.fail = Failed) \/ FwAdds(a, k) \/ FwDeletes(a, k)

FwCall(a, k) ==
    \/ k.op = "abort"
    \/ k.op \in {"look", "add source", "remove source", "query source"} /\ k.f \in FwFams[a]
    \/ FwIptCall(a, k)

FwTypes(a, cmd, s) ==
    /\ IsSeq(s)
    /\ \A k \in ToSet(s) :
          /\ FwCall(a, k)
          /\ k.op = "add source" => cmd = "add" /\ UsesFirewalld(a)
          /\ k.op = "remove source" => cmd = "del"
          /\ k.op \in {"ensure", "unique", "insert"} => cmd # "del"
          /\ k.op \in {"unique", "insert"} => cmd = "add" /\ ~UsesFirewalld(a)
          /\ k.op = "delete" => cmd = "del" \/ (cmd = "add" /\ [op |-> "abort"] \in ToSet(s))

\* Where the rules and the addresses of a are.
FwPlaced(f, w) == Exists(Filter(f), w[1], w[2])
FwZoned(a, f) == zone[<<ip[a], f>>] = Zone[a]

FwPends(s, f, w) ==
    \E k \in ToSet(s) :
        k.op \in {"unique", "insert"} /\ k.t = Filter(f) /\ k.c = w[1] /\ k.r = w[2]
FwZones(s, f) == \E k \in ToSet(s) : k.op = "add source" /\ k.f = f

\* In an ADD: what is not in place is still to be done, or an error is returned.
FwAdding(a, s) ==
    \/ [op |-> "abort"] \in ToSet(s)
    \/ /\ UsesFirewalld(a)
       /\ \A f \in FwFams[a] : FwZoned(a, f) \/ FwZones(s, f)
    \/ /\ ~UsesFirewalld(a)
       /\ \A f \in FwFams[a] : \A w \in FwWanted(a) : FwPlaced(f, w) \/ FwPends(s, f, w)

\* The rules that accept are of one address only.
LEMMA AcceptsFacts ==
  /\ \A i : \A r \in Accepts(i) : r.to = Shared("ACCEPT")
  /\ \A i, j \in IPs \cup {NoIP} : i # j => Accepts(i) \cap Accepts(j) = {}
  /\ JumpTo(Priv).to = Priv /\ Priv # Shared("ACCEPT") /\ Forward # Priv
  /\ \A a \in Att : JumpTo(Admin(a)).to = Admin(a) /\ Admin(a) # Shared("ACCEPT")
  /\ \A a \in Att : \A i : JumpTo(Priv) \notin Accepts(i) /\ JumpTo(Admin(a)) \notin Accepts(i)
<1>1. \A i : \A r \in Accepts(i) : r.to = Shared("ACCEPT")
  BY DEF Accepts, getPrivChainRules, Always
<1>2. ASSUME NEW i \in IPs \cup {NoIP}, NEW j \in IPs \cup {NoIP}, i # j
      PROVE  Accepts(i) \cap Accepts(j) = {}
  <2>1. \A x : /\ getPrivChainRules(x)[1].dst = x /\ getPrivChainRules(x)[1].from = "any"
               /\ getPrivChainRules(x)[2].dst = "any" /\ getPrivChainRules(x)[2].from = x
    BY DEF getPrivChainRules, Always
  <2>2. i # "any" /\ j # "any"
    BY IptAssumption
  <2> QED
    BY <1>2, <2>1, <2>2 DEF Accepts
<1>3. JumpTo(Priv).to = Priv /\ \A a : JumpTo(Admin(a)).to = Admin(a)
  BY DEF JumpTo, Always
<1>4. Priv # Shared("ACCEPT") /\ Forward # Priv
  BY DEF Priv, Shared, Forward
<1>5. \A a \in Att : Admin(a) # Shared("ACCEPT")
  BY FirewallAssumption DEF Admin, Shared, Targets
<1> QED
  BY <1>1, <1>2, <1>3, <1>4, <1>5


LEMMA TwoSeq ==
  ASSUME NEW x, NEW y
  PROVE  /\ IsSeq(<<x, y>>) /\ ToSet(<<x, y>>) = {x, y} /\ DOMAIN <<x, y>> = 1 .. 2
         /\ <<x, y>>[1] = x /\ <<x, y>>[2] = y
<1>1. /\ DOMAIN <<x, y>> = 1 .. 2 /\ Len(<<x, y>>) = 2
      /\ <<x, y>>[1] = x /\ <<x, y>>[2] = y
  OBVIOUS
<1>2. <<x, y>> = [i \in 1 .. 2 |-> <<x, y>>[i]]
  OBVIOUS
<1>3. IsSeq(<<x, y>>) /\ ToSet(<<x, y>>) = {<<x, y>>[i] : i \in 1 .. 2}
  BY <1>2, FunSeq
<1> QED
  BY <1>1, <1>3

\* A function on the two rules of an address.
LEMMA PairSeq ==
  ASSUME NEW i, NEW s, s = [n \in DOMAIN getPrivChainRules(i) |-> s[n]]
  PROVE  IsSeq(s) /\ DOMAIN s = 1 .. 2 /\ ToSet(s) = {s[1], s[2]}
<1>1. IsSeq(getPrivChainRules(i)) /\ DOMAIN getPrivChainRules(i) = 1 .. 2
  BY TwoSeq DEF getPrivChainRules
<1> HIDE DEF getPrivChainRules
<1>2. IsSeq(s) /\ DOMAIN s = 1 .. 2 /\ ToSet(s) = {s[n] : n \in 1 .. 2}
  BY <1>1, LikeSeq
<1> QED
  BY <1>2

LEMMA CleanupFacts ==
  ASSUME NEW a, NEW f \in FwFams[a]
  PROVE  /\ IsSeq(cleanupRules(f, ip[a]))
         /\ \A k \in ToSet(cleanupRules(f, ip[a])) : FwDeletes(a, k) /\ FwIptCall(a, k)
         /\ IsSeq(cleanupRules(f, ip[a]) \o Failed)
         /\ ToSet(cleanupRules(f, ip[a]) \o Failed)
               = ToSet(cleanupRules(f, ip[a])) \cup {[op |-> "abort"]}
         /\ cleanupRules(f, ip[a]) \o Failed # GoOn
<1> DEFINE rules == getPrivChainRules(ip[a])
           q == [n \in DOMAIN rules |-> Delete(Filter(f), Priv, rules[n])]
           s == cleanupRules(f, ip[a])
<1>1. s = [n \in DOMAIN q |-> [q[n] EXCEPT !.fail = GoOn]]
  BY DEF cleanupRules, OnError
<1>2. q = [n \in DOMAIN getPrivChainRules(ip[a]) |-> q[n]]
  OBVIOUS
<1> HIDE DEF q
<1>3. IsSeq(q) /\ DOMAIN q = 1 .. 2 /\ DOMAIN q = DOMAIN rules
  BY <1>2, PairSeq
<1>4. s = [n \in DOMAIN getPrivChainRules(ip[a]) |-> s[n]]
  BY <1>1, <1>3
<1> HIDE DEF s
<1>5. IsSeq(s) /\ ToSet(s) = {s[1], s[2]}
  BY <1>4, PairSeq
<1>6. ASSUME NEW n \in 1 .. 2
      PROVE  FwDeletes(a, s[n]) /\ FwIptCall(a, s[n])
  <2>1. s[n] = [Delete(Filter(f), Priv, rules[n]) EXCEPT !.fail = GoOn]
    BY <1>1, <1>3 DEF q
  <2>2. rules[n] \in Accepts(ip[a])
    BY DEF Accepts
  <2> HIDE DEF rules
  <2>3. /\ s[n].op = "delete" /\ s[n].t = Filter(f) /\ s[n].c = Priv
        /\ s[n].r = rules[n] /\ s[n].fail = GoOn /\ IptFields(s[n])
    BY <2>1 DEF Delete, IptCall, IptFields
  <2> QED
    BY <2>2, <2>3 DEF FwIptCall, FwDeletes
<1>7. \A k \in ToSet(s) : FwDeletes(a, k) /\ FwIptCall(a, k)
  BY <1>5, <1>6
<1>8. IsSeq(Failed) /\ ToSet(Failed) = {[op |-> "abort"]}
  BY OneSeq DEF Failed
<1>9. IsSeq(s \o Failed) /\ ToSet(s \o Failed) = ToSet(s) \cup {[op |-> "abort"]}
  BY <1>5, <1>8, ConcatSeq
<1>10. s \o Failed # GoOn
  <2>1. ToSet(GoOn) = {[op |-> "go on"]} /\ [op |-> "go on"].op = "go on" /\ [op |-> "abort"].op = "abort"
    BY OneSeq DEF GoOn
  <2> QED
    BY <1>9, <2>1
<1> QED
  BY <1>5, <1>7, <1>9, <1>10 DEF s

\* The calls that an ADD begins with, for one family.
FwFamily(a, f, s) ==
    /\ IsSeq(s)
    /\ \A k \in ToSet(s) : /\ FwIptCall(a, k) /\ k.op \in {"ensure", "unique"}
    /\ \A w \in FwWanted(a) : \E k \in ToSet(s) :
          k.op = "unique" /\ k.t = Filter(f) /\ k.c = w[1] /\ k.r = w[2]

LEMMA AddRulesFacts ==
  ASSUME NEW a \in Att, NEW f \in FwFams[a]
  PROVE  FwFamily(a, f, addRules(a, f))
<1> DEFINE rules == getPrivChainRules(ip[a])
           q == [n \in DOMAIN rules |-> Unique(Filter(f), Priv, rules[n], FALSE)]
           fail == cleanupRules(f, ip[a]) \o Failed
           t == OnError(q, fail)
           s == setupChains(a, f)
<1>1. addRules(a, f) = s \o t
  BY DEF addRules
<1>2. t = [n \in DOMAIN q |-> [q[n] EXCEPT !.fail = fail]]
  BY DEF OnError
<1>3. q = [n \in DOMAIN getPrivChainRules(ip[a]) |-> q[n]]
  OBVIOUS
<1> HIDE DEF q
<1>4. IsSeq(q) /\ DOMAIN q = 1 .. 2 /\ DOMAIN q = DOMAIN rules
  BY <1>3, PairSeq
<1>5. t = [n \in DOMAIN getPrivChainRules(ip[a]) |-> t[n]]
  BY <1>2, <1>4
<1> HIDE DEF t
<1>6. IsSeq(t) /\ ToSet(t) = {t[1], t[2]}
  BY <1>5, PairSeq
<1>7. ASSUME NEW n \in 1 .. 2
      PROVE  /\ FwIptCall(a, t[n]) /\ t[n].op = "unique" /\ t[n].t = Filter(f)
             /\ t[n].c = Priv /\ t[n].r = rules[n]
  <2>1. t[n] = [Unique(Filter(f), Priv, rules[n], FALSE) EXCEPT !.fail = fail]
    BY <1>2, <1>4 DEF q
  <2>2. rules[n] \in Accepts(ip[a])
    BY DEF Accepts
  <2> HIDE DEF rules
  <2>3. /\ t[n].op = "unique" /\ t[n].t = Filter(f) /\ t[n].c = Priv
        /\ t[n].r = rules[n] /\ t[n].fail = fail /\ IptFields(t[n])
        /\ ~t[n].first
    BY <2>1 DEF Unique, IptCall, IptFields
  <2>4. <<Priv, rules[n]>> \in FwWanted(a)
    BY <2>2 DEF FwWanted
  <2> QED
    BY <2>2, <2>3, <2>4 DEF FwIptCall, FwAdds
<1> DEFINE w == Ensure(Filter(f), Priv)
           x == Ensure(Filter(f), Admin(a))
           y == Unique(Filter(f), Forward, JumpTo(Priv), TRUE)
           z == Unique(Filter(f), Priv, JumpTo(Admin(a)), TRUE)
<1>8. IsSeq(s) /\ ToSet(s) = {w, x, y, z}
  BY FourSeq DEF setupChains
<1>9. FwIptCall(a, w) /\ w.op = "ensure" /\ FwIptCall(a, x) /\ x.op = "ensure"
  <2>1. \A c : LET k == Ensure(Filter(f), c) IN
               IptFields(k) /\ k.t = Filter(f) /\ k.op = "ensure" /\ k.fail = Failed
    BY DEF Ensure, IptCall, IptFields
  <2> QED
    BY <2>1 DEF FwIptCall
<1>10. /\ FwIptCall(a, y) /\ y.op = "unique" /\ y.t = Filter(f) /\ y.c = Forward /\ y.r = JumpTo(Priv)
       /\ FwIptCall(a, z) /\ z.op = "unique" /\ z.t = Filter(f) /\ z.c = Priv /\ z.r = JumpTo(Admin(a))
  <2>1. /\ IptFields(y) /\ y.t = Filter(f) /\ y.op = "unique" /\ y.fail = Failed
        /\ y.c = Forward /\ y.r = JumpTo(Priv) /\ y.first
    BY DEF Unique, IptCall, IptFields
  <2>4. /\ IptFields(z) /\ z.t = Filter(f) /\ z.op = "unique" /\ z.fail = Failed
        /\ z.c = Priv /\ z.r = JumpTo(Admin(a)) /\ z.first
    BY DEF Unique, IptCall, IptFields
  <2>2. <<Forward, JumpTo(Priv)>> \in FwWanted(a) /\ <<Priv, JumpTo(Admin(a))>> \in FwWanted(a)
    BY DEF FwWanted
  <2>3. JumpTo(Priv) \notin Accepts(ip[a]) /\ JumpTo(Admin(a)) \notin Accepts(ip[a])
    BY AcceptsFacts
  <2> HIDE DEF y, z
  <2>5. FwAdds(a, y) /\ FwAdds(a, z)
    BY <2>1, <2>2, <2>3, <2>4 DEF FwAdds
  <2> QED
    BY <2>1, <2>4, <2>5 DEF FwIptCall
<1> HIDE DEF s, w, x, y, z
<1>11. IsSeq(s \o t) /\ ToSet(s \o t) = {w, x, y, z} \cup {t[1], t[2]}
  BY <1>6, <1>8, ConcatSeq
<1>12. \A v \in FwWanted(a) :
          \/ v[1] = Forward /\ v[2] = JumpTo(Priv)
          \/ v[1] = Priv /\ v[2] = JumpTo(Admin(a))
          \/ v[1] = Priv /\ v[2] = rules[1]
          \/ v[1] = Priv /\ v[2] = rules[2]
  BY DEF FwWanted, Accepts
<1> QED
  BY <1>1, <1>7, <1>9, <1>10, <1>11, <1>12 DEF FwFamily

LEMMA OrderFacts ==
  ASSUME NEW fams, NEW order \in Orders(fams)
  PROVE  IsSeq(order) /\ ToSet(order) = fams /\ \A n \in DOMAIN order : order[n] \in fams
<1>1. ToSet(order) = fams
  BY DEF Orders
<1>2. IsSeq(order)
  BY NoSeq, OneSeq, TwoSeq DEF Orders
<1> QED
  BY <1>1, <1>2 DEF ToSet

\* One part for each family, in some order.
LEMMA FamiliesFacts ==
  ASSUME NEW fams, NEW order \in Orders(fams), NEW q, q = [n \in DOMAIN order |-> q[n]],
         \A n \in DOMAIN order : IsSeq(q[n])
  PROVE  /\ IsSeq(FlattenSeq(q))
         /\ \A x : x \in ToSet(FlattenSeq(q)) <=> \E n \in DOMAIN order : x \in ToSet(q[n])
         /\ \A f \in fams : \E n \in DOMAIN order : order[n] = f
<1>1. IsSeq(order) /\ ToSet(order) = fams
  BY OrderFacts
<1>2. IsSeq(q) /\ DOMAIN q = DOMAIN order
  BY <1>1, LikeSeq
<1>3. \A f \in fams : \E n \in DOMAIN order : order[n] = f
  BY <1>1 DEF ToSet
<1> QED
  BY <1>2, <1>3, FlattenFacts

\* The calls of firewalld.
LEMMA SourcesFacts ==
  ASSUME NEW a, NEW op, NEW fams, Sources(a, op, fams)
  PROVE  \E s : /\ Do(a, s) /\ IsSeq(s)
                /\ \A k \in ToSet(s) : k.op = op /\ k.f \in fams
                /\ \A f \in fams : \E k \in ToSet(s) : k.op = op /\ k.f = f
<1>1. PICK order \in Orders(fams) : Do(a, [n \in DOMAIN order |-> [op |-> op, f |-> order[n]]])
  BY DEF Sources
<1> DEFINE s == [n \in DOMAIN order |-> [op |-> op, f |-> order[n]]]
<1>2. Do(a, s)
  BY <1>1
<1>3. IsSeq(order) /\ \A n \in DOMAIN order : order[n] \in fams
  BY OrderFacts
<1>4. \A f \in fams : \E n \in DOMAIN order : order[n] = f
  BY OrderFacts DEF ToSet
<1>5. s = [n \in DOMAIN order |-> s[n]] /\ \A n \in DOMAIN order : s[n].op = op /\ s[n].f = order[n]
  OBVIOUS
<1> HIDE DEF s
<1>6. IsSeq(s) /\ ToSet(s) = {s[n] : n \in DOMAIN order}
  BY <1>3, <1>5, LikeSeq
<1> QED
  BY <1>2, <1>3, <1>4, <1>5, <1>6


\* Any other step leaves the types of the calls.
LEMMA FwTypesSame ==
  ASSUME NEW a, ip'[a] = ip[a], firewalld' = firewalld, NEW cmd, NEW s
  PROVE  /\ FwTypes(a, cmd, s)' <=> FwTypes(a, cmd, s)
         /\ FwWanted(a)' = FwWanted(a)
         /\ UsesFirewalld(a)' <=> UsesFirewalld(a)
<1>1. FwWanted(a)' = FwWanted(a)
  BY DEF FwWanted
<1>2. UsesFirewalld(a)' <=> UsesFirewalld(a)
  BY DEF UsesFirewalld
<1>3. \A k : FwAdds(a, k)' <=> FwAdds(a, k)
  BY <1>1 DEF FwAdds
<1>4. \A k : FwDeletes(a, k)' <=> FwDeletes(a, k)
  BY DEF FwDeletes
<1>5. \A k : FwCall(a, k)' <=> FwCall(a, k)
  BY <1>3, <1>4 DEF FwCall, FwIptCall
<1> QED
  BY <1>1, <1>2, <1>5 DEF FwTypes

\* The operation of a call.
LEMMA FwOps ==
  ASSUME NEW a, NEW k
  PROVE  /\ FwIptCall(a, k) => k.op \in {"ensure", "unique", "insert", "delete"}
         /\ FwAdds(a, k) => k.op \in {"unique", "insert"}
         /\ FwDeletes(a, k) => k.op = "delete"
BY DEF FwIptCall, FwAdds, FwDeletes

\* The calls of firewalld, and the look for the rules, are of their type.
LEMMA SourceTypes ==
  ASSUME NEW a, NEW op, op \in {"add source", "remove source", "query source", "look"},
         NEW fams, fams \subseteq FwFams[a], NEW s, \A k \in ToSet(s) : k.op = op /\ k.f \in fams
  PROVE  \A k \in ToSet(s) : FwCall(a, k)
BY DEF FwCall

\* The calls that a command starts with.
LEMMA FwStarts ==
  ASSUME NEW a \in Att, FirewallStart(a)
  PROVE  \E s : /\ Do(a, s) /\ FwTypes(a, proc[a].cmd, s)
                /\ proc[a].cmd = "add" => FwAdding(a, s)
<1>1. CASE UsesFirewalld(a) /\ FirewalldAdd(a)
  <2>1. PICK s :
                   /\ Do(a, s) /\ IsSeq(s)
                   /\ \A k \in ToSet(s) : k.op = "add source" /\ k.f \in FwFams[a]
                   /\ \A f \in FwFams[a] : \E k \in ToSet(s) : k.op = "add source" /\ k.f = f
    <3>1. PICK op : op = "add source"
      OBVIOUS
    <3>2. Sources(a, op, FwFams[a])
      BY <3>1, <1>1 DEF FirewalldAdd
    <3>3. \E s : /\ Do(a, s) /\ IsSeq(s)
                 /\ \A k \in ToSet(s) : k.op = op /\ k.f \in FwFams[a]
                 /\ \A f \in FwFams[a] : \E k \in ToSet(s) : k.op = op /\ k.f = f
      BY <3>2, SourcesFacts
    <3> QED
      BY <3>1, <3>3
  <2>2. FwTypes(a, proc[a].cmd, s)
    <3>1. \A k \in ToSet(s) : FwCall(a, k) /\ k.op = "add source"
      BY <2>1, SourceTypes
    <3> QED
      BY <1>1, <2>1, <3>1 DEF FirewalldAdd, FwTypes
  <2>3. FwAdding(a, s)
    BY <1>1, <2>1 DEF FwAdding, FwZones
  <2> QED
    BY <2>1, <2>2, <2>3
<1>2. CASE FirewalldDel(a)
  <2> DEFINE fams == IF cache[a] THEN FwFams[a] ELSE {}
  <2>1. Sources(a, "remove source", fams) /\ proc[a].cmd = "del" /\ fams \subseteq FwFams[a]
    BY <1>2 DEF FirewalldDel
  <2> HIDE DEF fams
  <2>2. PICK s :
                   /\ Do(a, s) /\ IsSeq(s)
                   /\ \A k \in ToSet(s) : k.op = "remove source" /\ k.f \in fams
                   /\ \A f \in fams : \E k \in ToSet(s) : k.op = "remove source" /\ k.f = f
    <3>1. PICK op : op = "remove source"
      OBVIOUS
    <3>2. Sources(a, op, fams)
      BY <3>1, <2>1
    <3>3. \E s : /\ Do(a, s) /\ IsSeq(s)
                 /\ \A k \in ToSet(s) : k.op = op /\ k.f \in fams
                 /\ \A f \in fams : \E k \in ToSet(s) : k.op = op /\ k.f = f
      BY <3>2, SourcesFacts
    <3> QED
      BY <3>1, <3>3
  <2>3. FwTypes(a, proc[a].cmd, s)
    <3>1. \A k \in ToSet(s) : FwCall(a, k) /\ k.op = "remove source"
      BY <2>1, <2>2, SourceTypes
    <3> QED
      BY <2>1, <2>2, <3>1 DEF FwTypes
  <2> QED
    BY <2>1, <2>2, <2>3
<1>3. CASE FirewalldCheck(a)
  <2>1. PICK s :
                   /\ Do(a, s) /\ IsSeq(s)
                   /\ \A k \in ToSet(s) : k.op = "query source" /\ k.f \in FwFams[a]
                   /\ \A f \in FwFams[a] : \E k \in ToSet(s) : k.op = "query source" /\ k.f = f
    <3>1. PICK op : op = "query source"
      OBVIOUS
    <3>2. Sources(a, op, FwFams[a])
      BY <3>1, <1>3 DEF FirewalldCheck
    <3>3. \E s : /\ Do(a, s) /\ IsSeq(s)
                 /\ \A k \in ToSet(s) : k.op = op /\ k.f \in FwFams[a]
                 /\ \A f \in FwFams[a] : \E k \in ToSet(s) : k.op = op /\ k.f = f
      BY <3>2, SourcesFacts
    <3> QED
      BY <3>1, <3>3
  <2>2. FwTypes(a, proc[a].cmd, s)
    <3>1. \A k \in ToSet(s) : FwCall(a, k) /\ k.op = "query source"
      BY <2>1, SourceTypes
    <3> QED
      BY <2>1, <3>1 DEF FwTypes
  <2> QED
    BY <1>3, <2>1, <2>2 DEF FirewalldCheck
<1>4. CASE ~UsesFirewalld(a) /\ IptablesAdd(a)
  <2>1. PICK order \in Orders(FwFams[a]) : Do(a, FlattenSeq([n \in DOMAIN order |-> addRules(a, order[n])]))
    BY <1>4 DEF IptablesAdd
  <2> DEFINE q == [n \in DOMAIN order |-> addRules(a, order[n])]
             s == FlattenSeq(q)
  <2>2. \A n \in DOMAIN order : FwFamily(a, order[n], q[n])
    BY OrderFacts, AddRulesFacts
  <2>3. q = [n \in DOMAIN order |-> q[n]] /\ Do(a, s)
    BY <2>1
  <2> HIDE DEF q
  <2>4. /\ IsSeq(s) /\ \A x : x \in ToSet(s) <=> \E n \in DOMAIN order : x \in ToSet(q[n])
        /\ \A f \in FwFams[a] : \E n \in DOMAIN order : order[n] = f
    BY <2>2, <2>3, FamiliesFacts DEF FwFamily
  <2> HIDE DEF s
  <2>5. FwTypes(a, proc[a].cmd, s)
    BY <1>4, <2>2, <2>4, FwOps DEF FwTypes, FwFamily, FwCall, IptablesAdd
  <2>6. \A f \in FwFams[a] : \A w \in FwWanted(a) : FwPends(s, f, w)
    BY <2>2, <2>4 DEF FwFamily, FwPends
  <2> QED
    BY <1>4, <2>3, <2>5, <2>6 DEF FwAdding
<1>5. CASE IptablesDel(a)
  <2> DEFINE fams == IF cache[a] THEN FwFams[a] ELSE {}
  <2>1. PICK order \in Orders(fams) :
           Do(a, FlattenSeq([n \in DOMAIN order |-> cleanupRules(order[n], ip[a])]))
    BY <1>5 DEF IptablesDel
  <2>2. fams \subseteq FwFams[a]
    OBVIOUS
  <2> HIDE DEF fams
  <2> DEFINE q == [n \in DOMAIN order |-> cleanupRules(order[n], ip[a])]
             s == FlattenSeq(q)
  <2>3. \A n \in DOMAIN order :
           IsSeq(q[n]) /\ \A k \in ToSet(q[n]) : FwDeletes(a, k) /\ FwIptCall(a, k)
    BY <2>2, OrderFacts, CleanupFacts
  <2>4. q = [n \in DOMAIN order |-> q[n]] /\ Do(a, s)
    BY <2>1
  <2> HIDE DEF q
  <2>5. IsSeq(s) /\ \A x : x \in ToSet(s) <=> \E n \in DOMAIN order : x \in ToSet(q[n])
    BY <2>3, <2>4, FamiliesFacts
  <2> HIDE DEF s
  <2>6. FwTypes(a, proc[a].cmd, s) /\ proc[a].cmd = "del"
    BY <1>5, <2>3, <2>5, FwOps DEF FwTypes, FwCall, IptablesDel
  <2> QED
    BY <2>4, <2>6
<1>6. CASE IptablesCheck(a)
  <2> DEFINE part(f) == <<Ensure(Filter(f), Priv), Ensure(Filter(f), Admin(a)), [op |-> "look", f |-> f]>>
  <2>1. PICK order \in Orders(FwFams[a]) : Do(a, FlattenSeq([n \in DOMAIN order |-> part(order[n])]))
    BY <1>6 DEF IptablesCheck
  <2> DEFINE q == [n \in DOMAIN order |-> part(order[n])]
             s == FlattenSeq(q)
  <2>2. \A f \in FwFams[a] : /\ IsSeq(part(f))
                             /\ \A k \in ToSet(part(f)) :
                                   FwCall(a, k) /\ k.op \in {"ensure", "look"}
    <3>1. \A f \in FwFams[a] : \A c : LET k == Ensure(Filter(f), c) IN FwCall(a, k) /\ k.op = "ensure"
      BY DEF Ensure, IptCall, IptFields, FwCall, FwIptCall
    <3>2. \A f \in FwFams[a] : LET k == [op |-> "look", f |-> f] IN FwCall(a, k) /\ k.op = "look"
      BY DEF FwCall
    <3> QED
      BY <3>1, <3>2, ThreeSeq
  <2>3. q = [n \in DOMAIN order |-> q[n]] /\ Do(a, s) /\ \A n \in DOMAIN order : q[n] = part(order[n])
    BY <2>1
  <2> HIDE DEF q, part
  <2>4. IsSeq(s) /\ \A x : x \in ToSet(s) <=> \E n \in DOMAIN order : x \in ToSet(q[n])
    BY <2>2, <2>3, OrderFacts, FamiliesFacts
  <2> HIDE DEF s
  <2>5. \A k \in ToSet(s) : FwCall(a, k) /\ k.op \in {"ensure", "look"}
    BY <2>2, <2>3, <2>4, OrderFacts
  <2>6. FwTypes(a, proc[a].cmd, s) /\ proc[a].cmd = "check"
    BY <1>6, <2>4, <2>5 DEF FwTypes, IptablesCheck
  <2> QED
    BY <2>3, <2>6
<1> QED
  BY <1>1, <1>2, <1>3, <1>4, <1>5, <1>6 DEF FirewallStart


\* A call that makes a rule that is wanted.
FwMakes(k, f, w) ==
    k.op \in {"unique", "insert"} /\ k.t = Filter(f) /\ k.c = w[1] /\ k.r = w[2]

\* What is left when the first call is over.
LEMMA FwRest ==
  ASSUME NEW a, NEW cmd, NEW s, FwTypes(a, cmd, s), s # <<>>, Head(s).op # "abort"
  PROVE  /\ FwTypes(a, cmd, Tail(s)) /\ IsSeq(Tail(s)) /\ ToSet(s) = {Head(s)} \cup ToSet(Tail(s))
         /\ [op |-> "abort"] \in ToSet(s) => [op |-> "abort"] \in ToSet(Tail(s))
         /\ \A f : FwZones(s, f) =>
               FwZones(Tail(s), f) \/ (Head(s).op = "add source" /\ Head(s).f = f)
         /\ \A f, w : FwPends(s, f, w) =>
               FwPends(Tail(s), f, w) \/ FwMakes(Head(s), f, w)
<1>1. IsSeq(Tail(s)) /\ ToSet(s) = {Head(s)} \cup ToSet(Tail(s))
  BY TailSeq DEF FwTypes
<1>2. [op |-> "abort"] \in ToSet(s) => [op |-> "abort"] \in ToSet(Tail(s))
  BY <1>1
<1>3. FwTypes(a, cmd, Tail(s))
  BY <1>1, <1>2 DEF FwTypes
<1>4. \A f : FwZones(s, f) =>
               FwZones(Tail(s), f) \/ (Head(s).op = "add source" /\ Head(s).f = f)
  BY <1>1 DEF FwZones
<1>5. \A f, w : FwPends(s, f, w) =>
               FwPends(Tail(s), f, w) \/ FwMakes(Head(s), f, w)
  BY <1>1 DEF FwPends, FwMakes
<1> QED
  BY <1>1, <1>2, <1>3, <1>4, <1>5

\* A command of a that goes on with the calls s, and is in order.
FwGoes(a, s) ==
    /\ FwTypes(a, proc[a].cmd, s)
    /\ proc[a].cmd = "add" => FwAdding(a, s)

FwRun(a) == FwGoes(a, proc[a].todo)

FwDone(a) ==
    IF UsesFirewalld(a) THEN \A f \in FwFams[a] : FwZoned(a, f)
    ELSE \A f \in FwFams[a] : \A w \in FwWanted(a) : FwPlaced(f, w)

FwOK(a) ==
    /\ Done(a, "firewall") => FwDone(a)
    /\ Running(a, "firewall") => proc[a].todo = Start \/ FwRun(a)

FwInv ==
    /\ zone = [s \in IPs \X {4, 6} |-> zone[s]]
    /\ \A a \in Att : FwOK(a)

\* What a call of the plugin leaves in the tables.
FwKeeps(a) ==
    /\ \A u \in Tables : \A c, r : Exists(u, c, r) => Exists(u, c, r)' \/ r \in Accepts(ip[a])
    /\ \A u \in Tables : \A c, r :
          Exists(u, c, r) /\ ~Exists(u, c, r)' =>
              \/ proc[a].cmd = "del"
              \/ proc[a].cmd = "add" /\ [op |-> "abort"] \in ToSet(proc[a].todo)

LEMMA FwIptStep ==
  ASSUME ChainInv, TablesOK, NEW a \in Att, IptStep(a, "firewall"), UNCHANGED firewallVars,
         FwRun(a)
  PROVE  /\ TablesOK' /\ FwKeeps(a)
         /\ Running(a, "firewall")' => FwRun(a)'
<1>0. PICK k, todo, cmd : k = Call(a) /\ todo = proc[a].todo /\ cmd = proc[a].cmd
  OBVIOUS
<1>1. todo # <<>> /\ Running(a, "firewall")
      /\ k.op \in {"ensure", "unique", "insert", "clear", "list", "delete", "delchain", "abort"}
  BY <1>0, IptOps
<1>2. FwTypes(a, cmd, todo) /\ IsSeq(todo)
  BY <1>0 DEF FwRun, FwGoes, FwTypes
<1>3. k \in ToSet(todo) /\ k = Head(todo) /\ Rest(a) = Tail(todo)
  BY <1>0, <1>1, <1>2, CallOps DEF Call, Rest
<1>4. FwIptCall(a, k) \/ k.op = "abort"
  BY <1>1, <1>2, <1>3 DEF FwTypes, FwCall
<1>5. k.op \in {"ensure", "unique", "insert", "delete", "abort"} /\ (k.op # "abort" => k.t \in Tables)
  <2>1. \A f \in FwFams[a] : Filter(f) \in Tables
    BY FirewallAssumption, IptAssumption DEF Filter
  <2> QED
    BY <1>4, <2>1, FwOps DEF FwIptCall
<1>6. /\ TablesOK'
      /\ \/ ~Running(a, "firewall")' /\ tables' = tables
         \/ proc'[a].cmd = cmd /\ k.op # "abort" /\ Goes(a, k)
  BY <1>0, <1>5, IptOutcome
<1>7. ip'[a] = ip[a] /\ firewalld' = firewalld /\ zone' = zone
  BY IptSteps DEF Steps, firewallVars
<1>8. /\ \A c, s : FwTypes(a, c, s)' <=> FwTypes(a, c, s)
      /\ FwWanted(a)' = FwWanted(a)
      /\ UsesFirewalld(a)' <=> UsesFirewalld(a)
  BY <1>7, FwTypesSame
<1>9. CASE ~Running(a, "firewall")' /\ tables' = tables
  BY <1>6, <1>9, ChainsSame DEF FwKeeps, Exists, RulesIn, ChainExists
<1>10. CASE proc'[a].cmd = cmd /\ k.op # "abort" /\ Goes(a, k)
  <2>1. FwIptCall(a, k) /\ k.t \in Tables /\ (Effect(k) \/ tables' = tables)
    BY <1>4, <1>5, <1>10 DEF Goes
  <2>2. \A u \in Tables : \A c, r :
            /\ Exists(u, c, r) => Exists(u, c, r)' \/ Removes(k, u, c, r)
    BY <1>5, <1>6, <1>10, <2>1, EffectFacts
  <2>3. \A u, c, r : Removes(k, u, c, r) => k.op = "delete" /\ r = k.r
    BY <1>5 DEF Removes
  <2>4. k.op = "delete" => /\ k.r \in Accepts(ip[a]) /\ k.fail = GoOn
                           /\ cmd = "del" \/ (cmd = "add" /\ [op |-> "abort"] \in ToSet(todo))
    BY <1>2, <1>3, <1>4, <1>10 DEF FwTypes, FwIptCall, FwAdds, FwDeletes
  <2>5. FwKeeps(a)
    BY <1>0, <2>2, <2>3, <2>4 DEF FwKeeps
  <2>6. /\ FwTypes(a, cmd, Rest(a)) /\ IsSeq(Rest(a)) /\ ToSet(todo) = {k} \cup ToSet(Rest(a))
        /\ [op |-> "abort"] \in ToSet(todo) => [op |-> "abort"] \in ToSet(Rest(a))
        /\ \A f : FwZones(todo, f) => FwZones(Rest(a), f)
        /\ \A f, w : FwPends(todo, f, w) => FwPends(Rest(a), f, w) \/ FwMakes(k, f, w)
    <3>1. todo # <<>> /\ Head(todo).op # "abort" /\ Head(todo).op # "add source"
      BY <1>1, <1>3, <1>5, <1>10
    <3> QED
      BY <1>2, <1>3, <3>1, FwRest
  <2>7. ASSUME NEW s, IsSeq(s), proc'[a].todo = s, FwTypes(a, cmd, s),
               cmd = "add" => \/ [op |-> "abort"] \in ToSet(s)
                              \/ /\ [op |-> "abort"] \notin ToSet(todo)
                                 /\ \A f : FwZones(todo, f) => FwZones(s, f)
                                 /\ \A f, w : FwPends(todo, f, w) => FwPends(s, f, w) \/ FwPlaced(f, w)'
        PROVE  FwRun(a)'
    <3>1. FwTypes(a, proc[a].cmd, proc[a].todo)'
      BY <1>0, <1>8, <1>10, <2>7
    <3>2. ASSUME cmd = "add", [op |-> "abort"] \notin ToSet(s) PROVE FwAdding(a, s)'
      <4>1. FwAdding(a, todo) /\ [op |-> "abort"] \notin ToSet(todo)
        BY <1>0, <2>7, <3>2 DEF FwRun, FwGoes
      <4>2. CASE UsesFirewalld(a)
        BY <1>7, <1>8, <2>7, <3>2, <4>1, <4>2 DEF FwAdding, FwZoned
      <4>3. CASE ~UsesFirewalld(a)
        <5>1. ASSUME NEW f \in FwFams[a], NEW w \in FwWanted(a), ~FwPends(s, f, w)
              PROVE  FwPlaced(f, w)'
          <6>1. FwPlaced(f, w) \/ FwPends(todo, f, w)
            BY <4>1, <4>3 DEF FwAdding
          <6>2. Filter(f) \in Tables
            BY FirewallAssumption, IptAssumption DEF Filter
          <6>3. FwPlaced(f, w) => FwPlaced(f, w)'
            BY <1>0, <2>5, <3>2, <4>1, <6>2 DEF FwKeeps, FwPlaced
          <6> QED
            BY <2>7, <3>2, <4>1, <5>1, <6>1, <6>3
        <5> QED
          BY <1>8, <4>3, <5>1 DEF FwAdding
      <4> QED
        BY <4>2, <4>3
    <3>3. ASSUME cmd = "add" PROVE FwAdding(a, proc[a].todo)'
      BY <2>7, <3>2, <3>3 DEF FwAdding
    <3> QED
      BY <1>0, <1>10, <3>1, <3>3 DEF FwRun, FwGoes
  <2>8. CASE Effect(k) /\ proc'[a].todo = Rest(a)
    <3>1. ASSUME NEW f, NEW w, FwMakes(k, f, w)
          PROVE  FwPlaced(f, w)'
      <4>1. CASE k.op = "unique"
        BY <2>8, <3>1, <4>1 DEF FwMakes, Effect, FwPlaced, Exists, RulesIn, ChainExists
      <4>2. CASE k.op = "insert"
        <5>1. IsSeq(RulesIn(k.t, k.c)) /\ RulesIn(k.t, k.c)' = IF k.first THEN <<k.r>> \o RulesIn(k.t, k.c)
                                  ELSE RulesIn(k.t, k.c) \o <<k.r>>
          BY <1>5, <2>8, <4>2, RulesSeq DEF Effect
        <5>2. IsSeq(RulesIn(k.t, k.c)') /\ k.r \in ToSet(RulesIn(k.t, k.c)')
          BY <5>1, OneSeq, ConcatSeq
        <5>3. Contains(RulesIn(k.t, k.c)', k.r)
          BY <5>2, HasSeq
        <5> QED
          BY <3>1, <5>3 DEF FwMakes, FwPlaced, Exists
      <4> QED
        BY <3>1, <4>1, <4>2 DEF FwMakes
    <3> QED
      BY <1>6, <1>10, <2>5, <2>6, <2>7, <2>8, <3>1
  <2>9. CASE k.op = "unique" /\ proc'[a].todo = <<Inserted(k)>> \o Rest(a)
    <3> DEFINE s == <<Inserted(k)>> \o Rest(a)
    <3>1. IsSeq(s) /\ ToSet(s) = {Inserted(k)} \cup ToSet(Rest(a))
      BY <2>6, OneSeq, ConcatSeq
    <3> HIDE DEF s
    <3>2. /\ Inserted(k).op = "insert"
          /\ Inserted(k).t = k.t /\ Inserted(k).c = k.c /\ Inserted(k).r = k.r
          /\ Inserted(k).fail = k.fail /\ (Inserted(k).first <=> k.first) /\ IptFields(Inserted(k))
      BY <1>4, <1>10, InsertedFacts DEF FwIptCall
    <3>3. FwAdds(a, k) /\ cmd = "add" /\ ~UsesFirewalld(a)
      BY <1>2, <1>3, <1>4, <1>10, <2>9 DEF FwTypes, FwIptCall, FwDeletes
    <3>4. FwAdds(a, Inserted(k))
      BY <3>2, <3>3 DEF FwAdds
    <3>5. FwCall(a, Inserted(k))
      BY <1>4, <1>10, <3>2, <3>4 DEF FwCall, FwIptCall
    <3>6. FwTypes(a, cmd, s)
      BY <2>6, <3>1, <3>2, <3>3, <3>5 DEF FwTypes
    <3>7. \A f, w : FwPends(todo, f, w) => FwPends(s, f, w)
      BY <2>6, <2>9, <3>1, <3>2 DEF FwPends, FwMakes
    <3>8. \A f : FwZones(todo, f) => FwZones(s, f)
      BY <2>6, <3>1 DEF FwZones
    <3> QED
      BY <1>6, <2>5, <2>6, <2>7, <2>9, <3>1, <3>6, <3>7, <3>8 DEF s
  <2>10. CASE k.fail # Failed /\ tables' = tables /\ proc'[a].todo = IF k.fail = GoOn THEN Rest(a) ELSE k.fail
    <3>1. CASE k.op = "delete"
      BY <1>6, <2>4, <2>5, <2>6, <2>7, <2>10, <3>1
    <3>2. CASE k.op \in {"unique", "insert"}
      <4>1. cmd = "add" /\ FwAdds(a, k)
        BY <1>2, <1>3, <1>4, <1>10, <3>2 DEF FwTypes, FwIptCall, FwDeletes
      <4>2. PICK f \in FwFams[a] : k.fail = cleanupRules(f, ip[a]) \o Failed
        BY <2>10, <4>1 DEF FwAdds
      <4> DEFINE s == cleanupRules(f, ip[a]) \o Failed
      <4>3. /\ s # GoOn /\ IsSeq(s) /\ [op |-> "abort"] \in ToSet(s)
            /\ \A x \in ToSet(s) : x = [op |-> "abort"] \/ (FwDeletes(a, x) /\ FwIptCall(a, x))
        BY CleanupFacts
      <4> HIDE DEF s
      <4>4. FwTypes(a, cmd, s)
        <5>1. \A x \in ToSet(s) : FwCall(a, x) /\ x.op \in {"abort", "delete"}
          <6>1. ASSUME NEW x, x = [op |-> "abort"] PROVE FwCall(a, x) /\ x.op = "abort"
            BY <6>1 DEF FwCall
          <6>2. ASSUME NEW x, FwDeletes(a, x), FwIptCall(a, x) PROVE FwCall(a, x) /\ x.op = "delete"
            BY <6>2, FwOps DEF FwCall
          <6> QED
            BY <4>3, <6>1, <6>2
        <5> QED
          BY <4>1, <4>3, <5>1 DEF FwTypes
      <4> QED
        BY <1>6, <2>5, <2>7, <2>10, <4>2, <4>3, <4>4 DEF s
    <3>3. CASE k.op = "ensure"
      BY <1>4, <1>10, <2>10, <3>3 DEF FwIptCall, FwAdds, FwDeletes
    <3> QED
      BY <1>5, <1>10, <3>1, <3>2, <3>3
  <2> QED
    BY <1>5, <1>6, <1>10, <2>5, <2>8, <2>9, <2>10 DEF Goes
<1> QED
  BY <1>6, <1>9, <1>10


\* The zones after a step of the process of a.
ZonesOf(a) ==
    /\ zone' = [s \in IPs \X {4, 6} |-> zone'[s]]
    /\ \A s \in IPs \X {4, 6} : s[1] # ip[a] => zone'[s] = zone[s]
    /\ proc[a].cmd = "check" => zone' = zone

LEMMA ZonesSame ==
  ASSUME NEW a, zone = [s \in IPs \X {4, 6} |-> zone[s]], zone' = zone
  PROVE  ZonesOf(a)
BY DEF ZonesOf

LEMMA ZoneSet ==
  ASSUME NEW a, zone = [s \in IPs \X {4, 6} |-> zone[s]], NEW f, NEW z, proc[a].cmd # "check",
         zone' = [zone EXCEPT ![<<ip[a], f>>] = z]
  PROVE  /\ ZonesOf(a)
         /\ ip[a] \in IPs /\ f \in {4, 6} => zone'[<<ip[a], f>>] = z
         /\ \A g \in {4, 6} : g # f /\ ip[a] \in IPs => zone'[<<ip[a], g>>] = zone[<<ip[a], g>>]
<1>1. DOMAIN zone = IPs \X {4, 6}
  OBVIOUS
<1>2. \A s \in IPs \X {4, 6} : s # <<ip[a], f>> => zone'[s] = zone[s]
  BY <1>1
<1>3. zone' = [s \in IPs \X {4, 6} |-> zone'[s]]
  BY <1>1
<1>4. \A s \in IPs \X {4, 6} : s[1] # ip[a] => s # <<ip[a], f>>
  OBVIOUS
<1>5. ip[a] \in IPs /\ f \in {4, 6} => zone'[<<ip[a], f>>] = z
  BY <1>1
<1>6. \A g \in {4, 6} : g # f /\ ip[a] \in IPs => zone'[<<ip[a], g>>] = zone[<<ip[a], g>>]
  <2>1. \A g \in {4, 6} : ip[a] \in IPs => <<ip[a], g>> \in IPs \X {4, 6}
    OBVIOUS
  <2>2. \A g \in {4, 6} : g # f => <<ip[a], g>> # <<ip[a], f>>
    OBVIOUS
  <2> QED
    BY <1>2, <2>1, <2>2
<1> QED
  BY <1>2, <1>3, <1>4, <1>5, <1>6 DEF ZonesOf

\* The other calls of the plugin: firewalld, and the look for the rules.
LEMMA FwOtherStep ==
  ASSUME ChainInv, NEW a \in Att, Running(a, "firewall"), zone = [s \in IPs \X {4, 6} |-> zone[s]],
         proc[a].todo = Start \/ FwRun(a),
         FirewallStart(a) \/ LookForRules(a) \/ FirewalldCall(a)
  PROVE  /\ tables' = tables /\ firewalld' = firewalld /\ ZonesOf(a)
         /\ Running(a, "firewall")' => FwRun(a)'
<1>0. PICK k, todo, cmd : k = Call(a) /\ todo = proc[a].todo /\ cmd = proc[a].cmd
  OBVIOUS
<1>1. /\ tables' = tables /\ firewalld' = firewalld /\ ip' = ip
  BY FirewallSteps DEF FirewallStart, LookForRules, FirewalldCall, firewallVars, Steps, FirewallStep
<1>2. /\ \A c, s : FwTypes(a, c, s)' <=> FwTypes(a, c, s)
      /\ FwWanted(a)' = FwWanted(a)
      /\ UsesFirewalld(a)' <=> UsesFirewalld(a)
  BY <1>1, FwTypesSame
<1>3. ~Error(a) \/ ~Running(a, "firewall")'
  BY ErrorFacts
<1>4. ASSUME NEW s, Do(a, s) \/ Fault(a, s), Running(a, "firewall")'
      PROVE  proc'[a].todo = s /\ proc'[a].cmd = cmd
  BY <1>0, <1>4, DoFacts, FaultFacts
<1>5. CASE FirewallStart(a)
  <2>1. zone' = zone
    BY <1>5 DEF FirewallStart, firewallVars
  <2>2. PICK s : Do(a, s) /\ FwTypes(a, cmd, s) /\ (cmd = "add" => FwAdding(a, s))
    BY <1>0, <1>5, FwStarts
  <2>3. Running(a, "firewall")' => proc'[a].todo = s /\ proc'[a].cmd = cmd
    BY <1>4, <2>2
  <2>4. FwAdding(a, s) => FwAdding(a, s)'
    BY <1>1, <1>2, <2>1 DEF FwAdding, FwZoned, FwPlaced, Exists, RulesIn, ChainExists
  <2>5. Running(a, "firewall")' => FwRun(a)'
    BY <1>2, <2>2, <2>3, <2>4 DEF FwRun, FwGoes
  <2> QED
    BY <1>1, <2>1, <2>5, ZonesSame
<1>6. CASE LookForRules(a) \/ FirewalldCall(a)
  <2>1. /\ todo # <<>> /\ k.op \in {"look", "add source", "remove source", "query source"}
        /\ Head(todo) = k /\ Rest(a) = Tail(todo)
    BY <1>0, <1>6 DEF LookForRules, FirewalldCall, addSource, removeSource, querySource, At, Call, Rest
  <2>2. FwRun(a)
    BY <1>0, <2>1, CallOps
  <2>3. FwTypes(a, cmd, todo) /\ IsSeq(todo) /\ (cmd = "add" => FwAdding(a, todo))
    BY <1>0, <2>2 DEF FwRun, FwGoes, FwTypes
  <2>4. k \in ToSet(todo)
    BY <2>1, <2>3, TailSeq
  <2>5. /\ k.f \in FwFams[a] /\ k.f \in {4, 6}
        /\ k.op = "add source" => cmd = "add" /\ UsesFirewalld(a)
        /\ k.op = "remove source" => cmd = "del"
    <3>1. k.f \in FwFams[a]
      BY <2>1, <2>3, <2>4, FwOps DEF FwTypes, FwCall
    <3> QED
      BY <2>3, <2>4, <3>1, FirewallAssumption DEF FwTypes
  <2>6. /\ FwTypes(a, cmd, Rest(a)) /\ IsSeq(Rest(a)) /\ ToSet(todo) = {k} \cup ToSet(Rest(a))
        /\ [op |-> "abort"] \in ToSet(todo) => [op |-> "abort"] \in ToSet(Rest(a))
        /\ \A f : FwZones(todo, f) => FwZones(Rest(a), f) \/ (k.op = "add source" /\ k.f = f)
        /\ \A f, w : FwPends(todo, f, w) => FwPends(Rest(a), f, w)
    <3>1. todo # <<>> /\ Head(todo).op # "abort" /\ \A f, w : ~FwMakes(k, f, w)
      BY <2>1 DEF FwMakes
    <3>2. \A f : FwZones(todo, f) => FwZones(Rest(a), f) \/ (k.op = "add source" /\ k.f = f)
      BY <2>1, <2>3, <3>1, FwRest
    <3> QED
      BY <2>1, <2>3, <3>1, <3>2, FwRest
  <2>7. PICK rest : rest = Rest(a)
    OBVIOUS
  <2>8. ASSUME Do(a, rest) \/ Fault(a, rest), Running(a, "firewall")',
               cmd = "add" => \A f \in FwFams[a] : FwZoned(a, f) => FwZoned(a, f)',
               k.op = "add source" => FwZoned(a, k.f)'
        PROVE  FwRun(a)'
    <3>1. proc'[a].todo = rest /\ proc'[a].cmd = cmd
      BY <1>4, <2>8
    <3>2. ASSUME cmd = "add" PROVE FwAdding(a, rest)'
      <4>1. CASE [op |-> "abort"] \in ToSet(todo)
        BY <2>6, <2>7, <4>1 DEF FwAdding
      <4>2. CASE UsesFirewalld(a) /\ [op |-> "abort"] \notin ToSet(todo)
        <5>1. \A f \in FwFams[a] : FwZoned(a, f) \/ FwZones(todo, f)
          BY <2>3, <3>2, <4>2 DEF FwAdding
        <5>2. \A f \in FwFams[a] : FwZoned(a, f)' \/ FwZones(rest, f)
          BY <2>6, <2>7, <2>8, <3>2, <5>1
        <5> QED
          BY <1>2, <4>2, <5>2 DEF FwAdding
      <4>3. CASE ~UsesFirewalld(a) /\ [op |-> "abort"] \notin ToSet(todo)
        <5>1. \A f \in FwFams[a] : \A w \in FwWanted(a) : FwPlaced(f, w) \/ FwPends(todo, f, w)
          BY <2>3, <3>2, <4>3 DEF FwAdding
        <5>2. \A f, w : FwPlaced(f, w) => FwPlaced(f, w)'
          BY <1>1 DEF FwPlaced, Exists, RulesIn, ChainExists
        <5>3. \A f \in FwFams[a] : \A w \in FwWanted(a) : FwPlaced(f, w)' \/ FwPends(rest, f, w)
          BY <2>6, <2>7, <5>1, <5>2
        <5> QED
          BY <1>2, <4>3, <5>3 DEF FwAdding
      <4> QED
        BY <4>1, <4>2, <4>3
    <3> QED
      BY <1>2, <2>6, <2>7, <3>1, <3>2 DEF FwRun, FwGoes
  <2>9. ASSUME zone' = zone PROVE \A f : FwZoned(a, f) => FwZoned(a, f)'
    BY <1>1, <2>9 DEF FwZoned
  <2>10. CASE LookForRules(a)
    <3>1. zone' = zone /\ k.op = "look"
      BY <1>0, <2>10 DEF LookForRules, firewallVars, At, Call
    <3>2. Running(a, "firewall")' => Do(a, rest)
      BY <1>3, <2>7, <2>10 DEF LookForRules
    <3> QED
      BY <1>1, <2>8, <2>9, <3>1, <3>2, ZonesSame
  <2>11. CASE addSource(a)
    <3>1. k.op = "add source" /\ cmd = "add"
      BY <1>0, <2>5, <2>11 DEF addSource, At, Call
    <3>2. CASE zone' = [zone EXCEPT ![Source(a)] = Zone[a]] /\ Do(a, Rest(a))
      <4>1. zone' = [zone EXCEPT ![<<ip[a], k.f>>] = Zone[a]]
        BY <1>0, <3>2 DEF Source
      <4>2. ip[a] \in IPs
        BY <1>0, <3>1 DEF ChainInv, IpOK
      <4>3. /\ ZonesOf(a) /\ zone'[<<ip[a], k.f>>] = Zone[a]
            /\ \A g \in {4, 6} : g # k.f => zone'[<<ip[a], g>>] = zone[<<ip[a], g>>]
        BY <1>0, <2>5, <3>1, <4>1, <4>2, ZoneSet
      <4>4. FwZoned(a, k.f)'
        BY <1>1, <4>3 DEF FwZoned
      <4>5. \A f \in FwFams[a] : FwZoned(a, f) => FwZoned(a, f)'
        BY <1>1, <4>3, <4>4, FirewallAssumption DEF FwZoned
      <4> QED
        BY <1>1, <2>7, <2>8, <3>2, <4>3, <4>4, <4>5
    <3>3. CASE (Error(a) \/ Fault(a, Failed)) /\ zone' = zone
      <4>1. ~Running(a, "firewall")'
        BY <3>3, ErrorFacts, FaultFacts
      <4> QED
        BY <1>1, <3>3, <4>1, ZonesSame
    <3> QED
      BY <2>11, <3>2, <3>3 DEF addSource
  <2>12. CASE removeSource(a)
    <3>1. k.op = "remove source" /\ cmd = "del"
      BY <1>0, <2>5, <2>12 DEF removeSource, At, Call
    <3>2. Do(a, rest) \/ Fault(a, rest)
      BY <2>7, <2>12 DEF removeSource
    <3>3. ZonesOf(a)
      <4>1. CASE zone' = zone
        BY <4>1, ZonesSame
      <4>2. CASE zone' = [zone EXCEPT ![Source(a)] = IF firewalld /\ @ = Zone[a] THEN "none" ELSE @]
        <5>1. PICK z : z = IF firewalld /\ zone[Source(a)] = Zone[a] THEN "none" ELSE zone[Source(a)]
          OBVIOUS
        <5>2. zone' = [zone EXCEPT ![Source(a)] = z]
          BY <4>2, <5>1
        <5>3. zone' = [zone EXCEPT ![<<ip[a], k.f>>] = z]
          BY <1>0, <5>2 DEF Source
        <5> QED
          BY <1>0, <3>1, <5>3, ZoneSet
      <4> QED
        BY <2>12, <4>1, <4>2 DEF removeSource
    <3> QED
      BY <1>1, <2>8, <3>1, <3>2, <3>3
  <2>13. CASE querySource(a)
    <3>1. zone' = zone /\ k.op = "query source"
      BY <1>0, <2>13 DEF querySource, At, Call
    <3>2. Running(a, "firewall")' => Do(a, rest)
      BY <1>3, <2>7, <2>13 DEF querySource
    <3> QED
      BY <1>1, <2>8, <2>9, <3>1, <3>2, ZonesSame
  <2> QED
    BY <1>6, <2>10, <2>11, <2>12, <2>13 DEF FirewalldCall
<1> QED
  BY <1>5, <1>6


\* Nothing that is wanted for b is lost.
FwLeaves(b) ==
    /\ ip'[b] = ip[b] /\ firewalld' = firewalld
    /\ \A f \in FwFams[b] : \A w \in FwWanted(b) : FwPlaced(f, w) => FwPlaced(f, w)'
    /\ \A f \in FwFams[b] : FwZoned(b, f) => FwZoned(b, f)'

LEMMA FwLeavesOK ==
  ASSUME NEW b, FwLeaves(b)
  PROVE  /\ FwDone(b) => FwDone(b)'
         /\ proc'[b] = proc[b] => (FwRun(b) => FwRun(b)')
<1>1. /\ \A c, s : FwTypes(b, c, s)' <=> FwTypes(b, c, s)
      /\ FwWanted(b)' = FwWanted(b)
      /\ UsesFirewalld(b)' <=> UsesFirewalld(b)
  BY FwTypesSame DEF FwLeaves
<1>2. FwDone(b) => FwDone(b)'
  BY <1>1 DEF FwLeaves, FwDone
<1>3. \A s : FwAdding(b, s) => FwAdding(b, s)'
  BY <1>1 DEF FwLeaves, FwAdding
<1>4. ASSUME proc'[b] = proc[b], FwRun(b) PROVE FwRun(b)'
  BY <1>1, <1>3, <1>4 DEF FwRun, FwGoes
<1> QED
  BY <1>2, <1>4

\* A step that is none of the plugin.
LEMMA FwQuiet ==
  ASSUME FwInv, UNCHANGED firewallVars, \A b \in Att : Quiet(b, "firewall"),
         \A f \in {4, 6} : \A c, r : Exists(Filter(f), c, r) => Exists(Filter(f), c, r)'
  PROVE  FwInv'
<1>1. zone' = zone /\ firewalld' = firewalld
  BY DEF firewallVars
<1>2. ASSUME NEW b \in Att, ip'[b] = ip[b] PROVE FwLeaves(b)
  BY <1>1, <1>2, FirewallAssumption DEF FwLeaves, FwPlaced, FwZoned
<1>3. ASSUME NEW b \in Att PROVE FwOK(b)'
  <2>1. ASSUME Done(b, "firewall")' PROVE FwDone(b)'
    <3>1. Done(b, "firewall") /\ ip'[b] = ip[b]
      BY <2>1 DEF Quiet
    <3> QED
      BY <1>2, <3>1, FwLeavesOK DEF FwInv, FwOK
  <2>2. ASSUME Running(b, "firewall")', proc'[b].todo # Start PROVE FwRun(b)'
    <3>1. Running(b, "firewall") /\ proc'[b] = proc[b] /\ ip'[b] = ip[b]
      BY <2>2 DEF Quiet
    <3> QED
      BY <1>2, <2>2, <3>1, FwLeavesOK DEF FwInv, FwOK
  <2> QED
    BY <2>1, <2>2 DEF FwOK
<1> QED
  BY <1>1, <1>3 DEF FwInv

\* Only the end of an ADD makes the plugin done.
LEMMA OwnDone ==
  ASSUME ChainInv, OnePerChain, NEW a \in Att, Steps(a), NEW plugin, Running(a, plugin),
         Running(a, plugin)', Done(a, plugin)'
  PROVE  Ready(a, plugin) \/ (proc[a].cmd = "add" /\ proc'[a].todo = <<>>)
BY OwnPlugin

\* A step of the plugin for a leaves what is wanted for others.
LEMMA FwOwnStep ==
  ASSUME ChainInv, TablesOK, OnePerChain, FwInv, NEW a \in Att, Running(a, "firewall"), FirewallStep(a)
  PROVE  TablesOK' /\ FwInv'
<1>1. Steps(a)
  BY FirewallSteps
<1>2. /\ TablesOK' /\ FwKeeps(a) /\ firewalld' = firewalld /\ ZonesOf(a)
      /\ Running(a, "firewall")' => FwRun(a)'
  <2>1. CASE IptStep(a, "firewall") /\ UNCHANGED firewallVars
    <3>1. FwRun(a)
      BY <2>1, IptOps, CallOps DEF FwInv, FwOK
    <3>2. zone' = zone /\ firewalld' = firewalld
      BY <2>1 DEF firewallVars
    <3> QED
      BY <2>1, <3>1, <3>2, FwIptStep, ZonesSame DEF FwInv
  <2>2. CASE FirewallStart(a) \/ LookForRules(a) \/ FirewalldCall(a)
    <3>1. /\ tables' = tables /\ firewalld' = firewalld /\ ZonesOf(a)
          /\ Running(a, "firewall")' => FwRun(a)'
      BY <2>2, FwOtherStep DEF FwInv, FwOK
    <3> QED
      BY <3>1, ChainsSame DEF FwKeeps, Exists, RulesIn, ChainExists
  <2> QED
    BY <2>1, <2>2 DEF FirewallStep
<1>3. ip' = ip
  BY <1>1 DEF Steps
<1>4. /\ \A b \in Att \ {a} :
               /\ proc'[b] = proc[b] /\ told'[b] = told[b]
               /\ Running(b, "firewall")' <=> Running(b, "firewall")
               /\ Done(b, "firewall")' <=> Done(b, "firewall")
      /\ Running(a, "firewall")' => /\ proc'[a].cmd = proc[a].cmd
                                   /\ Done(a, "firewall")' <=>
                                         (Ready(a, "firewall") \/
                                            (proc[a].cmd = "add" /\ proc'[a].todo = <<>>))
      /\ ~Running(a, "firewall")' => ~Done(a, "firewall")'
  BY <1>1, OwnPlugin
<1>5. ASSUME NEW b \in Att, NEW f \in FwFams[b] PROVE Filter(f) \in Tables /\ f \in {4, 6}
  BY FirewallAssumption, IptAssumption DEF Filter
<1>6. ASSUME NEW b \in Att \ {a}, ip[b] \in IPs PROVE FwLeaves(b)
  <2>1. ip[a] # ip[b] /\ ip[a] \in IPs \cup {NoIP}
    BY <1>6, ChainAssumption DEF ChainInv, IpOK
  <2>2. ASSUME NEW f \in FwFams[b], NEW w \in FwWanted(b), FwPlaced(f, w) PROVE FwPlaced(f, w)'
    <3>1. w[2] \notin Accepts(ip[a])
      BY <1>6, <2>1, AcceptsFacts DEF FwWanted
    <3> QED
      BY <1>2, <1>5, <2>2, <3>1 DEF FwKeeps, FwPlaced
  <2>3. ASSUME NEW f \in FwFams[b] PROVE zone'[<<ip[b], f>>] = zone[<<ip[b], f>>]
    <3>1. <<ip[b], f>> \in IPs \X {4, 6} /\ <<ip[b], f>>[1] # ip[a]
      BY <1>5, <1>6, <2>1
    <3> QED
      BY <1>2, <3>1 DEF ZonesOf
  <2> QED
    BY <1>2, <1>3, <2>2, <2>3 DEF FwLeaves, FwZoned
<1>7. ASSUME NEW b \in Att \ {a} PROVE FwOK(b)'
  <2>1. ASSUME Done(b, "firewall") PROVE FwDone(b)'
    <3>1. ip[b] \in IPs
      BY <2>1 DEF ChainInv, IpOK, Done, Ready
    <3> QED
      BY <1>6, <2>1, <3>1, FwLeavesOK DEF FwInv, FwOK
  <2>2. ASSUME Running(b, "firewall"), proc[b].todo # Start PROVE FwRun(b)'
    <3>1. FwRun(b)
      BY <2>2 DEF FwInv, FwOK
    <3>2. CASE ip[b] \in IPs
      BY <1>4, <1>6, <3>1, <3>2, FwLeavesOK
    <3>3. CASE proc[b].cmd # "add"
      BY <1>2, <1>3, <1>4, <3>1, <3>3, FwTypesSame DEF FwRun, FwGoes
    <3> QED
      BY <3>2, <3>3 DEF ChainInv, IpOK
  <2> QED
    BY <1>4, <2>1, <2>2 DEF FwOK
<1>8. FwOK(a)'
  <2>1. ASSUME Done(a, "firewall")', Running(a, "firewall")' PROVE FwDone(a)'
    <3>1. CASE Ready(a, "firewall")
      <4>1. proc[a].cmd = "check"
        BY <3>1 DEF ChainInv, ProcOK, Running, Idle, Ready
      <4>2. FwDone(a)
        BY <3>1 DEF FwInv, FwOK, Done
      <4>3. zone' = zone
        BY <1>2, <4>1 DEF ZonesOf
      <4>4. \A f \in FwFams[a] : \A c, r : Exists(Filter(f), c, r) => Exists(Filter(f), c, r)'
        BY <1>2, <1>5, <4>1 DEF FwKeeps
      <4>5. FwLeaves(a)
        BY <1>2, <1>3, <4>3, <4>4 DEF FwLeaves, FwPlaced, FwZoned
      <4> QED
        BY <4>2, <4>5, FwLeavesOK
    <3>2. CASE proc[a].cmd = "add" /\ proc'[a].todo = <<>>
      <4>1. FwAdding(a, <<>>)'
        BY <1>2, <1>4, <2>1, <3>2 DEF FwRun, FwGoes
      <4>2. ToSet(<<>>) = {}
        BY NoSeq
      <4> QED
        BY <4>1, <4>2 DEF FwAdding, FwDone, FwZones, FwPends
    <3>3. Ready(a, "firewall") \/ (proc[a].cmd = "add" /\ proc'[a].todo = <<>>)
      BY <1>1, <2>1, OwnDone
    <3> QED
      BY <3>1, <3>2, <3>3
  <2> QED
    BY <1>2, <1>4, <2>1 DEF FwOK
<1>9. zone' = [s \in IPs \X {4, 6} |-> zone'[s]]
  BY <1>2 DEF ZonesOf
<1> QED
  BY <1>2, <1>7, <1>8, <1>9 DEF FwInv

\* The calls of portmap leave the filter tables alone.
LEMMA PmFilter ==
  ASSUME ChainInv, TablesOK, NEW a \in Att, PortmapStep(a), Running(a, "portmap"),
         proc[a].todo = Start \/ PmTyped(a)
  PROVE  \A f \in {4, 6} : \A c : /\ RulesIn(Filter(f), c)' = RulesIn(Filter(f), c)
                                  /\ ChainExists(Filter(f), c)' <=> ChainExists(Filter(f), c)
<1>1. CASE tables' = tables
  BY <1>1 DEF RulesIn, ChainExists
<1>2. CASE IptStep(a, "portmap")
  <2>1. PmTyped(a)
    BY <1>2, IptOps, CallOps
  <2>2. PICK k : k = Call(a)
    OBVIOUS
  <2>3. k.op # "abort" => k.t \in Tables /\ \E f \in {4, 6} : k.t = NatTable(f)
    BY <1>2, <2>1, <2>2, PmIptCalls
  <2>4. tables' = tables \/ (k.op # "abort" /\ Effect(k))
    BY <1>2, <2>2, <2>3, IptOutcome DEF Goes
  <2>5. \A f \in {4, 6} : Filter(f) \in Tables /\ \A g : Filter(f) # NatTable(g)
    BY IptAssumption DEF Filter, NatTable
  <2> QED
    BY <1>1, <2>3, <2>4, <2>5 DEF Effect, OtherChains
<1> QED
  BY <1>1, <1>2 DEF PortmapStep, PortmapStart, enableLocalnetRouting, PurgeFlows


-----------------------------------------------------------------------------
(* The invariants of the tables and of the plugin, of every behaviour.     *)

CallsInv == TablesOK /\ PmCalls

LEMMA NoRulesFirst ==
  ASSUME Init
  PROVE  TablesOK /\ \A t \in Tables : \A c : RulesIn(t, c) = <<>>
<1>1. tables = [t \in Tables |-> [c \in BuiltIn[t] |-> <<>>]]
  BY DEF Init, IptInit
<1>2. \A t \in Tables : \A c \in DOMAIN tables[t] : tables[t][c] = <<>>
  BY <1>1
<1>3. TablesOK
  BY <1>1, <1>2, NoSeq DEF TablesOK
<1> QED
  BY <1>2, <1>3 DEF RulesIn, ChainExists

LEMMA IdleFirst ==
  ASSUME Init, NEW a \in Att, NEW plugin
  PROVE  ~Running(a, plugin) /\ ~Done(a, plugin)
BY DEF Init, ChainInit, Running, Idle, Done, Ready, Quit

LEMMA CallsInit == Init => CallsInv /\ FwInv
<1> SUFFICES ASSUME Init PROVE CallsInv /\ FwInv
  OBVIOUS
<1>1. TablesOK
  BY NoRulesFirst
<1>2. \A a \in Att : ~Running(a, "portmap")
  <2>1. PICK plugin : plugin = "portmap"
    OBVIOUS
  <2>2. \A a \in Att : ~Running(a, plugin)
    BY IdleFirst
  <2> QED
    BY <2>1, <2>2
<1>3. \A a \in Att : ~Running(a, "firewall") /\ ~Done(a, "firewall")
  <2>1. PICK plugin : plugin = "firewall"
    OBVIOUS
  <2>2. \A a \in Att : ~Running(a, plugin) /\ ~Done(a, plugin)
    BY IdleFirst
  <2> QED
    BY <2>1, <2>2
<1>4. zone = [s \in IPs \X {4, 6} |-> zone[s]]
  BY DEF Init, FirewallInit
<1> QED
  BY <1>1, <1>2, <1>3, <1>4 DEF CallsInv, PmCalls, FwInv, FwOK

LEMMA CallsNext ==
  ASSUME ChainInv, CallsInv, OnePerChain, FwInv, [Next]_vars
  PROVE  CallsInv' /\ FwInv'
<1>1. ASSUME NEW a \in Att, Running(a, "portmap"), PortmapStep(a), UNCHANGED firewallVars,
             \A b \in Att : Quiet(b, "firewall")
      PROVE  CallsInv' /\ FwInv'
  <2>1. TablesOK' /\ PmCalls'
    BY <1>1, PmCallsOwn DEF CallsInv
  <2>2. \A f \in {4, 6} : \A c, r : Exists(Filter(f), c, r) => Exists(Filter(f), c, r)'
    BY <1>1, PmFilter DEF CallsInv, PmCalls, Exists
  <2> QED
    BY <1>1, <2>1, <2>2, FwQuiet DEF CallsInv
<1>2. ASSUME NEW a \in Att, Running(a, "firewall"), FirewallStep(a), \A b \in Att : Quiet(b, "portmap")
      PROVE  CallsInv' /\ FwInv'
  BY <1>2, FwOwnStep, PmCallsQuiet DEF CallsInv
<1>3. CASE Elsewhere
  <2>1. tables' = tables /\ TablesOK'
    BY <1>3, ChainsSame DEF Elsewhere, CallsInv
  <2>2. \A f \in {4, 6} : \A c, r : Exists(Filter(f), c, r) => Exists(Filter(f), c, r)'
    BY <2>1 DEF Exists, RulesIn, ChainExists
  <2> QED
    BY <1>3, <2>1, <2>2, FwQuiet, PmCallsQuiet DEF Elsewhere, CallsInv
<1> QED
  BY <1>1, <1>2, <1>3, NextCases

LEMMA CallsInvariant == OnePerChain => (Spec => [](CallsInv /\ FwInv))
<1> SUFFICES ASSUME OnePerChain PROVE Spec => [](CallsInv /\ FwInv)
  OBVIOUS
<1>1. ChainInv /\ (CallsInv /\ FwInv) /\ [Next]_vars => (CallsInv /\ FwInv)'
  BY CallsNext
<1> QED
  BY <1>1, CallsInit, ChainInvariant, PTL DEF Spec

\* What a ready attachment finds in the filter tables.
LEMMA DoneChecks ==
  ASSUME NEW a \in Att, FwDone(a), ~UsesFirewalld(a), NEW f \in FwFams[a]
  PROVE  checkRules(a, f)
<1>1. \A w \in FwWanted(a) : Exists(Filter(f), w[1], w[2])
  BY DEF FwDone, FwPlaced
<1>2. Exists(Filter(f), Forward, JumpTo(Priv))
  <2>1. <<Forward, JumpTo(Priv)>> \in FwWanted(a)
    BY DEF FwWanted
  <2> QED
    BY <1>1, <2>1
<1>3. Exists(Filter(f), Priv, JumpTo(Admin(a)))
  <2>1. <<Priv, JumpTo(Admin(a))>> \in FwWanted(a)
    BY DEF FwWanted
  <2> QED
    BY <1>1, <2>1
<1>4. \A r \in Accepts(ip[a]) : Exists(Filter(f), Priv, r)
  <2>1. \A r \in Accepts(ip[a]) : <<Priv, r>> \in FwWanted(a)
    BY DEF FwWanted
  <2> QED
    BY <1>1, <2>1
<1>5. \A n \in 1 .. 2 : getPrivChainRules(ip[a])[n] \in Accepts(ip[a])
  BY DEF Accepts
<1> QED
  BY <1>2, <1>3, <1>4, <1>5 DEF checkRules

(* What lets an attachment that is ready through the firewall stays there, *)
(* with any number of attachments, any interleaving, and any failure or    *)
(* kill of the commands of the others (cmdAdd, cmdDel and cmdCheck of      *)
(* plugins/meta/firewall, which share a chain or a zone). *)
THEOREM ReadyIsAccepted == OnePerChain => (Spec => []ReadyAccepted)
<1> SUFFICES ASSUME OnePerChain PROVE Spec => []ReadyAccepted
  OBVIOUS
<1>1. FwInv => ReadyAccepted
  <2> SUFFICES ASSUME FwInv, NEW a \in Att, Ready(a, "firewall")
               PROVE  IF UsesFirewalld(a) THEN \A f \in FwFams[a] : zone[<<ip[a], f>>] = Zone[a]
                      ELSE \A f \in FwFams[a] : checkRules(a, f)
    BY DEF ReadyAccepted
  <2>1. FwDone(a)
    BY DEF FwInv, FwOK, Done
  <2>2. CASE UsesFirewalld(a)
    BY <2>1, <2>2 DEF FwDone, FwZoned
  <2>3. CASE ~UsesFirewalld(a)
    BY <2>1, <2>3, DoneChecks
  <2> QED
    BY <2>2, <2>3
<1> QED
  BY <1>1, CallsInvariant, PTL


-----------------------------------------------------------------------------
(* The order of the rules of the chain that all share.                     *)

LEMMA BeforePrepend ==
  ASSUME NEW s, IsSeq(s), NEW x, NEW r, NEW q, Before(s, r, q), x.to # q
  PROVE  Before(<<x>> \o s, r, q)
<1> DEFINE t == <<x>> \o s
<1>1. /\ Len(<<x>>) = 1 /\ Len(s) \in Nat /\ DOMAIN s = 1 .. Len(s)
      /\ DOMAIN t = 1 .. (1 + Len(s))
      /\ \A i \in 1 .. (1 + Len(s)) : t[i] = IF i <= 1 THEN <<x>>[i] ELSE s[i - 1]
  BY OneSeq, ConcatSeq, SeqFacts
<1> HIDE DEF t
<1> SUFFICES ASSUME NEW i \in 1 .. (1 + Len(s)), NEW j \in 1 .. (1 + Len(s)), t[i].to = r, t[j].to = q
             PROVE  i < j
  BY <1>1 DEF Before, t
<1>2. t[1] = x
  BY <1>1
<1>3. j # 1
  BY <1>2
<1>4. j - 1 \in DOMAIN s /\ s[j - 1] = t[j]
  BY <1>1, <1>3
<1>5. CASE i = 1
  BY <1>3, <1>5
<1>6. CASE i # 1
  <2>1. i - 1 \in DOMAIN s /\ s[i - 1] = t[i]
    BY <1>1, <1>6
  <2>2. i - 1 < j - 1
    BY <1>4, <2>1 DEF Before
  <2> QED
    BY <2>2, <1>1
<1> QED
  BY <1>5, <1>6

LEMMA BeforeAppend ==
  ASSUME NEW s, IsSeq(s), NEW x, NEW r, NEW q, Before(s, r, q), x.to # r
  PROVE  Before(s \o <<x>>, r, q)
<1> DEFINE t == s \o <<x>>
<1>1. /\ Len(<<x>>) = 1 /\ Len(s) \in Nat /\ DOMAIN s = 1 .. Len(s)
      /\ DOMAIN t = 1 .. (Len(s) + 1)
      /\ \A i \in 1 .. (Len(s) + 1) : t[i] = IF i <= Len(s) THEN s[i] ELSE <<x>>[i - Len(s)]
  BY OneSeq, ConcatSeq, SeqFacts
<1> HIDE DEF t
<1> SUFFICES ASSUME NEW i \in 1 .. (Len(s) + 1), NEW j \in 1 .. (Len(s) + 1), t[i].to = r, t[j].to = q
             PROVE  i < j
  BY <1>1 DEF Before, t
<1>2. t[Len(s) + 1] = x
  BY <1>1
<1>3. i # Len(s) + 1
  BY <1>2
<1>4. i \in DOMAIN s /\ s[i] = t[i]
  BY <1>1, <1>3
<1>5. CASE j = Len(s) + 1
  BY <1>1, <1>3, <1>5
<1>6. CASE j # Len(s) + 1
  <2>1. j \in DOMAIN s /\ s[j] = t[j]
    BY <1>1, <1>6
  <2> QED
    BY <1>4, <2>1 DEF Before
<1> QED
  BY <1>5, <1>6

LEMMA BeforeWithout ==
  ASSUME NEW s, IsSeq(s), NEW p \in 1 .. Len(s), NEW r, NEW q, Before(s, r, q)
  PROVE  Before(Without(s, p), r, q)
<1> DEFINE t == Without(s, p)
<1>1. /\ Len(s) \in Nat /\ DOMAIN s = 1 .. Len(s) /\ DOMAIN t = 1 .. (Len(s) - 1)
      /\ \A i \in 1 .. (Len(s) - 1) : t[i] = IF i < p THEN s[i] ELSE s[i + 1]
  BY WithoutFacts, SeqFacts DEF Without
<1> HIDE DEF t
<1> SUFFICES ASSUME NEW i \in 1 .. (Len(s) - 1), NEW j \in 1 .. (Len(s) - 1), t[i].to = r, t[j].to = q
             PROVE  i < j
  BY <1>1 DEF Before, t
<1> DEFINE at(n) == IF n < p THEN n ELSE n + 1
<1>2. /\ at(i) \in DOMAIN s /\ s[at(i)] = t[i]
      /\ at(j) \in DOMAIN s /\ s[at(j)] = t[j]
  BY <1>1
<1>3. at(i) < at(j)
  <2> HIDE DEF at
  <2> QED
    BY <1>2 DEF Before
<1> QED
  BY <1>1, <1>3

AdminsFirst ==
    \A b \in Att : \A f \in {4, 6} : Before(RulesIn(Filter(f), Priv), Admin(b), Shared("ACCEPT"))

LEMMA AdminsSame ==
  ASSUME AdminsFirst, \A f \in {4, 6} : RulesIn(Filter(f), Priv)' = RulesIn(Filter(f), Priv)
  PROVE  AdminsFirst'
<1> SUFFICES ASSUME NEW b \in Att, NEW f \in {4, 6}
             PROVE  Before(RulesIn(Filter(f), Priv)', Admin(b), Shared("ACCEPT"))
  BY DEF AdminsFirst, Before
<1> QED
  BY DEF AdminsFirst

\* The calls of the plugin put a jump to an administrator's chain in front, and
\* a rule that accepts behind.
LEMMA AdminsStep ==
  ASSUME ChainInv, TablesOK, NEW a \in Att, IptStep(a, "firewall"), FwRun(a), AdminsFirst
  PROVE  AdminsFirst'
<1>0. PICK k : k = Call(a)
  OBVIOUS
<1>1. k.op \in {"ensure", "unique", "insert", "clear", "list", "delete", "delchain", "abort"}
  BY <1>0, IptOps
<1>2. k \in ToSet(proc[a].todo)
  BY <1>0, IptOps, CallOps DEF FwRun, FwGoes, FwTypes
<1>3. k.op = "abort" \/ FwIptCall(a, k)
  BY <1>1, <1>2 DEF FwRun, FwGoes, FwTypes, FwCall
<1>4. \A f \in {4, 6} : Filter(f) \in Tables
  BY IptAssumption DEF Filter
<1>5. k.op # "abort" => k.t \in Tables
  BY <1>3, <1>4, FirewallAssumption DEF FwIptCall
<1>6. tables' = tables \/ (k.op # "abort" /\ Effect(k))
  BY <1>0, <1>5, IptOutcome DEF Goes
<1>7. CASE tables' = tables
  BY <1>7, AdminsSame DEF RulesIn, ChainExists
<1>8. CASE k.op # "abort" /\ Effect(k)
  <2>1. FwIptCall(a, k)
    BY <1>3, <1>8
  <2> SUFFICES ASSUME NEW b \in Att, NEW f \in {4, 6}
               PROVE  Before(RulesIn(Filter(f), Priv)', Admin(b), Shared("ACCEPT"))
    BY DEF AdminsFirst, Before
  <2> DEFINE s == RulesIn(Filter(f), Priv)
  <2>2. Before(s, Admin(b), Shared("ACCEPT")) /\ IsSeq(s)
    BY <1>4, RulesSeq DEF AdminsFirst
  <2>3. CASE k.t # Filter(f) \/ k.c # Priv
    BY <1>4, <1>8, <2>2, <2>3 DEF Effect, OtherChains
  <2>4. CASE k.t = Filter(f) /\ k.c = Priv
    <3> DEFINE s1 == RulesIn(k.t, k.c)'
    <3>1. s1 = RulesIn(Filter(f), Priv)' /\ RulesIn(k.t, k.c) = s
      BY <2>4
    <3>2. \/ s1 = s
          \/ k.op = "insert" /\ s1 = IF k.first THEN <<k.r>> \o s ELSE s \o <<k.r>>
          \/ \E p \in 1 .. Len(s) : s1 = Without(s, p)
      <4>1. k.op \notin {"clear", "delchain"}
        BY <2>1, FwOps
      <4> QED
        BY <1>8, <3>1, <4>1 DEF Effect, RulesIn, ChainExists
    <3>3. ASSUME k.op = "insert"
          PROVE  /\ k.first => k.r.to # Shared("ACCEPT")
                 /\ ~k.first => k.r.to # Admin(b)
      <4>1. FwAdds(a, k)
        BY <2>1, <3>3 DEF FwIptCall, FwDeletes
      <4>2. k.r \in Accepts(ip[a]) \/ k.r = JumpTo(Admin(a)) \/ k.r = JumpTo(Priv)
        BY <4>1 DEF FwAdds, FwWanted
      <4> QED
        BY <4>1, <4>2, AcceptsFacts DEF FwAdds
    <3> HIDE DEF s1, s
    <3>4. Before(s1, Admin(b), Shared("ACCEPT"))
      BY <2>2, <3>2, <3>3, BeforePrepend, BeforeAppend, BeforeWithout
    <3> QED
      BY <3>1, <3>4
  <2> QED
    BY <2>3, <2>4
<1> QED
  BY <1>6, <1>7, <1>8

LEMMA AdminsNext ==
  ASSUME ChainInv, CallsInv, FwInv, AdminsFirst, [Next]_vars
  PROVE  AdminsFirst'
<1>1. ASSUME tables' = tables PROVE AdminsFirst'
  BY <1>1, AdminsSame DEF RulesIn, ChainExists
<1>2. ASSUME NEW a \in Att, Running(a, "portmap"), PortmapStep(a) PROVE AdminsFirst'
  BY <1>2, PmFilter, AdminsSame DEF CallsInv, PmCalls
<1>3. ASSUME NEW a \in Att, Running(a, "firewall"), FirewallStep(a) PROVE AdminsFirst'
  <2>1. CASE IptStep(a, "firewall")
    <3>1. FwRun(a)
      BY <2>1, IptOps, CallOps DEF FwInv, FwOK
    <3> QED
      BY <2>1, <3>1, AdminsStep DEF CallsInv
  <2>2. CASE tables' = tables
    BY <1>1, <2>2
  <2> QED
    BY <1>3, <2>1, <2>2 DEF FirewallStep, FirewallStart, LookForRules, FirewalldCall
<1>4. CASE Elsewhere
  BY <1>1, <1>4 DEF Elsewhere
<1> QED
  BY <1>2, <1>3, <1>4, NextCases

(* An administrator can overrule the plugin: in the chain that all share,  *)
(* no jump to an administrator's chain comes after a rule that accepts, in *)
(* any interleaving of the checks and the insertions (setupChains and      *)
(* ensureFirstChainRule of plugins/meta/firewall). *)
THEOREM AdminComesFirst == OnePerChain => (Spec => []AdminFirst)
<1> SUFFICES ASSUME OnePerChain PROVE Spec => []AdminFirst
  OBVIOUS
<1>1. Init => AdminsFirst
  <2> SUFFICES ASSUME Init, NEW b \in Att, NEW f \in {4, 6}
               PROVE  Before(RulesIn(Filter(f), Priv), Admin(b), Shared("ACCEPT"))
    BY DEF AdminsFirst
  <2>1. RulesIn(Filter(f), Priv) = <<>>
    BY NoRulesFirst, IptAssumption DEF Filter
  <2> QED
    BY <2>1 DEF Before
<1>2. ChainInv /\ (CallsInv /\ FwInv) /\ AdminsFirst /\ [Next]_vars => AdminsFirst'
  BY AdminsNext
<1>3. CallsInv /\ FwInv /\ AdminsFirst => AdminFirst
  <2> SUFFICES ASSUME CallsInv, FwInv, AdminsFirst, NEW a \in Att, Ready(a, "firewall"),
                      ~UsesFirewalld(a), NEW f \in FwFams[a]
               PROVE  Before(tables[Filter(f)][Priv], Admin(a), Shared("ACCEPT"))
    BY DEF AdminFirst
  <2>1. FwDone(a)
    BY DEF FwInv, FwOK, Done
  <2>2. Exists(Filter(f), Priv, JumpTo(Admin(a)))
    BY <2>1, DoneChecks DEF checkRules
  <2>3. f \in {4, 6} /\ Filter(f) \in Tables
    BY FirewallAssumption, IptAssumption DEF Filter
  <2>4. RulesIn(Filter(f), Priv) # <<>>
    BY <2>2, <2>3, RulesSeq, SeqFacts DEF CallsInv
  <2>5. tables[Filter(f)][Priv] = RulesIn(Filter(f), Priv)
    BY <2>4 DEF RulesIn
  <2> QED
    BY <2>3, <2>5 DEF AdminsFirst
<1> QED
  BY <1>1, <1>2, <1>3, ChainInvariant, CallsInvariant, PTL DEF Spec


-----------------------------------------------------------------------------
(* What portmap makes of the nat tables.                                   *)

HD == Shared("HOSTPORT-DNAT")

\* The rules that lead to the chain of b.
Entries(b) == {[e EXCEPT !.to = DN(b)] : e \in ToSet(EntryRules(b))}

\* The rules in the chain of b.
DnRules(f, b) == RulesIn(NatTable(f), DN(b))

\* No chain of an attachment is shared, or another's.
LEMMA ChainNames ==
  /\ \A b \in Att : \A n : DN(b) # Shared(n) /\ OldSN(b) # Shared(n)
  /\ \A b, c : (DN(b) = DN(c) => b = c) /\ (OldSN(b) = OldSN(c) => b = c) /\ DN(b) # OldSN(c)
  /\ HD # Shared("PREROUTING") /\ HD # Shared("OUTPUT") /\ HD # Shared("SETMARK")
  /\ HD # Shared("MASQ") /\ HD # Shared("POSTROUTING")
  /\ \A b : \A x : DN(b) # <<"DNAT", x>> /\ OldSN(b) # <<"DNAT", x>>
BY IptAssumption DEF DN, OldSN, Shared, HD

LEMMA EntriesFacts ==
  ASSUME NEW b \in Att, NEW e \in Entries(b)
  PROVE  /\ e.to = DN(b)
         /\ \E proto \in {"sctp", "tcp", "udp"} : \E ports :
               /\ e = [EntryOf(b, proto, ports) EXCEPT !.to = DN(b)]
               /\ IsSeq(ports) /\ ToSet(ports) \subseteq ToSet(groupByProto(b, proto))
<1>1. PICK x \in ToSet(EntryRules(b)) : e = [x EXCEPT !.to = DN(b)]
  BY DEF Entries
<1>2. PICK proto \in {"sctp", "tcp", "udp"} : \E ports :
               /\ x = EntryOf(b, proto, ports)
               /\ IsSeq(ports) /\ ports # <<>> /\ ToSet(ports) \subseteq ToSet(groupByProto(b, proto))
  BY EntryFacts
<1>3. PICK ports : /\ x = EntryOf(b, proto, ports)
                   /\ IsSeq(ports) /\ ports # <<>> /\ ToSet(ports) \subseteq ToSet(groupByProto(b, proto))
  BY <1>2
<1>4. e = [EntryOf(b, proto, ports) EXCEPT !.to = DN(b)]
  BY <1>1, <1>3
<1>5. e.to = DN(b)
  BY <1>4 DEF EntryOf, Always
<1> QED
  BY <1>3, <1>4, <1>5

LEMMA FillTo ==
  ASSUME NEW b \in Att, NEW f, NEW r \in ToSet(fillDnatRules(b, f))
  PROVE  /\ r.to = SetMark \/ r.to[1] = "DNAT"
         /\ \A c \in Att : r.to # DN(c) /\ r.to # OldSN(c)
         /\ r.to[1] = "DNAT" => \E m \in FitOf(b, f) : r = DnatOf(b, m)
<1>1. PICK m \in FitOf(b, f) : r \in MarksOf(b, f, m) \cup {DnatOf(b, m)}
  BY FillFacts
<1>2. CASE r = DnatOf(b, m)
  <2>1. r.to = <<"DNAT", <<ip[b], m.cont>>>>
    BY <1>2 DEF DnatOf, BaseOf, Always
  <2> QED
    BY <1>1, <1>2, <2>1, ChainNames
<1>3. CASE r \in MarksOf(b, f, m)
  <2>1. r.to = SetMark
    BY <1>3 DEF MarksOf, MarkOf, BaseOf, Always
  <2>2. SetMark[1] # "DNAT" /\ \A c \in Att : SetMark # DN(c) /\ SetMark # OldSN(c)
    BY IptAssumption DEF SetMark, Shared, DN, OldSN
  <2> QED
    BY <2>1, <2>2
<1> QED
  BY <1>1, <1>2, <1>3

\* The shared rules.
SharedRules(a) ==
    {<<Shared("PREROUTING"), JumpTo(HD)>>, <<Shared("OUTPUT"), JumpTo(HD)>>} \cup
    IF SNAT[a] /\ ~ExternalMark
    THEN {<<Shared("SETMARK"), JumpTo(Shared("MARK"))>>, <<Shared("POSTROUTING"), JumpTo(Shared("MASQ"))>>,
          <<Shared("MASQ"), JumpTo(Shared("MASQUERADE"))>>}
    ELSE {}

LEMMA WantedFacts ==
  ASSUME NEW a \in Att, NEW f
  PROVE  Wanted(a, f) = {<<DN(a), r>> : r \in ToSet(fillDnatRules(a, f))} \cup
                        {<<HD, e>> : e \in Entries(a)} \cup SharedRules(a)
<1>1. WantedOf(genDnatChain(a, f)) = {<<DN(a), r>> : r \in ToSet(fillDnatRules(a, f))} \cup
                                     {<<HD, e>> : e \in Entries(a)}
  <2> DEFINE c == genDnatChain(a, f)
  <2>1. /\ c.name = DN(a) /\ c.rules = fillDnatRules(a, f) /\ c.into = <<HD>>
        /\ c.entries = EntryRules(a)
    BY DEF genDnatChain, NatChain, HD
  <2> HIDE DEF c
  <2>2. {<<c.name, c.rules[i]>> : i \in DOMAIN c.rules} = {<<DN(a), r>> : r \in ToSet(fillDnatRules(a, f))}
    BY <2>1 DEF ToSet
  <2>3. DOMAIN c.into = {1} /\ c.into[1] = HD
    BY <2>1
  <2>4. \A i \in DOMAIN c.entries : EntryTo(c, i) = [EntryRules(a)[i] EXCEPT !.to = DN(a)]
    BY <2>1 DEF EntryTo
  <2>5. {EntryTo(c, i) : i \in DOMAIN c.entries} = Entries(a)
    BY <2>1, <2>4 DEF Entries, ToSet
  <2>6. UNION {{<<c.into[j], EntryTo(c, i)>> : i \in DOMAIN c.entries} : j \in DOMAIN c.into}
           = {<<HD, e>> : e \in {EntryTo(c, i) : i \in DOMAIN c.entries}}
    BY <2>3
  <2> QED
    BY <2>2, <2>5, <2>6 DEF WantedOf, c
<1>2. WantedOf(genToplevelDnatChain) =
        {<<Shared("PREROUTING"), JumpTo(HD)>>, <<Shared("OUTPUT"), JumpTo(HD)>>}
  <2> DEFINE c == genToplevelDnatChain
  <2>1. /\ c.name = HD /\ c.rules = <<>> /\ c.into = <<Shared("PREROUTING"), Shared("OUTPUT")>>
        /\ c.entries = <<Always>>
    BY DEF genToplevelDnatChain, NatChain, HD
  <2> HIDE DEF c
  <2>2. EntryTo(c, 1) = JumpTo(HD) /\ DOMAIN c.entries = {1} /\ DOMAIN c.into = {1, 2} /\ DOMAIN c.rules = {}
    BY <2>1 DEF EntryTo, JumpTo
  <2>3. c.into[1] = Shared("PREROUTING") /\ c.into[2] = Shared("OUTPUT")
    BY <2>1
  <2> QED
    BY <2>2, <2>3 DEF WantedOf, c
<1>3. WantedOf(genSetMarkChain) = {<<Shared("SETMARK"), JumpTo(Shared("MARK"))>>}
  <2> DEFINE c == genSetMarkChain
  <2>1. c.name = Shared("SETMARK") /\ c.rules = <<JumpTo(Shared("MARK"))>> /\ c.into = <<>>
    BY DEF genSetMarkChain, NatChain
  <2> HIDE DEF c
  <2>2. DOMAIN c.rules = {1} /\ c.rules[1] = JumpTo(Shared("MARK")) /\ DOMAIN c.into = {}
    BY <2>1
  <2> QED
    BY <2>1, <2>2 DEF WantedOf, c
<1>4. WantedOf(genMarkMasqChain) = {<<Shared("POSTROUTING"), JumpTo(Shared("MASQ"))>>,
                                    <<Shared("MASQ"), JumpTo(Shared("MASQUERADE"))>>}
  <2> DEFINE c == genMarkMasqChain
  <2>1. /\ c.name = Shared("MASQ") /\ c.rules = <<JumpTo(Shared("MASQUERADE"))>>
        /\ c.into = <<Shared("POSTROUTING")>> /\ c.entries = <<Always>>
    BY DEF genMarkMasqChain, NatChain
  <2> HIDE DEF c
  <2>2. EntryTo(c, 1) = JumpTo(Shared("MASQ")) /\ DOMAIN c.entries = {1}
    BY <2>1 DEF EntryTo, JumpTo
  <2>3. /\ DOMAIN c.rules = {1} /\ c.rules[1] = JumpTo(Shared("MASQUERADE"))
        /\ DOMAIN c.into = {1} /\ c.into[1] = Shared("POSTROUTING")
    BY <2>1
  <2> QED
    BY <2>1, <2>2, <2>3 DEF WantedOf, c
<1>5. Wanted(a, f) = WantedOf(genToplevelDnatChain) \cup WantedOf(genDnatChain(a, f)) \cup
                     IF SNAT[a] /\ ~ExternalMark
                     THEN WantedOf(genSetMarkChain) \cup WantedOf(genMarkMasqChain) ELSE {}
  BY DEF Wanted, ChainsOf
<1> QED
  BY <1>1, <1>2, <1>3, <1>4, <1>5 DEF SharedRules


LEMMA SharedFacts ==
  ASSUME NEW a \in Att, NEW w \in SharedRules(a)
  PROVE  /\ w[1] # HD /\ \A b \in Att : w[1] # DN(b)
         /\ \A b \in Att : w[2].to # DN(b) /\ w[2].to # OldSN(b)
<1>1. \A c : JumpTo(c).to = c
  BY DEF JumpTo, Always
<1>2. PICK n, o : w = <<Shared(n), JumpTo(Shared(o))>>
  BY DEF SharedRules, HD
<1>3. w[1] # HD
  BY ChainNames DEF SharedRules
<1>4. w[1] = Shared(n) /\ w[2].to = Shared(o)
  BY <1>1, <1>2
<1> QED
  BY <1>3, <1>4, ChainNames

\* What a call of portmap that is one of iptables does to the chain of b.
LEMMA DnStep ==
  ASSUME ChainInv, TablesOK, NEW a \in Att, PmTyped(a), IptStep(a, "portmap"), NEW k, k = Call(a),
         NEW f \in {4, 6}, NEW b \in Att, ToSet(DnRules(f, b)) \subseteq ToSet(fillDnatRules(b, f))
  PROVE  \/ DnRules(f, b)' = DnRules(f, b)
         \/ b = a /\ proc[a].cmd = "del" /\ DnRules(f, b)' = <<>>
         \/ /\ b = a /\ proc[a].cmd = "add" /\ f \in Usable \cap ContFams(a)
            /\ k.op = "insert" /\ k.t = NatTable(f) /\ k.c = DN(a)
            /\ Running(a, "portmap")' /\ proc'[a].cmd = "add" /\ proc'[a].todo = Rest(a)
            /\ k.r \in ToSet(fillDnatRules(a, f))
            /\ DnRules(f, b)' = DnRules(f, b) \o <<k.r>>
<1>1. /\ proc[a].cmd \in {"add", "del"}
      /\ proc[a].cmd = "add" => k.op = "abort" \/ (AddIpt(a, k) /\ k.op \in {"ensure", "unique", "insert"})
      /\ proc[a].cmd = "del" => PmDelCall(a, k) /\ k.op \notin {"unique", "ensure", "insert", "abort"}
      /\ k.op # "abort" => k.t \in Tables
  BY PmIptCalls
<1>2. \/ tables' = tables
      \/ /\ Running(a, "portmap")' /\ proc'[a].cmd = proc[a].cmd /\ k.op # "abort"
         /\ Effect(k) /\ proc'[a].todo = Rest(a)
  BY <1>1, IptOutcome DEF Goes
<1>3. CASE tables' = tables
  BY <1>3 DEF DnRules, RulesIn, ChainExists
<1>4. CASE /\ Running(a, "portmap")' /\ proc'[a].cmd = proc[a].cmd /\ k.op # "abort"
           /\ Effect(k) /\ proc'[a].todo = Rest(a)
  <2>1. NatTable(f) \in Tables /\ \A g : NatTable(f) = NatTable(g) => f = g
    BY IptAssumption DEF NatTable
  <2>2. CASE k.t # NatTable(f) \/ k.c # DN(b)
    BY <1>4, <2>1, <2>2 DEF Effect, OtherChains, DnRules
  <2>3. CASE k.t = NatTable(f) /\ k.c = DN(b)
    <3>1. DnRules(f, b) = RulesIn(k.t, k.c) /\ DnRules(f, b)' = RulesIn(k.t, k.c)'
      BY <2>3 DEF DnRules
    <3>2. CASE k.op = "insert"
      <4>1. proc[a].cmd = "add" /\ AddIpt(a, k)
        BY <1>1, <3>2
      <4>2. PICK g \in Usable \cap ContFams(a) :
                 /\ k.t = NatTable(g) /\ <<k.c, k.r>> \in Wanted(a, g)
                 /\ k.first => k.c = Shared("POSTROUTING")
        BY <3>2, <4>1 DEF AddIpt
      <4>3. g = f
        BY <2>1, <2>3, <4>2
      <4>4. b = a /\ k.r \in ToSet(fillDnatRules(a, f))
        <5>1. <<k.c, k.r>> \notin SharedRules(a)
          BY <2>3, SharedFacts
        <5>2. k.c # HD
          BY <2>3, ChainNames DEF HD
        <5> QED
          BY <2>3, <4>2, <4>3, <5>1, <5>2, WantedFacts, ChainNames
      <4>5. ~k.first
        BY <2>3, <4>2, ChainNames
      <4>6. DnRules(f, b)' = DnRules(f, b) \o <<k.r>>
        BY <1>4, <3>1, <3>2, <4>5 DEF Effect
      <4> QED
        BY <1>4, <2>3, <3>2, <4>1, <4>2, <4>3, <4>4, <4>6
    <3>3. CASE k.op \in {"clear", "delchain"}
      <4>1. proc[a].cmd = "del" /\ PmDelCall(a, k)
        BY <1>1, <3>3
      <4>2. k.c \in {DN(a), OldSN(a)}
        BY <3>3, <4>1 DEF PmDelCall
      <4>3. b = a
        BY <2>3, <4>2, ChainNames
      <4>4. DnRules(f, b)' = <<>>
        BY <1>4, <3>1, <3>3 DEF Effect
      <4> QED
        BY <4>1, <4>3, <4>4
    <3>4. CASE k.op = "delete"
      <4>1. PmDelCall(a, k)
        BY <1>1, <3>4
      <4>2. k.r.to \in {DN(a), OldSN(a)}
        BY <3>4, <4>1 DEF PmDelCall
      <4>3. k.r \notin ToSet(fillDnatRules(b, f))
        BY <4>2, FillTo
      <4>4. ~Exists(k.t, k.c, k.r)
        BY <2>1, <2>3, <4>3, RulesSeq DEF DnRules
      <4>5. tables' = tables
        <5>1. IsSeq(RulesIn(k.t, k.c))
          BY <2>1, <2>3, RulesSeq
        <5>2. \A p \in 1 .. Len(RulesIn(k.t, k.c)) : RulesIn(k.t, k.c)[p] # k.r
          BY <2>1, <2>3, <4>4, <5>1, RulesSeq, SeqFacts
        <5> QED
          BY <1>4, <3>4, <5>2 DEF Effect
      <4> QED
        BY <1>3, <4>5
    <3>5. CASE k.op \in {"ensure", "unique"}
      BY <1>3, <1>4, <3>1, <3>5 DEF Effect
    <3> QED
      BY <1>1, <1>4, <3>2, <3>3, <3>4, <3>5 DEF Effect
  <2> QED
    BY <2>2, <2>3
<1> QED
  BY <1>2, <1>3, <1>4


\* The chain of a that is to be cleared by a DEL.
LEMMA PendStep ==
  ASSUME ChainInv, TablesOK, NEW a \in Att, PmTyped(a), IptStep(a, "portmap"), proc[a].cmd = "del",
         NEW f \in Usable, ToSet(DnRules(f, a)) \subseteq ToSet(fillDnatRules(a, f)),
         DnRules(f, a) = <<>> \/ Pend(proc[a].todo, a, f), Running(a, "portmap")'
  PROVE  DnRules(f, a)' = <<>> \/ Pend(proc'[a].todo, a, f)
<1>0. PICK k, todo, rest, new : /\ k = Call(a) /\ todo = proc[a].todo /\ rest = Rest(a)
                                /\ new = proc'[a].todo
  OBVIOUS
<1>1. /\ k \in ToSet(todo) /\ todo # <<>> /\ PmDelCall(a, k)
      /\ k.op \notin {"unique", "ensure", "insert", "abort"} /\ k.t \in Tables
      /\ IsSeq(todo) /\ k = Head(todo) /\ rest = Tail(todo)
  BY <1>0, PmIptCalls DEF PmTyped, Call, Rest
<1>2. f \in {4, 6}
  BY PortmapAssumption
<1>3. \/ DnRules(f, a)' = DnRules(f, a)
      \/ DnRules(f, a)' = <<>>
  BY <1>0, <1>2, DnStep
<1>4. CASE DnRules(f, a) = <<>>
  BY <1>3, <1>4
<1>5. CASE Pend(proc[a].todo, a, f)
  <2> DEFINE I == {Clearing(a, f)}
             K == Loses(todo, a, f)
  <2>1. Clearing(a, f) \in ToSet(todo) /\ First(todo, I, K)
    BY <1>0, <1>5 DEF Pend
  <2>2. /\ IsSeq(rest) /\ ToSet(todo) = {k} \cup ToSet(rest)
        /\ k \notin K /\ (k # Clearing(a, f) => First(rest, I, K))
    BY <1>1, <2>1, TailSeq, TailFirst
  <2>3. k.fail = Failed \/ Clearing(a, f) \in ToSet(k.fail)
    BY <1>1, <2>2 DEF Loses
  <2>4. Goes(a, k)
    BY <1>0, <1>1, IptOutcome
  <2>5. CASE Effect(k) /\ new = rest
    <3>1. CASE k = Clearing(a, f)
      <4>1. k.op = "clear" /\ k.t = NatTable(f) /\ k.c = DN(a)
        BY <3>1 DEF Clearing, IptCall
      <4> QED
        BY <2>5, <4>1 DEF Effect, DnRules
    <3>2. CASE k # Clearing(a, f)
      <4>1. Clearing(a, f) \in ToSet(rest) /\ First(rest, I, K)
        BY <2>1, <2>2, <3>2
      <4>2. Loses(rest, a, f) \subseteq K
        BY <2>2 DEF Loses
      <4>3. First(rest, I, Loses(rest, a, f))
        <5> HIDE DEF I, K
        <5> QED
          BY <4>1, <4>2, FirstMono
      <4> QED
        BY <1>0, <2>5, <4>1, <4>3 DEF Pend
    <3> QED
      BY <3>1, <3>2
  <2>6. CASE k.op = "list" /\ new = rest
    <3>1. k # Clearing(a, f)
      BY <2>6 DEF Clearing, IptCall
    <3>2. Clearing(a, f) \in ToSet(rest) /\ First(rest, I, K)
      BY <2>1, <2>2, <3>1
    <3>3. Loses(rest, a, f) \subseteq K
      BY <2>2 DEF Loses
    <3>4. First(rest, I, Loses(rest, a, f))
      <4> HIDE DEF I, K
      <4> QED
        BY <3>2, <3>3, FirstMono
    <3> QED
      BY <1>0, <2>6, <3>2, <3>4 DEF Pend
  <2>7. CASE k.op = "list" /\ new = OnError(Deletes(k), k.fail) \o rest
    <3>1. k # Clearing(a, f)
      BY <2>7 DEF Clearing, IptCall
    <3>2. Clearing(a, f) \in ToSet(rest) /\ First(rest, I, K)
      BY <2>1, <2>2, <3>1
    <3> DEFINE d == OnError(Deletes(k), k.fail)
    <3>3. IsSeq(d) /\ \A x \in ToSet(d) : x.fail = k.fail
      BY <1>1, DeletesFacts
    <3> HIDE DEF d
    <3>4. IsSeq(d \o rest) /\ ToSet(d \o rest) = ToSet(d) \cup ToSet(rest)
      BY <2>2, <3>3, ConcatSeq
    <3> DEFINE L == Loses(d \o rest, a, f)
    <3>5. ToSet(d) \cap L = {} /\ ToSet(rest) \cap L \subseteq K
      BY <2>2, <2>3, <3>3, <3>4 DEF Loses
    <3>6. First(d, I, L)
      BY <3>5 DEF First, ToSet
    <3>7. First(rest, I, L)
      <4> HIDE DEF I, K, L
      <4> QED
        BY <3>2, <3>5, FirstMono
    <3>8. First(d \o rest, I, L)
      <4> HIDE DEF I, K, L
      <4> QED
        BY <2>2, <3>3, <3>6, <3>7, ConcatFirst
    <3>9. Clearing(a, f) \in ToSet(d \o rest)
      BY <3>2, <3>4
    <3> QED
      BY <1>0, <2>7, <3>8, <3>9 DEF Pend, d
  <2>8. CASE k.fail # Failed /\ new = IF k.fail = GoOn THEN rest ELSE k.fail
    <3>1. Clearing(a, f) \in ToSet(k.fail)
      BY <2>3, <2>8
    <3>2. k.fail = Six(a)
      BY <1>1, <2>8, <3>1, NoSeq DEF PmDelCall
    <3>3. new = Six(a) /\ Pend(Six(a), a, 6)
      BY <2>8, <3>2, SixFacts
    <3>4. Clearing(a, f).t = NatTable(6)
      BY <3>1, <3>2, SixFacts DEF TearsDown
    <3>5. f = 6
      BY <3>4 DEF Clearing, IptCall, NatTable
    <3> QED
      BY <1>0, <3>3, <3>5
  <2> QED
    BY <1>0, <1>1, <2>4, <2>5, <2>6, <2>7, <2>8 DEF Goes
<1> QED
  BY <1>4, <1>5


\* The tables of the families that work are listed whenever a DEL asks, or a
\* failure to list the only one ends it.
ListsWork == <<"portmap", "del">> \notin MayFail \/ \E f : Usable \subseteq {f}

NatOK(b, f) ==
    /\ ToSet(DnRules(f, b)) \subseteq ToSet(fillDnatRules(b, f))
    /\ Clear(b, "portmap") => DnRules(f, b) = <<>>
    /\ Running(b, "portmap") /\ proc[b].cmd = "del" /\ proc[b].todo # Start =>
           DnRules(f, b) = <<>> \/ Pend(proc[b].todo, b, f)

EntriesOK(f) ==
    \A e : Exists(NatTable(f), HD, e) => \E b \in Att : e \in Entries(b)

NatInv == \A f \in Usable : EntriesOK(f) /\ \A b \in Att : NatOK(b, f)

LEMMA FillSame ==
  ASSUME NEW b, NEW f, ip'[b] = ip[b]
  PROVE  fillDnatRules(b, f)' = fillDnatRules(b, f)
BY DEF fillDnatRules, MappingRules

\* A step that leaves the nat tables alone, and the processes of portmap.
LEMMA NatQuiet ==
  ASSUME NatInv, \A b \in Att : Quiet(b, "portmap"),
         \A f \in {4, 6} : \A c : RulesIn(NatTable(f), c)' = RulesIn(NatTable(f), c)
  PROVE  NatInv'
<1>1. ASSUME NEW f \in Usable PROVE EntriesOK(f)'
  <2>1. \A e : Exists(NatTable(f), HD, e)' => Exists(NatTable(f), HD, e)
    BY PortmapAssumption DEF Exists
  <2> QED
    BY <2>1 DEF NatInv, EntriesOK
<1>2. ASSUME NEW f \in Usable, NEW b \in Att PROVE NatOK(b, f)'
  <2>1. DnRules(f, b)' = DnRules(f, b)
    BY PortmapAssumption DEF DnRules
  <2>2. NatOK(b, f) /\ Quiet(b, "portmap")
    BY DEF NatInv
  <2>3. ToSet(DnRules(f, b)) \subseteq ToSet(fillDnatRules(b, f)')
    <3>1. CASE ip'[b] = ip[b]
      BY <2>2, <3>1, FillSame DEF NatOK
    <3>2. CASE Clear(b, "portmap")
      BY <2>2, <3>2, NoSeq DEF NatOK
    <3> QED
      BY <2>2, <3>1, <3>2 DEF Quiet
  <2>4. Clear(b, "portmap")' => DnRules(f, b) = <<>>
    BY <2>2 DEF NatOK, Quiet
  <2>5. ASSUME Running(b, "portmap")', proc'[b].cmd = "del", proc'[b].todo # Start
        PROVE  DnRules(f, b) = <<>> \/ Pend(proc'[b].todo, b, f)
    BY <2>2, <2>5 DEF NatOK, Quiet
  <2> QED
    BY <2>1, <2>3, <2>4, <2>5 DEF NatOK
<1> QED
  BY <1>1, <1>2 DEF NatInv

\* A DEL begins with the chains to be cleared, or there are none.
LEMMA DelStarts ==
  ASSUME ChainInv, ListsWork, NEW a \in Att, Running(a, "portmap"), PortmapStart(a),
         proc[a].cmd = "del", Running(a, "portmap")', NEW f \in Usable,
         ToSet(DnRules(f, a)) \subseteq ToSet(fillDnatRules(a, f)), TablesOK
  PROVE  DnRules(f, a) = <<>> \/ Pend(proc'[a].todo, a, f)
<1>1. ~Error(a)
  BY ErrorFacts
<1>2. PortmapDel(a)
  BY DEF PortmapStart, PortmapAdd, PortmapCheck
<1>3. CASE Mappings[a] = <<>>
  <2>1. FitOf(a, f) = {}
    BY <1>3 DEF FitOf
  <2>2. ToSet(fillDnatRules(a, f)) = {}
    BY <2>1, FillFacts
  <2>3. IsSeq(DnRules(f, a))
    BY IptAssumption, PortmapAssumption, RulesSeq DEF DnRules, NatTable
  <2> QED
    BY <2>2, <2>3, SeqFacts
<1>4. CASE UnforwardFound(a)
  <2>1. CASE Do(a, unforwardPorts(a, Usable))
    BY <2>1, DoFacts, UnforwardFacts
  <2>2. ASSUME NEW g \in Usable, Fault(a, IF Usable = {g} THEN Failed ELSE unforwardPorts(a, Usable \ {g}))
        PROVE  FALSE
    <3>1. <<"portmap", "del">> \in MayFail
      BY <2>2 DEF Fault, Running
    <3>2. Usable = {g}
      BY <3>1 DEF ListsWork
    <3> QED
      BY <2>2, <3>2, FaultFacts
  <2> QED
    BY <1>4, <2>1, <2>2 DEF UnforwardFound
<1> QED
  BY <1>1, <1>2, <1>3, <1>4 DEF PortmapDel

\* The entries of the shared chain.
LEMMA EntriesStep ==
  ASSUME ChainInv, TablesOK, NEW a \in Att, PmTyped(a), IptStep(a, "portmap"),
         NEW f \in Usable, EntriesOK(f)
  PROVE  EntriesOK(f)'
<1>0. PICK k : k = Call(a)
  OBVIOUS
<1>1. /\ proc[a].cmd \in {"add", "del"}
      /\ proc[a].cmd = "add" => k.op = "abort" \/ (AddIpt(a, k) /\ k.op \in {"ensure", "unique", "insert"})
      /\ proc[a].cmd = "del" => PmDelCall(a, k) /\ k.op \notin {"unique", "ensure", "insert", "abort"}
      /\ k.op # "abort" => k.t \in Tables
  BY <1>0, PmIptCalls
<1>2. TablesOK' /\ (tables' = tables \/ (k.op # "abort" /\ Effect(k)))
  BY <1>0, <1>1, IptOutcome DEF Goes
<1>3. CASE tables' = tables
  BY <1>3 DEF EntriesOK, Exists, RulesIn, ChainExists
<1>4. CASE k.op # "abort" /\ Effect(k)
  <2>1. NatTable(f) \in Tables /\ \A g : NatTable(f) = NatTable(g) => f = g
    BY IptAssumption, PortmapAssumption DEF NatTable
  <2> SUFFICES ASSUME NEW e, Exists(NatTable(f), HD, e)', ~Exists(NatTable(f), HD, e)
               PROVE  \E b \in Att : e \in Entries(b)
    BY DEF EntriesOK
  <2>2. Makes(k, NatTable(f), HD, e)
    BY <1>1, <1>2, <1>4, <2>1, EffectFacts
  <2>3. k.op = "insert" /\ k.t = NatTable(f) /\ k.c = HD /\ k.r = e
    BY <2>2 DEF Makes
  <2>4. AddIpt(a, k)
    BY <1>1, <2>3
  <2>5. <<HD, e>> \in Wanted(a, f)
    BY <2>1, <2>3, <2>4 DEF AddIpt
  <2>6. <<HD, e>> \notin SharedRules(a)
    BY SharedFacts
  <2>7. e \in Entries(a)
    BY <2>5, <2>6, WantedFacts, ChainNames DEF HD
  <2> QED
    BY <2>7
<1> QED
  BY <1>2, <1>3, <1>4

LEMMA NatOwn ==
  ASSUME ChainInv, CallsInv, OnePerChain, ListsWork, NatInv, NEW a \in Att,
         Running(a, "portmap"), PortmapStep(a)
  PROVE  NatInv'
<1>1. Steps(a) /\ ip' = ip /\ TablesOK
  BY PortmapSteps DEF Steps, CallsInv
<1>2. Running(a, "portmap")' => PmTyped(a)'
  BY PmTypedStep DEF CallsInv, PmCalls
<1>3. ASSUME IptStep(a, "portmap") PROVE PmTyped(a) /\ proc[a].todo # Start
  BY <1>3, IptOps, CallOps DEF CallsInv, PmCalls
<1>4. IptStep(a, "portmap") \/ (tables' = tables /\ ~IptStep(a, "portmap"))
  BY DEF PortmapStep, PortmapStart, enableLocalnetRouting, PurgeFlows
<1>5. ASSUME NEW f \in Usable PROVE EntriesOK(f)'
  <2>1. CASE IptStep(a, "portmap")
    BY <1>1, <1>3, <2>1, EntriesStep DEF NatInv
  <2>2. CASE tables' = tables
    BY <2>2 DEF NatInv, EntriesOK, Exists, RulesIn, ChainExists
  <2> QED
    BY <1>4, <2>1, <2>2
<1>6. ASSUME NEW f \in Usable, NEW b \in Att
      PROVE  /\ ToSet(DnRules(f, b)') \subseteq ToSet(fillDnatRules(b, f)')
             /\ b # a => DnRules(f, b)' = DnRules(f, b)
  <2>1. fillDnatRules(b, f)' = fillDnatRules(b, f)
    BY <1>1, FillSame
  <2>2. ToSet(DnRules(f, b)) \subseteq ToSet(fillDnatRules(b, f)) /\ f \in {4, 6}
    BY PortmapAssumption DEF NatInv, NatOK
  <2>3. CASE IptStep(a, "portmap")
    <3>1. PICK k : k = Call(a)
      OBVIOUS
    <3>2. \/ DnRules(f, b)' = DnRules(f, b)
          \/ b = a /\ DnRules(f, b)' = <<>>
          \/ b = a /\ k.r \in ToSet(fillDnatRules(a, f)) /\ DnRules(f, b)' = DnRules(f, b) \o <<k.r>>
      BY <1>1, <1>3, <2>2, <2>3, <3>1, DnStep
    <3>3. IsSeq(DnRules(f, b))
      BY <1>1, <2>2, IptAssumption, RulesSeq DEF DnRules, NatTable
    <3>4. ToSet(DnRules(f, b) \o <<k.r>>) = ToSet(DnRules(f, b)) \cup {k.r}
      BY <3>3, OneSeq, ConcatSeq
    <3> QED
      BY <2>1, <2>2, <3>2, <3>4, NoSeq
  <2>4. CASE tables' = tables
    BY <2>1, <2>2, <2>4 DEF DnRules, RulesIn, ChainExists
  <2> QED
    BY <1>4, <2>3, <2>4
<1>7. ASSUME NEW f \in Usable, Running(a, "portmap")', proc'[a].cmd = "del"
      PROVE  DnRules(f, a)' = <<>> \/ Pend(proc'[a].todo, a, f)
  <2>1. ToSet(DnRules(f, a)) \subseteq ToSet(fillDnatRules(a, f))
    BY DEF NatInv, NatOK
  <2>2. proc[a].cmd = "del"
    BY <1>1, <1>7, StepsFacts DEF Quit
  <2>3. CASE IptStep(a, "portmap")
    <3>1. DnRules(f, a) = <<>> \/ Pend(proc[a].todo, a, f)
      BY <1>3, <2>2, <2>3 DEF NatInv, NatOK
    <3> QED
      BY <1>1, <1>3, <1>7, <2>1, <2>2, <2>3, <3>1, PendStep
  <2>4. CASE PortmapStart(a)
    <3>1. DnRules(f, a)' = DnRules(f, a)
      BY <2>4 DEF PortmapStart, DnRules, RulesIn, ChainExists
    <3> QED
      BY <1>1, <1>7, <2>1, <2>2, <2>4, <3>1, DelStarts
  <2>5. CASE enableLocalnetRouting(a) \/ PurgeFlows(a)
    <3>1. proc[a].todo # <<>> /\ Call(a).op \in {"localnet", "purge"}
      BY <2>5 DEF enableLocalnetRouting, PurgeFlows, At, Call
    <3>2. PmTyped(a) /\ IsSeq(proc[a].todo)
      BY <3>1, CallOps DEF CallsInv, PmCalls, PmTyped
    <3>3. PmDelCall(a, Call(a))
      BY <2>2, <3>1, <3>2, CallOps DEF PmTyped
    <3> QED
      BY <3>1, <3>3 DEF PmDelCall
  <2> QED
    BY <2>3, <2>4, <2>5 DEF PortmapStep
<1>8. ASSUME NEW f \in Usable, NEW b \in Att \ {a} PROVE NatOK(b, f)'
  <2>1. PICK plugin : plugin = "portmap"
    OBVIOUS
  <2>2. /\ Plugins' = Plugins /\ proc'[b] = proc[b] /\ told'[b] = told[b]
        /\ Running(b, plugin)' <=> Running(b, plugin)
        /\ NotBegun(b, plugin)' <=> NotBegun(b, plugin)
        /\ Undone(b, plugin)' <=> Undone(b, plugin)
    BY <1>1, <2>1, OwnPlugin
  <2>3. Clear(b, plugin)' <=> Clear(b, plugin)
    BY <2>2 DEF Clear
  <2>4. NatOK(b, f) /\ DnRules(f, b)' = DnRules(f, b)
    BY <1>6 DEF NatInv
  <2> QED
    BY <1>6, <2>1, <2>2, <2>3, <2>4 DEF NatOK
<1>9. ASSUME NEW f \in Usable PROVE NatOK(a, f)'
  <2>1. PICK plugin : plugin = "portmap"
    OBVIOUS
  <2>2. /\ plugin \in Plugins' /\ told'[a] # "gone" /\ ~NotBegun(a, plugin)'
        /\ ~Running(a, plugin)' => ~Undone(a, plugin)'
        /\ Running(a, plugin)' /\ Undone(a, plugin)' => proc[a].cmd = "del" /\ proc'[a].todo = <<>>
        /\ Running(a, plugin)' => proc'[a].cmd = proc[a].cmd
    BY <1>1, <2>1, OwnPlugin
  <2>3. ASSUME Running(a, plugin)', proc'[a].cmd = "add" PROVE proc'[a].todo # Start
    <3>1. ASSUME proc'[a].todo = Start PROVE FALSE
      <4>1. PmAddCall(a, [op |-> "start"])'
        BY <1>2, <2>1, <2>3, <3>1, OneSeq DEF Start, PmTyped
      <4> QED
        BY <4>1 DEF PmAddCall, AddIpt
    <3> QED
      BY <3>1
  <2>4. ASSUME Clear(a, plugin)' PROVE DnRules(f, a)' = <<>>
    <3>1. Running(a, plugin)' /\ proc[a].cmd = "del" /\ proc'[a].todo = <<>>
      BY <2>2, <2>3, <2>4 DEF Clear
    <3>2. DnRules(f, a)' = <<>> \/ Pend(<<>>, a, f)
      BY <1>7, <2>1, <2>2, <3>1
    <3> QED
      BY <3>2, NoSeq DEF Pend
  <2> QED
    BY <1>6, <1>7, <2>1, <2>4 DEF NatOK
<1> QED
  BY <1>5, <1>8, <1>9 DEF NatInv


\* The calls of the firewall plugin leave the nat tables alone.
LEMMA FwNat ==
  ASSUME ChainInv, CallsInv, FwInv, NEW a \in Att, Running(a, "firewall"), FirewallStep(a)
  PROVE  \A f \in {4, 6} : \A c : /\ RulesIn(NatTable(f), c)' = RulesIn(NatTable(f), c)
                                  /\ ChainExists(NatTable(f), c)' <=> ChainExists(NatTable(f), c)
<1>1. CASE tables' = tables
  BY <1>1 DEF RulesIn, ChainExists
<1>2. CASE IptStep(a, "firewall")
  <2>1. FwRun(a)
    BY <1>2, IptOps, CallOps DEF FwInv, FwOK
  <2>2. PICK k : k = Call(a)
    OBVIOUS
  <2>3. /\ k.op \in {"ensure", "unique", "insert", "clear", "list", "delete", "delchain", "abort"}
        /\ k \in ToSet(proc[a].todo)
    BY <1>2, <2>1, <2>2, IptOps, CallOps DEF FwRun, FwGoes, FwTypes
  <2>4. k.op # "abort" => \E f \in FwFams[a] : k.t = Filter(f)
    BY <2>1, <2>3 DEF FwRun, FwGoes, FwTypes, FwCall, FwIptCall
  <2>5. \A f \in FwFams[a] : Filter(f) \in Tables
    BY IptAssumption, FirewallAssumption DEF Filter
  <2>6. tables' = tables \/ (k.op # "abort" /\ Effect(k))
    BY <1>2, <2>2, <2>4, <2>5, IptOutcome DEF Goes, CallsInv
  <2>7. \A f \in {4, 6} : NatTable(f) \in Tables /\ \A g : Filter(g) # NatTable(f)
    BY IptAssumption DEF Filter, NatTable
  <2> QED
    BY <1>1, <2>4, <2>6, <2>7 DEF Effect, OtherChains
<1> QED
  BY <1>1, <1>2 DEF FirewallStep, FirewallStart, LookForRules, FirewalldCall

LEMMA NatInit == Init => NatInv
<1> SUFFICES ASSUME Init, NEW f \in Usable PROVE EntriesOK(f) /\ \A b \in Att : NatOK(b, f)
  BY DEF NatInv
<1>1. NatTable(f) \in Tables /\ \A c : RulesIn(NatTable(f), c) = <<>>
  BY NoRulesFirst, IptAssumption, PortmapAssumption DEF NatTable
<1>2. EntriesOK(f)
  BY <1>1, NoSeq, HasSeq DEF EntriesOK, Exists
<1>3. PICK plugin : plugin = "portmap"
  OBVIOUS
<1>4. \A b \in Att : ~Running(b, plugin)
  BY IdleFirst
<1>5. \A b \in Att : NatOK(b, f)
  BY <1>1, <1>3, <1>4, NoSeq DEF NatOK, DnRules
<1> QED
  BY <1>2, <1>5

LEMMA NatNext ==
  ASSUME ChainInv, CallsInv, FwInv, OnePerChain, ListsWork, NatInv, [Next]_vars
  PROVE  NatInv'
<1>1. ASSUME NEW a \in Att, Running(a, "portmap"), PortmapStep(a) PROVE NatInv'
  BY <1>1, NatOwn
<1>2. ASSUME NEW a \in Att, Running(a, "firewall"), FirewallStep(a), \A b \in Att : Quiet(b, "portmap")
      PROVE  NatInv'
  BY <1>2, FwNat, NatQuiet
<1>3. CASE Elsewhere
  <2>1. \A f \in {4, 6} : \A c : RulesIn(NatTable(f), c)' = RulesIn(NatTable(f), c)
    BY <1>3 DEF Elsewhere, RulesIn, ChainExists
  <2> QED
    BY <1>3, <2>1, NatQuiet DEF Elsewhere
<1> QED
  BY <1>1, <1>2, <1>3, NextCases

LEMMA NatInvariant == OnePerChain /\ ListsWork => (Spec => []NatInv)
<1> SUFFICES ASSUME OnePerChain, ListsWork PROVE Spec => []NatInv
  OBVIOUS
<1>1. ChainInv /\ (CallsInv /\ FwInv) /\ NatInv /\ [Next]_vars => NatInv'
  BY NatNext
<1> QED
  BY <1>1, NatInit, ChainInvariant, CallsInvariant, PTL DEF Spec

\* The walk of the kernel has a first place among any.
LEMMA EarliestHit ==
  ASSUME NEW D \in SUBSET (Nat \X Nat), D # {}
  PROVE  \E h \in D : \A g \in D : ~Earlier(g, h)
<1>1. PICK x \in {h[1] : h \in D} : \A y \in {h[1] : h \in D} : x <= y
  <2>1. {h[1] : h \in D} \in SUBSET Nat /\ {h[1] : h \in D} # {}
    OBVIOUS
  <2> QED
    BY <2>1, LeastNat
<1> DEFINE E == {h \in D : h[1] = x}
<1>2. PICK z \in {h[2] : h \in E} : \A y \in {h[2] : h \in E} : z <= y
  <2>1. {h[2] : h \in E} \in SUBSET Nat /\ {h[2] : h \in E} # {}
    OBVIOUS
  <2> QED
    BY <2>1, LeastNat
<1>3. PICK h \in D : h[1] = x /\ h[2] = z
  BY <1>2
<1>4. ASSUME NEW g \in D, Earlier(g, h) PROVE FALSE
  <2>1. g[1] \in Nat /\ g[2] \in Nat /\ x \in Nat /\ z \in Nat
    BY <1>1, <1>2
  <2>2. x <= g[1] /\ (g[1] = x => z <= g[2])
    BY <1>1, <1>2
  <2> QED
    BY <1>3, <1>4, <2>1, <2>2 DEF Earlier
<1> QED
  BY <1>4

\* A hit of the walk: an entry that matches, and a rule of its chain that does.
LEMMA HitFacts ==
  ASSUME TablesOK, NEW f \in {4, 6}, NEW pkt, NEW h \in Hits(f, pkt),
         NEW entries, entries = RulesIn(NatTable(f), HD)
  PROVE  /\ h = <<h[1], h[2]>>
         /\ h[1] \in DOMAIN entries /\ h[1] \in Nat /\ Matches(entries[h[1]], pkt)
         /\ h[2] \in DOMAIN RulesIn(NatTable(f), entries[h[1]].to) /\ h[2] \in Nat
         /\ Matches(RulesIn(NatTable(f), entries[h[1]].to)[h[2]], pkt)
         /\ Target(f, h) = RulesIn(NatTable(f), entries[h[1]].to)[h[2]].to
<1>1. NatTable(f) \in Tables
  BY IptAssumption DEF NatTable
<1>2. \A c : DOMAIN RulesIn(NatTable(f), c) \subseteq Nat
  BY <1>1, RulesSeq, SeqFacts
<1>3. PICK i \in DOMAIN entries : /\ Matches(entries[i], pkt)
                                  /\ h \in {i} \X {j \in DOMAIN RulesIn(NatTable(f), entries[i].to) :
                                             Matches(RulesIn(NatTable(f), entries[i].to)[j], pkt)}
  BY DEF Hits, HD
<1>4. h[1] = i /\ h = <<h[1], h[2]>>
  BY <1>3
<1>5. Target(f, h) = RulesIn(NatTable(f), entries[h[1]].to)[h[2]].to
  BY DEF Target, HD
<1> QED
  BY <1>2, <1>3, <1>4, <1>5

LEMMA DnatFacts ==
  ASSUME TablesOK, NEW f \in {4, 6}, NEW pkt
  PROVE  /\ DnatHits(f, pkt) = {} => Dnat(f, pkt) = Local
         /\ DnatHits(f, pkt) # {} =>
               \E h \in DnatHits(f, pkt) : /\ Dnat(f, pkt) = Target(f, h)
                                           /\ \A g \in DnatHits(f, pkt) : ~Earlier(g, h)
<1>1. PICK D : D = DnatHits(f, pkt)
  OBVIOUS
<1>2. D \in SUBSET (Nat \X Nat)
  <2>1. PICK entries : entries = RulesIn(NatTable(f), HD)
    OBVIOUS
  <2> SUFFICES ASSUME NEW h \in Hits(f, pkt) PROVE h \in Nat \X Nat
    BY <1>1 DEF DnatHits
  <2> QED
    BY <2>1, HitFacts
<1>3. ASSUME D # {}
      PROVE  \E h \in D : Dnat(f, pkt) = Target(f, h) /\ \A g \in D : ~Earlier(g, h)
  <2>1. \E h \in D : \A g \in D : ~Earlier(g, h)
    BY <1>2, <1>3, EarliestHit
  <2>2. PICK h : h = CHOOSE x \in D : \A g \in D : ~Earlier(g, x)
    OBVIOUS
  <2>3. h \in D /\ \A g \in D : ~Earlier(g, h)
    BY <2>1, <2>2
  <2>4. Dnat(f, pkt) = Target(f, h)
    BY <1>1, <1>3, <2>2 DEF Dnat
  <2> QED
    BY <2>3, <2>4
<1>4. D = {} => Dnat(f, pkt) = Local
  BY <1>1 DEF Dnat
<1> QED
  BY <1>1, <1>3, <1>4


\* The fields of the rules of a mapping.
LEMMA DnatFields ==
  ASSUME NEW b, NEW m
  PROVE  /\ DnatOf(b, m).proto = m.proto /\ DnatOf(b, m).ports = <<m.host>>
         /\ DnatOf(b, m).from = "any" /\ DnatOf(b, m).to = <<"DNAT", <<ip[b], m.cont>>>>
         /\ DnatOf(b, m).dst = IF m.hip \in {"v4", "v6"} THEN m.hip ELSE "any"
BY DEF DnatOf, BaseOf, Always

LEMMA MarkFields ==
  ASSUME NEW m, NEW from
  PROVE  /\ MarkOf(m, from).proto = m.proto /\ MarkOf(m, from).ports = <<m.host>>
         /\ MarkOf(m, from).from = from /\ MarkOf(m, from).to = SetMark
         /\ MarkOf(m, from).dst = IF m.hip \in {"v4", "v6"} THEN m.hip ELSE "any"
BY DEF MarkOf, BaseOf, Always

\* A translation belongs to the attachment whose chain the entry leads to, and to
\* one of its mappings.
LEMMA DnatHitFacts ==
  ASSUME TablesOK, NEW f \in Usable, EntriesOK(f),
         \A b \in Att : ToSet(DnRules(f, b)) \subseteq ToSet(fillDnatRules(b, f)),
         NEW pkt, NEW h \in DnatHits(f, pkt), NEW entries, entries = RulesIn(NatTable(f), HD)
  PROVE  \E b \in Att : \E m \in FitOf(b, f) :
            /\ entries[h[1]] \in Entries(b)
            /\ h[2] \in DOMAIN DnRules(f, b) /\ DnRules(f, b)[h[2]] = DnatOf(b, m)
            /\ Target(f, h) = <<"DNAT", <<ip[b], m.cont>>>>
            /\ m.proto = pkt.proto /\ m.host = pkt.port
            /\ m.hip \in {"v4", "v6"} => pkt.dst = m.hip
<1>1. f \in {4, 6} /\ NatTable(f) \in Tables
  BY PortmapAssumption, IptAssumption DEF NatTable
<1>2. h \in Hits(f, pkt) /\ Target(f, h)[1] = "DNAT"
  BY DEF DnatHits
<1> DEFINE e == entries[h[1]]
<1>3. /\ h[1] \in DOMAIN entries
      /\ h[2] \in DOMAIN RulesIn(NatTable(f), e.to)
      /\ Matches(RulesIn(NatTable(f), e.to)[h[2]], pkt)
      /\ Target(f, h) = RulesIn(NatTable(f), e.to)[h[2]].to
  BY <1>1, <1>2, HitFacts
<1>4. IsSeq(entries) /\ e \in ToSet(entries)
  BY <1>1, <1>3, RulesSeq, SeqFacts
<1>5. PICK b \in Att : e \in Entries(b)
  BY <1>1, <1>4, RulesSeq DEF EntriesOK
<1>6. e.to = DN(b)
  BY <1>5, EntriesFacts
<1> DEFINE r == DnRules(f, b)[h[2]]
<1>7. h[2] \in DOMAIN DnRules(f, b) /\ Matches(r, pkt) /\ Target(f, h) = r.to
  BY <1>3, <1>6 DEF DnRules
<1>8. r \in ToSet(DnRules(f, b))
  BY <1>7 DEF ToSet
<1>9. PICK m \in FitOf(b, f) : r = DnatOf(b, m)
  BY <1>2, <1>7, <1>8, FillTo
<1>10. PICK i \in DOMAIN Mappings[b] : m = Mappings[b][i]
  BY DEF FitOf
<1>11. m.proto # "any" /\ m.hip \in Hosts
  BY <1>10, MappingFacts
<1>12. /\ r.proto = m.proto /\ r.ports = <<m.host>> /\ r.to = <<"DNAT", <<ip[b], m.cont>>>>
       /\ r.dst = IF m.hip \in {"v4", "v6"} THEN m.hip ELSE "any"
  BY <1>9, DnatFields
<1>13. m.proto = pkt.proto /\ (m.hip \in {"v4", "v6"} => pkt.dst = m.hip)
  BY <1>7, <1>11, <1>12 DEF Matches
<1>14. m.host = pkt.port
  <2>1. <<m.host>> # <<>> /\ Contains(<<m.host>>, pkt.port)
    BY <1>7, <1>12 DEF Matches
  <2>2. pkt.port \in ToSet(<<m.host>>)
    BY <2>1, OneSeq, HasSeq
  <2> QED
    BY <2>2, OneSeq
<1>15. DnRules(f, b)[h[2]] = DnatOf(b, m) /\ entries[h[1]] \in Entries(b)
  BY <1>5, <1>9
<1>16. Target(f, h) = <<"DNAT", <<ip[b], m.cont>>>>
  BY <1>7, <1>12
<1> QED
  BY <1>7, <1>13, <1>14, <1>15, <1>16

(* A packet is never sent to an attachment that is gone, or to a port it   *)
(* has not mapped: for any number of attachments and mappings, whatever    *)
(* command of which attachment failed or was killed (cmdAdd, cmdDel and    *)
(* unforwardPorts of plugins/meta/portmap). *)
THEOREM NothingGoesAstray == OnePerChain /\ ListsWork => (Spec => []NoStrayForward)
<1> SUFFICES ASSUME OnePerChain, ListsWork PROVE Spec => []NoStrayForward
  OBVIOUS
<1>1. CallsInv /\ FwInv /\ NatInv => NoStrayForward
  <2> SUFFICES ASSUME CallsInv, NatInv, NEW f \in Usable, NEW pkt \in Packets, Dnat(f, pkt) # Local
               PROVE  \E a \in Att : \E i \in DOMAIN Mappings[a] :
                         /\ told[a] # "gone"
                         /\ PortOf(Mappings[a][i]) = <<pkt.proto, pkt.port>>
                         /\ Dnat(f, pkt) = <<"DNAT", <<ip[a], Mappings[a][i].cont>>>>
    BY DEF NoStrayForward
  <2>1. f \in {4, 6} /\ TablesOK
    BY PortmapAssumption DEF CallsInv
  <2>2. PICK h \in DnatHits(f, pkt) : Dnat(f, pkt) = Target(f, h)
    BY <2>1, DnatFacts
  <2>3. PICK entries : entries = RulesIn(NatTable(f), HD)
    OBVIOUS
  <2>4. EntriesOK(f) /\ \A b \in Att : NatOK(b, f)
    BY DEF NatInv
  <2>5. \A b \in Att : ToSet(DnRules(f, b)) \subseteq ToSet(fillDnatRules(b, f))
    BY <2>4 DEF NatOK
  <2>6. PICK a \in Att : \E m \in FitOf(a, f) :
            /\ h[2] \in DOMAIN DnRules(f, a)
            /\ Target(f, h) = <<"DNAT", <<ip[a], m.cont>>>>
            /\ m.proto = pkt.proto /\ m.host = pkt.port
    BY <2>1, <2>3, <2>4, <2>5, DnatHitFacts
  <2>7. PICK m \in FitOf(a, f) :
            /\ h[2] \in DOMAIN DnRules(f, a)
            /\ Target(f, h) = <<"DNAT", <<ip[a], m.cont>>>>
            /\ m.proto = pkt.proto /\ m.host = pkt.port
    BY <2>6
  <2>8. told[a] # "gone"
    <3>1. ~Clear(a, "portmap")
      BY <2>4, <2>7 DEF NatOK
    <3> QED
      BY <3>1 DEF Clear
  <2>9. PICK i \in DOMAIN Mappings[a] : m = Mappings[a][i]
    BY DEF FitOf
  <2> QED
    BY <2>2, <2>7, <2>8, <2>9 DEF PortOf
<1> QED
  BY <1>1, CallsInvariant, NatInvariant, PTL


-----------------------------------------------------------------------------
(* What an ADD of portmap has done, and what is left of it.                *)

\* A call that makes a rule that is wanted.
PmMakes(k, f, w) ==
    k.op \in {"unique", "insert"} /\ k.t = NatTable(f) /\ k.c = w[1] /\ k.r = w[2]

Makers(s, f, w) == {k \in ToSet(s) : PmMakes(k, f, w)}
Purges(s, f) == {k \in ToSet(s) : k.op = "purge" /\ k.f = f}

PmPlaced(f, w) == Exists(NatTable(f), w[1], w[2])
AllPlaced(a, f) == \A w \in Wanted(a, f) : PmPlaced(f, w)

\* Among the calls s, what makes w comes before the calls of K, or w is there.
MadeFirst(s, f, w, K) == PmPlaced(f, w) \/ First(s, Makers(s, f, w), K)

\* A translation is not made before its marks.
PmMarks(a, f, s) ==
    \A m \in FitOf(a, f) : \A mark \in MarksOf(a, f, m) :
        MadeFirst(s, f, <<DN(a), mark>>, Makers(s, f, <<DN(a), DnatOf(a, m)>>))

\* No flow is purged before the rules are there.
PmPurgesLast(a, f, s) == \A w \in Wanted(a, f) : MadeFirst(s, f, w, Purges(s, f))

PmComes(a, f, s) == \A w \in Wanted(a, f) : PmPlaced(f, w) \/ Makers(s, f, w) # {}

\* The mappings whose packets NoStaleFlow is about.
UdpOf(a, f) == {m \in FitOf(a, f) : m.proto = "udp" /\ m.hip = "none"}

FlowOK(a, f, m) == flows[f][m.host] \in {NoFlow, <<"DNAT", <<ip[a], m.cont>>>>}

\* The flows of the mappings are still to be purged, or lead to the attachment.
PmFlows(a, f, s) ==
    a \in logged \/ \A m \in UdpOf(a, f) :
        \/ \E k \in Purges(s, f) : m.host \in ToSet(k.ports)
        \/ FlowOK(a, f, m) /\ AllPlaced(a, f)

PmFamily(a, f, s) == PmMarks(a, f, s) /\ PmPurgesLast(a, f, s) /\ PmFlows(a, f, s)

PmAll(a, s) == ContFams(a) \subseteq Usable /\ \A f \in ContFams(a) : PmComes(a, f, s)

PmAdding(a, s) ==
    /\ \A f \in Usable \cap ContFams(a) : PmFamily(a, f, s)
    /\ [op |-> "abort"] \in ToSet(s) \/ Mappings[a] = <<>> \/ PmAll(a, s)

\* In the chain of a, each translation comes after its marks.
MarksFirst(a, f) ==
    \A m \in FitOf(a, f) : \A mark \in MarksOf(a, f, m) :
        First(DnRules(f, a), {mark}, {DnatOf(a, m)})

PmOK(a) ==
    /\ Done(a, "portmap") => PmAdding(a, <<>>)
    /\ Running(a, "portmap") /\ proc[a].cmd = "add" /\ proc[a].todo # Start => PmAdding(a, proc[a].todo)
    /\ \A f \in Usable : MarksFirst(a, f)

FlowsTyped == flows = [f \in Usable |-> [p \in UdpPorts |-> flows[f][p]]]

PmInv == FlowsTyped /\ \A a \in Att : PmOK(a)

\* An attachment does not map one port of one address to two ports of its own.
OneMeaning ==
    \A a \in Att : \A m, n \in ToSet(Mappings[a]) : \A f \in {4, 6} : \A pkt \in Packets :
        For(m, f, pkt) /\ For(n, f, pkt) => m.cont = n.cont

\* The marking is the plugin's own, or there is none.
OwnMark == ExternalMark => \A a \in Att : ~SNAT[a]

LEMMA HitMade ==
  ASSUME NEW f, NEW pkt, NEW entries, entries = RulesIn(NatTable(f), HD),
         PmPlaced(f, <<Shared("PREROUTING"), JumpTo(HD)>>), PmPlaced(f, <<Shared("OUTPUT"), JumpTo(HD)>>),
         NEW b, NEW i \in DOMAIN entries, Matches(entries[i], pkt), entries[i].to = DN(b),
         NEW j \in DOMAIN DnRules(f, b), Matches(DnRules(f, b)[j], pkt)
  PROVE  <<i, j>> \in Hits(f, pkt) /\ Target(f, <<i, j>>) = DnRules(f, b)[j].to
<1>1. Exists(NatTable(f), Shared(IF pkt.from = "localhost" THEN "OUTPUT" ELSE "PREROUTING"), JumpTo(HD))
  BY DEF PmPlaced
<1>2. j \in {n \in DOMAIN RulesIn(NatTable(f), entries[i].to) :
                Matches(RulesIn(NatTable(f), entries[i].to)[n], pkt)}
  BY DEF DnRules
<1>3. <<i, j>> \in {i} \X {n \in DOMAIN RulesIn(NatTable(f), entries[i].to) :
                Matches(RulesIn(NatTable(f), entries[i].to)[n], pkt)}
  BY <1>2
<1>4. i \in {n \in DOMAIN entries : Matches(entries[n], pkt)}
  OBVIOUS
<1>5. <<i, j>> \in Hits(f, pkt)
  BY <1>1, <1>3, <1>4 DEF Hits, HD
<1>6. Target(f, <<i, j>>) = DnRules(f, b)[j].to
  BY DEF Target, HD, DnRules
<1> QED
  BY <1>5, <1>6

\* The rules of a mapping that a packet is for match it.
LEMMA RulesMatch ==
  ASSUME NEW a \in Att, NEW f \in {4, 6}, NEW m \in FitOf(a, f), NEW pkt, For(m, f, pkt)
  PROVE  /\ Matches(DnatOf(a, m), pkt) /\ Matches(MarkOf(m, pkt.from), pkt)
         /\ \E e \in Entries(a) : Matches(e, pkt) /\ e.to = DN(a)
<1>1. pkt.proto = m.proto /\ pkt.port = m.host /\ (m.hip \in {"v4", "v6"} => pkt.dst = m.hip)
  BY DEF For
<1>2. Contains(<<m.host>>, pkt.port)
  BY <1>1, OneSeq, HasSeq
<1>3. Matches(DnatOf(a, m), pkt)
  BY <1>1, <1>2, DnatFields DEF Matches
<1>4. PICK from : from = pkt.from
  OBVIOUS
<1>5. Matches(MarkOf(m, from), pkt)
  <2>1. PICK r : r = MarkOf(m, from)
    OBVIOUS
  <2>2. /\ r.proto = m.proto /\ r.ports = <<m.host>> /\ r.from = from
        /\ r.dst = IF m.hip \in {"v4", "v6"} THEN m.hip ELSE "any"
    BY <2>1, MarkFields
  <2> QED
    BY <1>1, <1>2, <1>4, <2>1, <2>2 DEF Matches
<1>6. \E e \in Entries(a) : Matches(e, pkt) /\ e.to = DN(a)
  <2>1. PICK n \in DOMAIN Mappings[a] : m = Mappings[a][n]
    BY DEF FitOf
  <2>2. PICK ports : /\ IsSeq(ports) /\ m.host \in ToSet(ports)
                     /\ EntryOf(a, m.proto, ports) \in ToSet(EntryRules(a))
    BY <2>1, EntryFacts
  <2>3. PICK e : e = [EntryOf(a, m.proto, ports) EXCEPT !.to = DN(a)]
    OBVIOUS
  <2>4. e \in Entries(a)
    BY <2>2, <2>3 DEF Entries
  <2>5. e.proto = m.proto /\ e.ports = ports /\ e.from = "any" /\ e.dst = "any" /\ e.to = DN(a)
    BY <2>3 DEF EntryOf, Always
  <2>6. Contains(ports, pkt.port)
    BY <1>1, <2>2, HasSeq
  <2> QED
    BY <1>1, <2>4, <2>5, <2>6 DEF Matches
<1> QED
  BY <1>3, <1>4, <1>5, <1>6


\* A packet to a mapped port goes to the attachment, when all its rules are there.
LEMMA Reaches ==
  ASSUME TablesOK, NatInv, OneMeaning, NEW f \in Usable, NEW a \in Att, AllPlaced(a, f),
         NEW m \in FitOf(a, f), NEW pkt \in Packets, For(m, f, pkt)
  PROVE  /\ Dnat(f, pkt) = <<"DNAT", <<ip[a], m.cont>>>>
         /\ \E h \in DnatHits(f, pkt) : \E n \in FitOf(a, f) :
               /\ \A g \in DnatHits(f, pkt) : ~Earlier(g, h)
               /\ For(n, f, pkt) /\ RulesIn(NatTable(f), HD)[h[1]].to = DN(a)
               /\ h[2] \in DOMAIN DnRules(f, a) /\ DnRules(f, a)[h[2]] = DnatOf(a, n)
<1>1. f \in {4, 6} /\ NatTable(f) \in Tables
  BY PortmapAssumption, IptAssumption DEF NatTable
<1>2. PICK entries : entries = RulesIn(NatTable(f), HD)
  OBVIOUS
<1>3. PICK e \in Entries(a) : Matches(e, pkt) /\ e.to = DN(a)
  BY <1>1, RulesMatch
<1>4. /\ PmPlaced(f, <<HD, e>>) /\ PmPlaced(f, <<DN(a), DnatOf(a, m)>>)
      /\ PmPlaced(f, <<Shared("PREROUTING"), JumpTo(HD)>>)
      /\ PmPlaced(f, <<Shared("OUTPUT"), JumpTo(HD)>>)
  <2>1. <<HD, e>> \in Wanted(a, f)
    BY <1>3, WantedFacts
  <2>2. DnatOf(a, m) \in ToSet(fillDnatRules(a, f))
    BY FillFacts
  <2>3. <<DN(a), DnatOf(a, m)>> \in Wanted(a, f)
    BY <2>2, WantedFacts
  <2>4. SharedRules(a) \subseteq Wanted(a, f)
    BY WantedFacts
  <2> QED
    BY <2>1, <2>3, <2>4 DEF AllPlaced, SharedRules
<1>5. PICK i \in DOMAIN entries : entries[i] = e
  <2>1. e \in ToSet(entries)
    BY <1>1, <1>2, <1>4, RulesSeq DEF PmPlaced
  <2> QED
    BY <2>1 DEF ToSet
<1>6. PICK j \in DOMAIN DnRules(f, a) : DnRules(f, a)[j] = DnatOf(a, m)
  <2>1. DnatOf(a, m) \in ToSet(DnRules(f, a))
    BY <1>1, <1>4, RulesSeq DEF PmPlaced, DnRules
  <2> QED
    BY <2>1 DEF ToSet
<1>7. <<i, j>> \in DnatHits(f, pkt)
  <2>1. Matches(DnRules(f, a)[j], pkt)
    BY <1>1, <1>6, RulesMatch
  <2>2. Matches(entries[i], pkt) /\ entries[i].to = DN(a)
    BY <1>3, <1>5
  <2>3. <<i, j>> \in Hits(f, pkt) /\ Target(f, <<i, j>>) = DnRules(f, a)[j].to
    BY <1>2, <1>4, <2>1, <2>2, HitMade
  <2>4. Target(f, <<i, j>>)[1] = "DNAT"
    BY <1>6, <2>3, DnatFields
  <2> QED
    BY <2>3, <2>4 DEF DnatHits
<1>8. PICK h \in DnatHits(f, pkt) : /\ Dnat(f, pkt) = Target(f, h)
                                    /\ \A g \in DnatHits(f, pkt) : ~Earlier(g, h)
  BY <1>1, <1>7, DnatFacts
<1>9. EntriesOK(f) /\ \A b \in Att : ToSet(DnRules(f, b)) \subseteq ToSet(fillDnatRules(b, f))
  BY DEF NatInv, NatOK
<1>10. PICK b \in Att : \E n \in FitOf(b, f) :
            /\ entries[h[1]] \in Entries(b)
            /\ h[2] \in DOMAIN DnRules(f, b) /\ DnRules(f, b)[h[2]] = DnatOf(b, n)
            /\ Target(f, h) = <<"DNAT", <<ip[b], n.cont>>>>
            /\ n.proto = pkt.proto /\ n.host = pkt.port
            /\ n.hip \in {"v4", "v6"} => pkt.dst = n.hip
  BY <1>2, <1>9, DnatHitFacts
<1>11. PICK n \in FitOf(b, f) :
            /\ entries[h[1]] \in Entries(b)
            /\ h[2] \in DOMAIN DnRules(f, b) /\ DnRules(f, b)[h[2]] = DnatOf(b, n)
            /\ Target(f, h) = <<"DNAT", <<ip[b], n.cont>>>>
            /\ n.proto = pkt.proto /\ n.host = pkt.port
            /\ n.hip \in {"v4", "v6"} => pkt.dst = n.hip
  BY <1>10
<1>12. m \in ToSet(Mappings[a]) /\ n \in ToSet(Mappings[b]) /\ Fits(n, f)
  BY MappingFacts DEF FitOf
<1>13. b = a
  BY <1>11, <1>12, PortsApart DEF PortOf, For
<1>14. For(n, f, pkt)
  BY <1>11, <1>12 DEF For, Fits
<1>15. n.cont = m.cont
  BY <1>1, <1>12, <1>13, <1>14 DEF OneMeaning
<1>16. entries[h[1]].to = DN(a)
  BY <1>11, <1>13, EntriesFacts
<1>17. Dnat(f, pkt) = <<"DNAT", <<ip[a], m.cont>>>>
  BY <1>8, <1>11, <1>13, <1>15
<1> QED
  BY <1>2, <1>8, <1>11, <1>13, <1>14, <1>16, <1>17

\* And its answer comes back through the host.
LEMMA ComesBack ==
  ASSUME TablesOK, NatInv, OneMeaning, OwnMark, NEW f \in Usable, NEW a \in Att, AllPlaced(a, f),
         MarksFirst(a, f), NEW m \in FitOf(a, f), NEW pkt \in Packets, For(m, f, pkt),
         SNAT[a], pkt.from = ip[a] \/ (pkt.from = "localhost" /\ f = 4)
  PROVE  Masqueraded(f, pkt)
<1>1. f \in {4, 6} /\ NatTable(f) \in Tables
  BY PortmapAssumption, IptAssumption DEF NatTable
<1>2. PICK entries, from : entries = RulesIn(NatTable(f), HD) /\ from = pkt.from
  OBVIOUS
<1>3. PICK h \in DnatHits(f, pkt) : \E n \in FitOf(a, f) :
         /\ \A g \in DnatHits(f, pkt) : ~Earlier(g, h)
         /\ For(n, f, pkt) /\ entries[h[1]].to = DN(a)
         /\ h[2] \in DOMAIN DnRules(f, a) /\ DnRules(f, a)[h[2]] = DnatOf(a, n)
  BY <1>2, Reaches
<1>4. PICK n \in FitOf(a, f) :
         /\ \A g \in DnatHits(f, pkt) : ~Earlier(g, h)
         /\ For(n, f, pkt) /\ entries[h[1]].to = DN(a)
         /\ h[2] \in DOMAIN DnRules(f, a) /\ DnRules(f, a)[h[2]] = DnatOf(a, n)
  BY <1>3
<1>5. MarkOf(n, from) \in MarksOf(a, f, n)
  BY <1>2 DEF MarksOf
<1>6. PICK j \in DOMAIN DnRules(f, a) : j < h[2] /\ DnRules(f, a)[j] = MarkOf(n, from)
  <2>1. First(DnRules(f, a), {MarkOf(n, from)}, {DnatOf(a, n)})
    BY <1>5 DEF MarksFirst
  <2> QED
    BY <1>4, <2>1 DEF First
<1>7. SharedRules(a) \subseteq Wanted(a, f) /\ ~ExternalMark
  BY WantedFacts DEF OwnMark
<1>8. /\ PmPlaced(f, <<Shared("PREROUTING"), JumpTo(HD)>>)
      /\ PmPlaced(f, <<Shared("OUTPUT"), JumpTo(HD)>>)
      /\ Exists(NatTable(f), Shared("SETMARK"), JumpTo(Shared("MARK")))
      /\ Exists(NatTable(f), Shared("POSTROUTING"), JumpTo(Shared("MASQ")))
      /\ Exists(NatTable(f), Shared("MASQ"), JumpTo(Shared("MASQUERADE")))
  BY <1>7 DEF AllPlaced, PmPlaced, SharedRules
<1>9. h \in Hits(f, pkt)
  BY DEF DnatHits
<1>10. /\ h[1] \in DOMAIN entries /\ h[1] \in Nat /\ Matches(entries[h[1]], pkt) /\ h[2] \in Nat
  BY <1>1, <1>2, <1>9, HitFacts
<1>11. Matches(DnRules(f, a)[j], pkt)
  BY <1>1, <1>2, <1>4, <1>6, RulesMatch
<1>12. PICK i : i = h[1]
  OBVIOUS
<1>13. <<i, j>> \in Hits(f, pkt) /\ Target(f, <<i, j>>) = DnRules(f, a)[j].to
  BY <1>2, <1>4, <1>8, <1>10, <1>11, <1>12, HitMade
<1>14. Target(f, <<i, j>>) = Shared("SETMARK")
  BY <1>6, <1>7, <1>13, MarkFields DEF SetMark
<1>15. ASSUME NEW g \in DnatHits(f, pkt), Earlier(g, <<i, j>>) PROVE FALSE
  <2>1. g \in Hits(f, pkt)
    BY DEF DnatHits
  <2>2. g[1] \in Nat /\ g[2] \in Nat
    BY <1>1, <1>2, <2>1, HitFacts
  <2>3. j \in Nat
    BY <1>1, RulesSeq, SeqFacts DEF DnRules
  <2>4. g[1] < h[1] \/ (g[1] = h[1] /\ g[2] < j)
    BY <1>12, <1>15 DEF Earlier
  <2>5. Earlier(g, h)
    BY <1>6, <1>10, <2>2, <2>3, <2>4 DEF Earlier
  <2> QED
    BY <1>4, <2>5
<1> QED
  BY <1>8, <1>13, <1>14, <1>15 DEF Masqueraded


\* The calls that set up a chain, in their order.
LEMMA SetupOrder ==
  ASSUME NEW f, NEW c, IsSeq(c.rules), IsSeq(c.into), IsSeq(c.entries), NEW r1, NEW r2,
         First(c.rules, {r1}, {r2}), \A j \in DOMAIN c.into : c.into[j] # c.name,
         NEW I, NEW K, Unique(NatTable(f), c.name, r1, FALSE) \in I,
         \A k \in K : PmMakes(k, f, <<c.name, r2>>)
  PROVE  First(setup(f, c), I, K)
<1> DEFINE q == <<Ensure(NatTable(f), c.name)>>
           rs == [i \in DOMAIN c.rules |-> Unique(NatTable(f), c.name, c.rules[i], FALSE)]
           es(j) == [i \in DOMAIN c.entries |->
                        Unique(NatTable(f), c.into[j], EntryTo(c, i), c.prepend)]
           qs == [j \in DOMAIN c.into |-> es(j)]
<1>1. IsSeq(q) /\ First(q, I, K)
  <2>1. IsSeq(q) /\ ToSet(q) = {Ensure(NatTable(f), c.name)}
    BY OneSeq
  <2>2. Ensure(NatTable(f), c.name) \notin K
    BY DEF PmMakes, Ensure, IptCall
  <2> HIDE DEF q
  <2> QED
    BY <2>1, <2>2 DEF First, ToSet
<1>2. IsSeq(rs) /\ First(rs, I, K)
  <2>1. /\ \A i \in DOMAIN c.rules : rs[i] = Unique(NatTable(f), c.name, c.rules[i], FALSE)
        /\ DOMAIN rs = DOMAIN c.rules /\ rs = [i \in DOMAIN c.rules |-> rs[i]]
    OBVIOUS
  <2> HIDE DEF rs
  <2>2. IsSeq(rs)
    BY <2>1, LikeSeq
  <2>3. \A x : Unique(NatTable(f), c.name, x, FALSE).r = x
    BY DEF Unique, IptCall
  <2>4. \A i \in DOMAIN rs : rs[i] \in K => c.rules[i] = r2
    BY <2>1, <2>3 DEF PmMakes
  <2>5. \A i \in DOMAIN rs : c.rules[i] = r1 => rs[i] \in I
    BY <2>1
  <2>6. First(rs, I, K)
    BY <2>1, <2>4, <2>5 DEF First
  <2> QED
    BY <2>2, <2>6
<1>3. ASSUME NEW j \in DOMAIN c.into
      PROVE  IsSeq(es(j)) /\ First(es(j), I, K)
  <2> DEFINE e == es(j)
  <2>1. /\ \A i \in DOMAIN c.entries : e[i] = Unique(NatTable(f), c.into[j], EntryTo(c, i), c.prepend)
        /\ e = [i \in DOMAIN c.entries |-> e[i]] /\ DOMAIN e = DOMAIN c.entries
    OBVIOUS
  <2> HIDE DEF e
  <2>2. IsSeq(e)
    BY <2>1, LikeSeq
  <2>3. \A i \in DOMAIN e : e[i].c = c.into[j]
    <3>1. \A t, d, r, first : Unique(t, d, r, first).c = d
      BY DEF Unique, IptCall
    <3> QED
      BY <2>1, <3>1
  <2>4. \A i \in DOMAIN e : e[i] \notin K
    BY <2>3 DEF PmMakes
  <2>5. IsSeq(e) /\ First(e, I, K)
    BY <2>2, <2>4 DEF First
  <2> QED
    BY <2>5 DEF e
<1>4. IsSeq(qs) /\ DOMAIN qs = DOMAIN c.into /\ \A j \in DOMAIN qs : qs[j] = es(j)
  <2>1. /\ \A j \in DOMAIN c.into : qs[j] = es(j)
        /\ qs = [j \in DOMAIN c.into |-> qs[j]] /\ DOMAIN qs = DOMAIN c.into
    OBVIOUS
  <2> HIDE DEF qs, es
  <2> QED
    BY <2>1, LikeSeq
<1>5. setup(f, c) = (q \o rs) \o FlattenSeq(qs)
  BY DEF setup
<1> HIDE DEF q, rs, es, qs
<1>6. IsSeq(FlattenSeq(qs)) /\ First(FlattenSeq(qs), I, K)
  <2>1. \A j \in DOMAIN qs : IsSeq(qs[j]) /\ First(qs[j], I, K)
    BY <1>3, <1>4
  <2> QED
    BY <1>4, <2>1, FlattenFacts
<1>7. IsSeq(q \o rs) /\ First(q \o rs, I, K)
  BY <1>1, <1>2, ConcatSeq, ConcatFirst
<1> QED
  BY <1>5, <1>6, <1>7, ConcatFirst

\* A shared chain: nothing of it is in the chain of an attachment.
LEMMA SharedSetup ==
  ASSUME NEW a \in Att, NEW f,
         NEW c \in {genToplevelDnatChain, genSetMarkChain, genMarkMasqChain},
         IsSeq(c.rules), IsSeq(c.into), IsSeq(c.entries)
  PROVE  \A k \in ToSet(setup(f, c)) : \A r : ~PmMakes(k, f, <<DN(a), r>>)
<1>1. c.name # DN(a) /\ \A j \in DOMAIN c.into : c.into[j] # DN(a)
  <2>1. CASE c = genToplevelDnatChain
    BY <2>1, ChainNames DEF genToplevelDnatChain, NatChain
  <2>2. CASE c = genSetMarkChain
    BY <2>2, ChainNames DEF genSetMarkChain, NatChain
  <2>3. CASE c = genMarkMasqChain
    BY <2>3, ChainNames DEF genMarkMasqChain, NatChain
  <2> QED
    BY <2>1, <2>2, <2>3
<1> SUFFICES ASSUME NEW k \in ToSet(setup(f, c)), NEW r, PmMakes(k, f, <<DN(a), r>>) PROVE FALSE
  OBVIOUS
<1>2. k.op \in {"unique", "insert"} /\ k.c = DN(a)
  BY DEF PmMakes
<1>3. CASE k = Ensure(NatTable(f), c.name)
  BY <1>2, <1>3 DEF Ensure, IptCall
<1>4. CASE \E w \in WantedOf(c) : \E first :
                k = Unique(NatTable(f), w[1], w[2], first) /\ (first => c.prepend /\ Leads(c, w))
  <2>1. PICK w \in WantedOf(c) : \E first : k = Unique(NatTable(f), w[1], w[2], first)
    BY <1>4
  <2>2. k.c = w[1]
    BY <2>1 DEF Unique, IptCall
  <2>3. w[1] = c.name \/ \E j \in DOMAIN c.into : w[1] = c.into[j]
    BY DEF WantedOf
  <2> QED
    BY <1>1, <1>2, <2>2, <2>3
<1> QED
  BY <1>3, <1>4, SetupFacts

\* In the rules of a mapping the marks come first.
LEMMA MappingOrder ==
  ASSUME NEW a, NEW f, NEW m, NEW n, NEW mark \in MarksOf(a, f, m)
  PROVE  First(MappingRules(a, f, n), {mark}, {DnatOf(a, m)})
<1> DEFINE x == IF SNAT[a] THEN <<MarkOf(n, ip[a])>> ELSE <<>>
           y == IF SNAT[a] /\ f = 4 THEN <<MarkOf(n, "localhost")>> ELSE <<>>
           z == <<DnatOf(a, n)>>
<1>1. MappingRules(a, f, n) = (x \o y) \o z
  BY DEF MappingRules, MarkOf, DnatOf, BaseOf
<1>2. /\ IsSeq(x) /\ ToSet(x) = IF SNAT[a] THEN {MarkOf(n, ip[a])} ELSE {}
      /\ IsSeq(y) /\ ToSet(y) = IF SNAT[a] /\ f = 4 THEN {MarkOf(n, "localhost")} ELSE {}
      /\ IsSeq(z) /\ ToSet(z) = {DnatOf(a, n)}
  BY NoSeq, OneSeq
<1> HIDE DEF x, y, z
<1>3. IsSeq(x \o y) /\ ToSet(x \o y) = MarksOf(a, f, n)
  BY <1>2, ConcatSeq DEF MarksOf
<1>4. \A from : MarkOf(n, from) # DnatOf(a, m)
  <2>1. \A from : MarkOf(n, from).to = SetMark
    BY MarkFields
  <2>2. SetMark # <<"DNAT", <<ip[a], m.cont>>>>
    BY DEF SetMark, Shared
  <2> QED
    BY <2>1, <2>2, DnatFields
<1>5. First(x \o y, {mark}, {DnatOf(a, m)})
  <2>1. DnatOf(a, m) \notin ToSet(x \o y)
    BY <1>3, <1>4 DEF MarksOf
  <2> QED
    BY <2>1 DEF First, ToSet
<1>6. CASE DnatOf(a, m) = DnatOf(a, n)
  <2>1. BaseOf(m) = BaseOf(n)
    <3>1. /\ m.proto = n.proto /\ <<m.host>> = <<n.host>>
          /\ (IF m.hip \in {"v4", "v6"} THEN m.hip ELSE "any") = IF n.hip \in {"v4", "v6"} THEN n.hip ELSE "any"
      BY <1>6, DnatFields
    <3> QED
      BY <3>1 DEF BaseOf
  <2>2. mark \in MarksOf(a, f, n)
    BY <2>1 DEF MarksOf, MarkOf
  <2>3. ToSet(x \o y) \cap {mark} # {}
    BY <1>3, <2>2
  <2> QED
    BY <1>1, <1>2, <1>3, <1>5, <2>3, ConcatFirst
<1>7. CASE DnatOf(a, m) # DnatOf(a, n)
  <2>1. First(z, {mark}, {DnatOf(a, m)})
    BY <1>2, <1>7 DEF First, ToSet
  <2> QED
    BY <1>1, <1>2, <1>3, <1>5, <2>1, ConcatFirst
<1> QED
  BY <1>6, <1>7


LEMMA ForwardOrder ==
  ASSUME NEW a \in Att, NEW f, NEW m \in FitOf(a, f), NEW mark \in MarksOf(a, f, m), NEW I, NEW K,
         Unique(NatTable(f), DN(a), mark, FALSE) \in I,
         \A k \in K : PmMakes(k, f, <<DN(a), DnatOf(a, m)>>)
  PROVE  First(forwardPorts(a, f), I, K)
<1> DEFINE marks == SNAT[a] /\ ~ExternalMark
           sm == setup(f, genSetMarkChain)
           mm == setup(f, genMarkMasqChain)
           ms == IF marks THEN sm \o mm ELSE <<>>
           ln == IF SNAT[a] /\ f = 4 /\ LocalnetIf(a) # {} THEN <<[op |-> "localnet"]>> ELSE <<>>
           tl == setup(f, genToplevelDnatChain)
           dn == setup(f, genDnatChain(a, f))
<1>1. forwardPorts(a, f) = ((ms \o ln) \o tl) \o dn
  BY DEF forwardPorts
<1>2. \A s : (\A k \in ToSet(s) : \A r : ~PmMakes(k, f, <<DN(a), r>>)) => First(s, I, K)
  <2> SUFFICES ASSUME NEW s, \A k \in ToSet(s) : \A r : ~PmMakes(k, f, <<DN(a), r>>) PROVE First(s, I, K)
    OBVIOUS
  <2>1. \A k \in ToSet(s) : k \notin K
    OBVIOUS
  <2> QED
    BY <2>1 DEF First, ToSet
<1>3. ASSUME NEW c \in {genToplevelDnatChain, genSetMarkChain, genMarkMasqChain}, c \in ChainsOf(a, f)
      PROVE  IsSeq(setup(f, c)) /\ First(setup(f, c), I, K)
  <2>1. IsSeq(c.rules) /\ IsSeq(c.into) /\ IsSeq(c.entries)
    BY <1>3, ChainsOfFacts
  <2> QED
    BY <1>2, <2>1, SetupFacts, SharedSetup
<1>4. /\ genToplevelDnatChain \in ChainsOf(a, f) /\ genDnatChain(a, f) \in ChainsOf(a, f)
      /\ marks => genSetMarkChain \in ChainsOf(a, f) /\ genMarkMasqChain \in ChainsOf(a, f)
  BY DEF ChainsOf
<1>5. IsSeq(tl) /\ First(tl, I, K) /\ (marks => IsSeq(sm) /\ First(sm, I, K) /\ IsSeq(mm) /\ First(mm, I, K))
  BY <1>3, <1>4
<1>6. IsSeq(ln) /\ First(ln, I, K)
  <2>1. IsSeq(ln) /\ \A k \in ToSet(ln) : k = [op |-> "localnet"]
    BY NoSeq, OneSeq
  <2>2. \A k \in ToSet(ln) : \A r : ~PmMakes(k, f, <<DN(a), r>>)
    BY <2>1 DEF PmMakes
  <2> QED
    BY <1>2, <2>1, <2>2
<1>7. IsSeq(dn) /\ First(dn, I, K)
  <2>1. PICK c, r : c = genDnatChain(a, f) /\ r = DnatOf(a, m)
    OBVIOUS
  <2>2. IsSeq(c.rules) /\ IsSeq(c.into) /\ IsSeq(c.entries)
    BY <1>4, <2>1, ChainsOfFacts
  <2>3. c.name = DN(a) /\ c.rules = fillDnatRules(a, f) /\ \A j \in DOMAIN c.into : c.into[j] # c.name
    BY <2>1, ChainNames DEF genDnatChain, NatChain, HD
  <2>4. First(c.rules, {mark}, {r})
    <3>1. PICK M, D : M = {mark} /\ D = {DnatOf(a, m)}
      OBVIOUS
    <3>2. \A n \in FitOf(a, f) : First(MappingRules(a, f, n), M, D)
      BY <3>1, MappingOrder
    <3>3. First(fillDnatRules(a, f), M, D)
      BY <3>2, FillFacts
    <3> QED
      BY <2>1, <2>3, <3>1, <3>3
  <2>5. First(setup(f, c), I, K)
    BY <2>1, <2>2, <2>3, <2>4, SetupOrder
  <2> QED
    BY <2>1, <2>2, <2>5, SetupFacts
<1> HIDE DEF sm, mm, ln, tl, dn
<1>8. IsSeq(ms) /\ First(ms, I, K)
  <2>1. First(<<>>, I, K)
    BY DEF First
  <2> QED
    BY <1>5, <2>1, NoSeq, ConcatSeq, ConcatFirst
<1> HIDE DEF ms
<1>9. IsSeq(ms \o ln) /\ First(ms \o ln, I, K)
  BY <1>6, <1>8, ConcatSeq, ConcatFirst
<1>10. IsSeq((ms \o ln) \o tl) /\ First((ms \o ln) \o tl, I, K)
  BY <1>5, <1>9, ConcatSeq, ConcatFirst
<1> QED
  BY <1>1, <1>7, <1>10, ConcatFirst

\* The calls of an ADD for one family are about that family.
LEMMA FamilyCalls ==
  ASSUME NEW a \in Att, NEW g, NEW k \in ToSet(AddFamily(a, g))
  PROVE  /\ k.op \in {"unique", "insert"} => k.t = NatTable(g)
         /\ k.op = "purge" => k = Purge(a, g)
<1>1. CASE g \notin ContFams(a)
  BY <1>1, AddFamilyFacts, NoSeq
<1>2. CASE g \in ContFams(a) \ Usable
  <2>1. k \in {[op |-> "abort"]}
    BY <1>2, AddFamilyFacts
  <2>2. k.op = "abort"
    BY <2>1
  <2> QED
    BY <2>2
<1>3. CASE g \in ContFams(a) \cap Usable
  <2>1. k = Purge(a, g) \/ k \in ToSet(forwardPorts(a, g))
    BY <1>3, AddFamilyFacts
  <2>2. CASE k = Purge(a, g)
    BY <2>2 DEF Purge
  <2>3. CASE k = [op |-> "localnet"]
    BY <2>3
  <2>4. CASE \E c : k = Ensure(NatTable(g), c) /\ NoOthers(a, c)
    BY <2>4 DEF Ensure, IptCall
  <2>5. CASE \E w \in Wanted(a, g) : \E first : k = UniqueFor(g, w, first)
    <3>1. k.op = "unique" /\ k.t = NatTable(g)
      BY <2>5 DEF UniqueFor, Unique, IptCall
    <3> QED
      BY <3>1
  <2> QED
    BY <2>1, <2>2, <2>3, <2>4, <2>5, ForwardFacts
<1> QED
  BY <1>1, <1>2, <1>3

\* Among the calls s of an ADD, the ones of family f are in order.
LEMMA FamilyOrder ==
  ASSUME NEW a \in Att, NEW f \in ContFams(a) \cap Usable, NEW s, ToSet(AddFamily(a, f)) \subseteq ToSet(s)
  PROVE  /\ \A m \in FitOf(a, f) : \A mark \in MarksOf(a, f, m) :
               First(AddFamily(a, f), Makers(s, f, <<DN(a), mark>>), Makers(s, f, <<DN(a), DnatOf(a, m)>>))
         /\ \A w \in Wanted(a, f) : /\ First(AddFamily(a, f), Makers(s, f, w), Purges(s, f))
                                    /\ Makers(s, f, w) # {}
         /\ Purge(a, f) \in Purges(s, f)
<1>0. PICK p : p = Purge(a, f)
  OBVIOUS
<1>1. /\ AddFamily(a, f) = forwardPorts(a, f) \o <<p>>
      /\ ToSet(AddFamily(a, f)) = ToSet(forwardPorts(a, f)) \cup {p}
      /\ IsSeq(forwardPorts(a, f)) /\ IsSeq(<<p>>) /\ ToSet(<<p>>) = {p}
      /\ p.op = "purge" /\ p.f = f
  BY <1>0, AddFamilyFacts, ForwardFacts, OneSeq DEF Purge
<1>2. \A w, first : w = <<w[1], w[2]>> => PmMakes(UniqueFor(f, w, first), f, w)
  BY DEF PmMakes, UniqueFor, Unique, IptCall
<1>3. ASSUME NEW m \in FitOf(a, f), NEW mark \in MarksOf(a, f, m)
      PROVE  First(AddFamily(a, f), Makers(s, f, <<DN(a), mark>>), Makers(s, f, <<DN(a), DnatOf(a, m)>>))
  <2>1. PICK I, K : I = Makers(s, f, <<DN(a), mark>>) /\ K = Makers(s, f, <<DN(a), DnatOf(a, m)>>)
    OBVIOUS
  <2>2. PICK J : J = I \cup {Unique(NatTable(f), DN(a), mark, FALSE)}
    OBVIOUS
  <2>3. \A k \in K : PmMakes(k, f, <<DN(a), DnatOf(a, m)>>)
    BY <2>1 DEF Makers
  <2>4. First(forwardPorts(a, f), J, K)
    BY <2>2, <2>3, ForwardOrder
  <2>5. \A k \in ToSet(forwardPorts(a, f)) : k \in J => k \in I
    <3>1. PmMakes(Unique(NatTable(f), DN(a), mark, FALSE), f, <<DN(a), mark>>)
      BY DEF PmMakes, Unique, IptCall
    <3> QED
      BY <1>1, <2>1, <2>2, <3>1 DEF Makers
  <2>6. First(forwardPorts(a, f), I, K)
    BY <2>4, <2>5 DEF First, ToSet
  <2>7. p \notin K
    BY <1>1, <2>3 DEF PmMakes
  <2>8. First(<<p>>, I, K)
    BY <1>1, <2>7 DEF First, ToSet
  <2> QED
    BY <1>1, <2>1, <2>6, <2>8, ConcatFirst
<1>4. ASSUME NEW w \in Wanted(a, f)
      PROVE  First(AddFamily(a, f), Makers(s, f, w), Purges(s, f)) /\ Makers(s, f, w) # {}
  <2>1. PICK I, K : I = Makers(s, f, w) /\ K = Purges(s, f)
    OBVIOUS
  <2>2. PICK first : UniqueFor(f, w, first) \in ToSet(forwardPorts(a, f))
    BY ForwardFacts
  <2>3. w = <<w[1], w[2]>>
    BY DEF Wanted, WantedOf
  <2>4. UniqueFor(f, w, first) \in I
    BY <1>1, <1>2, <2>1, <2>2, <2>3 DEF Makers
  <2>5. \A k \in ToSet(forwardPorts(a, f)) : k \notin K
    <3> SUFFICES ASSUME NEW k \in ToSet(forwardPorts(a, f)), k.op = "purge" PROVE FALSE
      BY <2>1 DEF Purges
    <3>1. CASE k = [op |-> "localnet"]
      BY <3>1
    <3>2. CASE \E c : k = Ensure(NatTable(f), c) /\ NoOthers(a, c)
      BY <3>2 DEF Ensure, IptCall
    <3>3. CASE \E x \in Wanted(a, f) : \E fst : k = UniqueFor(f, x, fst)
      BY <3>3 DEF UniqueFor, Unique, IptCall
    <3> QED
      BY <3>1, <3>2, <3>3, ForwardFacts
  <2>6. First(forwardPorts(a, f), I, K)
    BY <2>5 DEF First, ToSet
  <2>7. ToSet(forwardPorts(a, f)) \cap I # {}
    BY <2>2, <2>4
  <2>8. First(AddFamily(a, f), I, K)
    BY <1>1, <2>6, <2>7, ConcatFirst
  <2> QED
    BY <2>1, <2>4, <2>8
<1>5. p \in Purges(s, f)
  BY <1>1 DEF Purges
<1> QED
  BY <1>0, <1>3, <1>4, <1>5


\* The calls of an ADD are in order.
LEMMA AddOrder ==
  ASSUME NEW a \in Att
  PROVE  PmAdding(a, addCalls(a))
<1>1. CASE Mappings[a] = <<>>
  <2>1. addCalls(a) = <<>>
    BY <1>1, AddCallsFacts
  <2>2. \A I, K : First(<<>>, I, K)
    BY DEF First
  <2>3. \A f : FitOf(a, f) = {}
    BY <1>1 DEF FitOf
  <2>4. \A f : PmFamily(a, f, <<>>)
    BY <2>2, <2>3 DEF PmFamily, PmMarks, PmPurgesLast, MadeFirst, PmFlows, UdpOf
  <2> QED
    BY <1>1, <2>1, <2>4 DEF PmAdding
<1>2. CASE Mappings[a] # <<>>
  <2>1. PICK s, x, y : s = addCalls(a) /\ x = AddFamily(a, 4) /\ y = AddFamily(a, 6)
    OBVIOUS
  <2>2. /\ s = x \o y /\ ToSet(s) = ToSet(x) \cup ToSet(y)
        /\ IsSeq(x) /\ IsSeq(y)
    BY <1>2, <2>1, AddCallsFacts, AddFamilyFacts
  <2>3. ASSUME NEW f \in {4, 6}, NEW I, NEW K, First(AddFamily(a, f), I, K),
               \A g \in {4, 6} \ {f} : \A k \in ToSet(AddFamily(a, g)) : k \notin K
        PROVE  First(s, I, K)
    <3>1. \A g \in {4, 6} \ {f} : First(AddFamily(a, g), I, K)
      BY <2>3 DEF First, ToSet
    <3>2. First(x, I, K) /\ First(y, I, K)
      BY <2>1, <2>3, <3>1
    <3> QED
      BY <2>2, <3>2, ConcatFirst
  <2>4. ASSUME NEW f \in {4, 6}
        PROVE  /\ ToSet(AddFamily(a, f)) \subseteq ToSet(s)
               /\ \A g \in {4, 6} \ {f} : \A k \in ToSet(AddFamily(a, g)) :
                     k \notin Purges(s, f) /\ \A w : k \notin Makers(s, f, w)
    <3>1. ToSet(AddFamily(a, f)) \subseteq ToSet(s)
      BY <2>1, <2>2
    <3>2. ASSUME NEW g \in {4, 6} \ {f}, NEW k \in ToSet(AddFamily(a, g))
          PROVE  k \notin Purges(s, f) /\ \A w : k \notin Makers(s, f, w)
      <4>1. NatTable(g) # NatTable(f)
        BY DEF NatTable
      <4>2. k.op = "purge" => k.f = g
        BY FamilyCalls DEF Purge
      <4>3. k.op \in {"unique", "insert"} => k.t = NatTable(g)
        BY FamilyCalls
      <4> QED
        BY <4>1, <4>2, <4>3 DEF Purges, Makers, PmMakes
    <3> QED
      BY <3>1, <3>2
  <2>5. ASSUME NEW f \in Usable \cap ContFams(a)
        PROVE  PmFamily(a, f, s) /\ PmComes(a, f, s)
    <3>1. f \in {4, 6}
      BY PortmapAssumption
    <3>2. /\ \A m \in FitOf(a, f) : \A mark \in MarksOf(a, f, m) :
               First(AddFamily(a, f), Makers(s, f, <<DN(a), mark>>), Makers(s, f, <<DN(a), DnatOf(a, m)>>))
          /\ \A w \in Wanted(a, f) : /\ First(AddFamily(a, f), Makers(s, f, w), Purges(s, f))
                                     /\ Makers(s, f, w) # {}
          /\ Purge(a, f) \in Purges(s, f)
      BY <2>4, <3>1, FamilyOrder
    <3>3. PmMarks(a, f, s)
      BY <2>3, <2>4, <3>1, <3>2 DEF PmMarks, MadeFirst
    <3>4. PmPurgesLast(a, f, s)
      BY <2>3, <2>4, <3>1, <3>2 DEF PmPurgesLast, MadeFirst
    <3>5. PmFlows(a, f, s)
      <4>1. Purge(a, f).ports = groupByProto(a, "udp")
        BY DEF Purge
      <4>2. \A m \in UdpOf(a, f) : m.host \in ToSet(groupByProto(a, "udp"))
        BY GroupFacts DEF UdpOf, FitOf
      <4> QED
        BY <3>2, <4>1, <4>2 DEF PmFlows
    <3>6. PmComes(a, f, s)
      BY <3>2 DEF PmComes
    <3> QED
      BY <3>3, <3>4, <3>5, <3>6 DEF PmFamily
  <2>6. [op |-> "abort"] \in ToSet(s) \/ PmAll(a, s)
    <3>1. CASE ContFams(a) \subseteq Usable
      BY <2>5, <3>1 DEF PmAll
    <3>2. CASE \E g \in ContFams(a) : g \notin Usable
      <4>1. PICK g \in ContFams(a) : g \notin Usable
        BY <3>2
      <4>2. g \in {4, 6}
        BY DEF ContFams
      <4>3. ToSet(AddFamily(a, g)) = {[op |-> "abort"]}
        BY <4>1, AddFamilyFacts
      <4> QED
        BY <2>4, <4>2, <4>3
    <3> QED
      BY <3>1, <3>2
  <2> QED
    BY <2>1, <2>5, <2>6 DEF PmAdding
<1> QED
  BY <1>1, <1>2

\* Only a DEL takes away what an ADD wants, and only of its own attachment.
LEMMA PmKept ==
  ASSUME ChainInv, TablesOK, NEW a \in Att, PmTyped(a), IptStep(a, "portmap"),
         NEW b \in Att, b # a \/ proc[a].cmd = "add", NEW f \in {4, 6},
         NEW w \in Wanted(b, f), PmPlaced(f, w)
  PROVE  PmPlaced(f, w)'
<1>0. PICK k, t : k = Call(a) /\ t = NatTable(f)
  OBVIOUS
<1>1. /\ proc[a].cmd \in {"add", "del"}
      /\ proc[a].cmd = "add" => k.op = "abort" \/ (AddIpt(a, k) /\ k.op \in {"ensure", "unique", "insert"})
      /\ proc[a].cmd = "del" => PmDelCall(a, k) /\ k.op \notin {"unique", "ensure", "insert", "abort"}
      /\ k.op # "abort" => k.t \in Tables
  BY <1>0, PmIptCalls
<1>2. TablesOK' /\ (tables' = tables \/ (k.op # "abort" /\ Effect(k)))
  BY <1>0, <1>1, IptOutcome DEF Goes
<1>3. t \in Tables
  BY <1>0, IptAssumption DEF NatTable
<1>4. CASE tables' = tables
  BY <1>4 DEF PmPlaced, Exists, RulesIn, ChainExists
<1>5. CASE k.op # "abort" /\ Effect(k)
  <2>1. PICK c, r : c = w[1] /\ r = w[2]
    OBVIOUS
  <2>2. Exists(t, c, r) => Exists(t, c, r)' \/ Removes(k, t, c, r)
    BY <1>1, <1>2, <1>3, <1>5, EffectFacts
  <2>3. ASSUME Removes(k, t, c, r) PROVE FALSE
    <3>1. c = k.c /\ (k.op = "clear" \/ (k.op = "delete" /\ r = k.r))
      BY <2>3 DEF Removes
    <3>2. proc[a].cmd = "del" /\ PmDelCall(a, k) /\ b # a
      BY <1>1, <3>1
    <3>3. CASE k.op = "clear"
      <4>1. c \in {DN(a), OldSN(a)}
        BY <3>1, <3>2, <3>3 DEF PmDelCall
      <4>2. c = DN(b) \/ c = HD \/ w \in SharedRules(b)
        BY <2>1, WantedFacts
      <4>3. w \notin SharedRules(b)
        <5>1. PICK n, o : w \in SharedRules(b) => w = <<Shared(n), JumpTo(Shared(o))>>
          BY DEF SharedRules, HD
        <5> QED
          BY <2>1, <4>1, <5>1, ChainNames
      <4> QED
        BY <3>2, <4>1, <4>2, <4>3, ChainNames DEF HD
    <3>4. CASE k.op = "delete"
      <4>1. r.to \in {DN(a), OldSN(a)}
        BY <3>1, <3>2, <3>4 DEF PmDelCall
      <4>2. r \in ToSet(fillDnatRules(b, f)) \/ r \in Entries(b) \/ w \in SharedRules(b)
        BY <2>1, WantedFacts
      <4>3. r \notin ToSet(fillDnatRules(b, f))
        BY <4>1, FillTo
      <4>4. r \notin Entries(b)
        BY <3>2, <4>1, EntriesFacts, ChainNames
      <4>5. w \notin SharedRules(b)
        BY <2>1, <4>1, SharedFacts
      <4> QED
        BY <4>2, <4>3, <4>4, <4>5
    <3> QED
      BY <3>1, <3>3, <3>4
  <2> QED
    BY <1>0, <2>1, <2>2, <2>3 DEF PmPlaced
<1> QED
  BY <1>2, <1>4, <1>5

\* The order of the calls that are left when the first is over.
LEMMA GoOnRest ==
  ASSUME NEW s, IsSeq(s), s # <<>>, NEW f, NEW w, NEW K, First(s, Makers(s, f, w), K),
         NEW L, \A y \in ToSet(Tail(s)) : y \in L => y \in K
  PROVE  /\ Head(s) \notin K
         /\ PmMakes(Head(s), f, w) \/ First(Tail(s), Makers(Tail(s), f, w), L)
<1>1. PICK I, h, t : I = Makers(s, f, w) /\ h = Head(s) /\ t = Tail(s)
  OBVIOUS
<1>2. h \notin K /\ (h \notin I => First(t, I, K)) /\ ToSet(s) = {h} \cup ToSet(t)
  BY <1>1, TailFirst, TailSeq
<1>3. ASSUME ~PmMakes(h, f, w) PROVE First(t, Makers(t, f, w), L)
  <2>1. h \notin I
    BY <1>1, <1>3 DEF Makers
  <2>2. \A x \in ToSet(t) : x \in I => x \in Makers(t, f, w)
    BY <1>1 DEF Makers
  <2> QED
    BY <1>1, <1>2, <2>1, <2>2 DEF First, ToSet
<1> QED
  BY <1>1, <1>2, <1>3

\* And when it becomes another.
LEMMA GoOnAs ==
  ASSUME NEW s, IsSeq(s), s # <<>>, NEW f, NEW w, NEW K, First(s, Makers(s, f, w), K),
         NEW x, PmMakes(Head(s), f, w) => PmMakes(x, f, w),
         NEW L, \A y \in ToSet(Tail(s)) : y \in L => y \in K, x \notin L
  PROVE  First(<<x>> \o Tail(s), Makers(<<x>> \o Tail(s), f, w), L)
<1>1. PICK I, h, t, z : I = Makers(s, f, w) \cup {y \in {x} : PmMakes(y, f, w)} /\ h = Head(s) /\ t = Tail(s)
                        /\ z = <<x>> \o t
  OBVIOUS
<1>2. IsSeq(t) /\ ToSet(s) = {h} \cup ToSet(t) /\ IsSeq(z) /\ ToSet(z) = {x} \cup ToSet(t)
  <2>1. IsSeq(t) /\ ToSet(s) = {h} \cup ToSet(t)
    BY <1>1, TailSeq
  <2>2. PICK y : y = <<x>> /\ IsSeq(y) /\ ToSet(y) = {x}
    BY OneSeq
  <2>3. IsSeq(y \o t) /\ ToSet(y \o t) = {x} \cup ToSet(t)
    BY <2>1, <2>2, ConcatSeq
  <2> QED
    BY <1>1, <2>1, <2>2, <2>3
<1>3. First(s, I, K)
  BY <1>1 DEF First
<1>4. h \in I => x \in I
  <2>1. PmMakes(h, f, w) => PmMakes(x, f, w)
    BY <1>1
  <2>2. h \in I => PmMakes(h, f, w)
    BY <1>1 DEF Makers
  <2> QED
    BY <1>1, <2>1, <2>2
<1>5. PICK N : N = K \cap L
  OBVIOUS
<1>6. First(s, I, N) /\ x \notin N
  BY <1>3, <1>5 DEF First
<1>7. First(<<x>> \o Tail(s), I, N)
  BY <1>1, <1>4, <1>6, TailFirst
<1>8. \A y \in ToSet(z) : (y \in I => y \in Makers(z, f, w)) /\ (y \in L => y \in N)
  BY <1>1, <1>2, <1>5 DEF Makers
<1> QED
  BY <1>1, <1>7, <1>8 DEF First, ToSet


\* What portmap wants for a depends on the address of a only.
LEMMA PmSame ==
  ASSUME NEW a, ip'[a] = ip[a]
  PROVE  /\ \A f : Wanted(a, f)' = Wanted(a, f)
         /\ \A f, m : MarksOf(a, f, m)' = MarksOf(a, f, m)
         /\ \A m : DnatOf(a, m)' = DnatOf(a, m)
<1>1. \A f : Wanted(a, f)' = Wanted(a, f)
  BY WantedSame
<1>2. \A f, m : MarksOf(a, f, m)' = MarksOf(a, f, m)
  BY DEF MarksOf, MarkOf, BaseOf
<1>3. \A m : DnatOf(a, m)' = DnatOf(a, m)
  BY DEF DnatOf, BaseOf
<1> QED
  BY <1>1, <1>2, <1>3

LEMMA RulesWanted ==
  ASSUME NEW a \in Att, NEW f, NEW m \in FitOf(a, f)
  PROVE  /\ \A mark \in MarksOf(a, f, m) : <<DN(a), mark>> \in Wanted(a, f)
         /\ <<DN(a), DnatOf(a, m)>> \in Wanted(a, f)
<1>1. \A r \in MarksOf(a, f, m) \cup {DnatOf(a, m)} : r \in ToSet(fillDnatRules(a, f))
  BY FillFacts
<1> QED
  BY <1>1, WantedFacts

\* A step that is over with the first of the calls, or makes it another one of
\* its kind.
Advances(a, f, todo, s) ==
    /\ ip'[a] = ip[a]
    /\ \A w \in Wanted(a, f) : PmPlaced(f, w) => PmPlaced(f, w)'
    /\ \/ /\ s = Tail(todo)
          /\ \A w \in Wanted(a, f) : PmMakes(Head(todo), f, w) => PmPlaced(f, w)'
       \/ \E x : /\ s = <<x>> \o Tail(todo)
                 /\ \A w : PmMakes(Head(todo), f, w) <=> PmMakes(x, f, w)
                 /\ x.op = "purge" /\ x.f = f => Head(todo).op = "purge" /\ Head(todo).f = f

LEMMA PmAdvance ==
  ASSUME NEW a \in Att, NEW f, NEW todo, IsSeq(todo), todo # <<>>, NEW s, Advances(a, f, todo, s)
  PROVE  /\ IsSeq(s)
         /\ \A w \in Wanted(a, f) : \A v :
               MadeFirst(todo, f, w, Makers(todo, f, v)) => MadeFirst(s, f, w, Makers(s, f, v))'
         /\ \A w \in Wanted(a, f) :
               MadeFirst(todo, f, w, Purges(todo, f)) => MadeFirst(s, f, w, Purges(s, f))'
         /\ PmComes(a, f, todo) => PmComes(a, f, s)'
<1>a. IsSeq(Tail(todo)) /\ ToSet(todo) = {Head(todo)} \cup ToSet(Tail(todo))
  BY TailSeq
<1>1. PICK h, t : /\ h = Head(todo) /\ t = Tail(todo)
                  /\ IsSeq(t) /\ ToSet(todo) = {h} \cup ToSet(t)
  BY <1>a
<1>2. ip'[a] = ip[a] /\ \A w \in Wanted(a, f) : PmPlaced(f, w) => PmPlaced(f, w)'
  BY DEF Advances
<1>3. CASE s = t /\ \A w \in Wanted(a, f) : PmMakes(h, f, w) => PmPlaced(f, w)'
  <2>1. ASSUME NEW w \in Wanted(a, f), NEW K, NEW L, \A y \in ToSet(t) : y \in L => y \in K,
               MadeFirst(todo, f, w, K)
        PROVE  PmPlaced(f, w)' \/ First(s, Makers(s, f, w), L)
    <3>1. CASE PmPlaced(f, w)
      BY <1>2, <3>1
    <3>2. CASE First(todo, Makers(todo, f, w), K)
      <4>1. PmMakes(h, f, w) \/ First(t, Makers(t, f, w), L)
        BY <1>1, <2>1, <3>2, GoOnRest
      <4> QED
        BY <1>3, <4>1
    <3> QED
      BY <2>1, <3>1, <3>2 DEF MadeFirst
  <2>2. \A v : \A y \in ToSet(t) : y \in Makers(s, f, v) => y \in Makers(todo, f, v)
    BY <1>1, <1>3 DEF Makers
  <2>3. \A y \in ToSet(t) : y \in Purges(s, f) => y \in Purges(todo, f)
    BY <1>1, <1>3 DEF Purges
  <2>4. ASSUME NEW w \in Wanted(a, f), NEW v, MadeFirst(todo, f, w, Makers(todo, f, v))
        PROVE  MadeFirst(s, f, w, Makers(s, f, v))'
    <3>1. PmPlaced(f, w)' \/ First(s, Makers(s, f, w), Makers(s, f, v))
      BY <2>1, <2>2, <2>4
    <3> QED
      BY <3>1 DEF MadeFirst, Makers, PmMakes, NatTable
  <2>5. ASSUME NEW w \in Wanted(a, f), MadeFirst(todo, f, w, Purges(todo, f))
        PROVE  MadeFirst(s, f, w, Purges(s, f))'
    <3>1. PmPlaced(f, w)' \/ First(s, Makers(s, f, w), Purges(s, f))
      BY <2>1, <2>3, <2>5
    <3> QED
      BY <3>1 DEF MadeFirst, Makers, PmMakes, NatTable, Purges
  <2>6. ASSUME PmComes(a, f, todo) PROVE PmComes(a, f, s)'
    <3>1. \A w \in Wanted(a, f) : PmPlaced(f, w)' \/ Makers(s, f, w) # {}
      BY <1>1, <1>2, <1>3, <2>6 DEF PmComes, Makers
    <3> QED
      BY <1>2, <3>1, PmSame DEF PmComes
  <2> QED
    BY <1>1, <1>3, <2>4, <2>5, <2>6
<1>4. ASSUME NEW x, s = <<x>> \o t, \A w : PmMakes(h, f, w) <=> PmMakes(x, f, w),
             x.op = "purge" /\ x.f = f => h.op = "purge" /\ h.f = f
      PROVE  /\ IsSeq(s)
             /\ \A w \in Wanted(a, f) : \A v :
                   MadeFirst(todo, f, w, Makers(todo, f, v)) => MadeFirst(s, f, w, Makers(s, f, v))'
             /\ \A w \in Wanted(a, f) :
                   MadeFirst(todo, f, w, Purges(todo, f)) => MadeFirst(s, f, w, Purges(s, f))'
             /\ PmComes(a, f, todo) => PmComes(a, f, s)'
  <2>1. IsSeq(s) /\ ToSet(s) = {x} \cup ToSet(t)
    BY <1>1, <1>4, OneSeq, ConcatSeq
  <2>2. ASSUME NEW w \in Wanted(a, f), NEW K, NEW L, \A y \in ToSet(t) : y \in L => y \in K,
               x \in L => h \in K, MadeFirst(todo, f, w, K)
        PROVE  PmPlaced(f, w)' \/ First(s, Makers(s, f, w), L)
    <3>1. CASE PmPlaced(f, w)
      BY <1>2, <3>1
    <3>2. CASE First(todo, Makers(todo, f, w), K)
      <4>1. h \notin K
        BY <1>1, <3>2, TailFirst
      <4>2. x \notin L
        BY <2>2, <4>1
      <4>3. First(<<x>> \o t, Makers(<<x>> \o t, f, w), L)
        BY <1>1, <1>4, <2>2, <3>2, <4>2, GoOnAs
      <4> QED
        BY <1>4, <4>3
    <3> QED
      BY <2>2, <3>1, <3>2 DEF MadeFirst
  <2>3. \A v : /\ \A y \in ToSet(t) : y \in Makers(s, f, v) => y \in Makers(todo, f, v)
               /\ x \in Makers(s, f, v) => h \in Makers(todo, f, v)
    BY <1>1, <1>4, <2>1 DEF Makers
  <2>4. /\ \A y \in ToSet(t) : y \in Purges(s, f) => y \in Purges(todo, f)
        /\ x \in Purges(s, f) => h \in Purges(todo, f)
    BY <1>1, <1>4, <2>1 DEF Purges
  <2>5. ASSUME NEW w \in Wanted(a, f), NEW v, MadeFirst(todo, f, w, Makers(todo, f, v))
        PROVE  MadeFirst(s, f, w, Makers(s, f, v))'
    <3>1. PmPlaced(f, w)' \/ First(s, Makers(s, f, w), Makers(s, f, v))
      BY <2>2, <2>3, <2>5
    <3> QED
      BY <3>1 DEF MadeFirst, Makers, PmMakes, NatTable
  <2>6. ASSUME NEW w \in Wanted(a, f), MadeFirst(todo, f, w, Purges(todo, f))
        PROVE  MadeFirst(s, f, w, Purges(s, f))'
    <3>1. PmPlaced(f, w)' \/ First(s, Makers(s, f, w), Purges(s, f))
      BY <2>2, <2>4, <2>6
    <3> QED
      BY <3>1 DEF MadeFirst, Makers, PmMakes, NatTable, Purges
  <2>7. ASSUME PmComes(a, f, todo) PROVE PmComes(a, f, s)'
    <3>1. \A w \in Wanted(a, f) : PmPlaced(f, w)' \/ Makers(s, f, w) # {}
      <4> SUFFICES ASSUME NEW w \in Wanted(a, f), ~PmPlaced(f, w) PROVE Makers(s, f, w) # {}
        BY <1>2
      <4>1. PICK y \in ToSet(todo) : PmMakes(y, f, w)
        BY <2>7 DEF PmComes, Makers
      <4>2. CASE y \in ToSet(t)
        BY <2>1, <4>1, <4>2 DEF Makers
      <4>3. CASE y = h
        BY <1>4, <2>1, <4>1, <4>3 DEF Makers
      <4> QED
        BY <1>1, <4>2, <4>3
    <3> QED
      BY <1>2, <3>1, PmSame DEF PmComes
  <2> QED
    BY <2>1, <2>5, <2>6, <2>7
<1> QED
  BY <1>1, <1>3, <1>4 DEF Advances


\* Whatever the state, the calls of an ADD that begins are in order.
LEMMA AddOrderAll == \A a \in Att : PmAdding(a, addCalls(a))
  BY AddOrder

LEMMA AddOrderNext == (\A a \in Att : PmAdding(a, addCalls(a)))'
  BY AddOrderAll, PTL

LEMMA AddSame ==
  ASSUME NEW a \in Att, ip'[a] = ip[a]
  PROVE  addCalls(a)' = addCalls(a)
<1>1. \A f : genDnatChain(a, f)' = genDnatChain(a, f)
  BY FillSame DEF genDnatChain
<1>2. \A f : forwardPorts(a, f)' = forwardPorts(a, f)
  BY <1>1 DEF forwardPorts
<1> QED
  BY <1>2 DEF addCalls

\* The ADD of a begins.
LEMMA PmAddStarts ==
  ASSUME NEW a \in Att, ip'[a] = ip[a], NEW s, s = addCalls(a)
  PROVE  PmAdding(a, s)'
<1>1. addCalls(a)' = s
  BY AddSame
<1>2. PmAdding(a, addCalls(a))'
  BY AddOrderNext
<1> QED
  BY <1>1, <1>2

LEMMA UdpFacts ==
  ASSUME NEW a \in Att, NEW f
  PROVE  /\ \A m \in UdpOf(a, f) : m.host \in UdpPorts
         /\ UdpOf(a, f)' = UdpOf(a, f)
<1>1. \A m \in UdpOf(a, f) : m \in AllMappings /\ m.proto = "udp"
  BY DEF UdpOf, FitOf, AllMappings, ToSet
<1> QED
  BY <1>1 DEF UdpPorts, UdpOf, FitOf

\* One flow is set.
SetsFlow(g, p, x) == flows' = [flows EXCEPT ![g][p] = x]

LEMMA FlowSet ==
  ASSUME FlowsTyped, NEW g \in Usable, NEW p, NEW x, SetsFlow(g, p, x)
  PROVE  /\ FlowsTyped'
         /\ \A f \in Usable : \A q \in UdpPorts :
               flows'[f][q] = IF f = g /\ q = p THEN x ELSE flows[f][q]
<1>1. PICK fl : fl = flows
  OBVIOUS
<1>2. DOMAIN fl = Usable /\ \A f \in Usable : fl[f] = [q \in UdpPorts |-> fl[f][q]]
  BY <1>1 DEF FlowsTyped
<1>3. flows' = [f \in Usable |-> IF f = g THEN [fl[g] EXCEPT ![p] = x] ELSE fl[f]]
  BY <1>1, <1>2 DEF SetsFlow
<1>4. [fl[g] EXCEPT ![p] = x] = [q \in UdpPorts |-> IF q = p THEN x ELSE fl[g][q]]
  BY <1>2
<1>5. ASSUME NEW f \in Usable
      PROVE  /\ flows'[f] = [q \in UdpPorts |-> flows'[f][q]]
             /\ \A q \in UdpPorts : flows'[f][q] = IF f = g /\ q = p THEN x ELSE fl[f][q]
  <2>1. PICK new : new = flows'[f]
    OBVIOUS
  <2>2. CASE f = g
    <3>1. new = [q \in UdpPorts |-> IF q = p THEN x ELSE fl[g][q]]
      BY <1>3, <1>4, <2>1, <2>2
    <3>2. new = [q \in UdpPorts |-> new[q]]
      BY <3>1
    <3> QED
      BY <2>1, <2>2, <3>1, <3>2
  <2>3. CASE f # g
    <3>1. new = fl[f]
      BY <1>3, <2>1, <2>3
    <3> QED
      BY <1>2, <2>1, <2>3, <3>1
  <2> QED
    BY <2>2, <2>3
<1>6. \A f \in Usable : \A q \in UdpPorts :
               flows'[f][q] = IF f = g /\ q = p THEN x ELSE flows[f][q]
  <2> SUFFICES ASSUME NEW f \in Usable, NEW q \in UdpPorts
               PROVE  flows'[f][q] = IF f = g /\ q = p THEN x ELSE flows[f][q]
    OBVIOUS
  <2>1. PICK v : v = flows'[f][q]
    OBVIOUS
  <2>2. v = IF f = g /\ q = p THEN x ELSE fl[f][q]
    BY <1>5, <2>1
  <2> QED
    BY <1>1, <2>1, <2>2
<1>7. \A f \in Usable : flows'[f] = [q \in UdpPorts |-> flows'[f][q]]
  BY <1>5
<1>8. flows' = [f \in Usable |-> flows'[f]]
  BY <1>3
<1>9. flows' = [f \in Usable |-> [q \in UdpPorts |-> flows'[f][q]]]
  BY <1>7, <1>8
<1> QED
  BY <1>6, <1>9 DEF FlowsTyped

\* Nothing that an ADD of b relies on is lost.
PmLeaves(b) ==
    /\ ip'[b] = ip[b]
    /\ b \in logged => b \in logged'
    /\ \A f \in Usable : \A w \in Wanted(b, f) : PmPlaced(f, w) => PmPlaced(f, w)'
    /\ \A f \in Usable \cap ContFams(b) : AllPlaced(b, f) =>
          \A m \in UdpOf(b, f) : FlowOK(b, f, m) => FlowOK(b, f, m)'

LEMMA PmStay ==
  ASSUME NEW b \in Att, PmLeaves(b), NEW s, PmAdding(b, s)
  PROVE  PmAdding(b, s)'
<1>1. /\ \A f : Wanted(b, f)' = Wanted(b, f)
      /\ \A f, m : MarksOf(b, f, m)' = MarksOf(b, f, m)
      /\ \A m : DnatOf(b, m)' = DnatOf(b, m)
      /\ \A f : UdpOf(b, f)' = UdpOf(b, f)
  BY PmSame, UdpFacts DEF PmLeaves
<1>2. /\ \A f, w : Makers(s, f, w)' = Makers(s, f, w)
      /\ \A f : Purges(s, f)' = Purges(s, f)
  BY DEF Makers, PmMakes, NatTable, Purges
<1>3. ASSUME NEW f \in Usable, NEW w \in Wanted(b, f), NEW K, MadeFirst(s, f, w, K)
      PROVE  MadeFirst(s, f, w, K)'
  <2>1. PmPlaced(f, w)' \/ First(s, Makers(s, f, w), K)
    BY <1>3 DEF MadeFirst, PmLeaves
  <2> QED
    BY <1>2, <2>1 DEF MadeFirst
<1>4. ASSUME NEW f \in Usable \cap ContFams(b), PmFamily(b, f, s) PROVE PmFamily(b, f, s)'
  <2>1. PmMarks(b, f, s)'
    <3> SUFFICES ASSUME NEW m \in FitOf(b, f), NEW mark \in MarksOf(b, f, m)
                 PROVE  MadeFirst(s, f, <<DN(b), mark>>, Makers(s, f, <<DN(b), DnatOf(b, m)>>))'
      BY <1>1 DEF PmMarks, FitOf
    <3>1. PICK w, K : w = <<DN(b), mark>> /\ K = Makers(s, f, <<DN(b), DnatOf(b, m)>>)
      OBVIOUS
    <3>2. MadeFirst(s, f, w, K) /\ w \in Wanted(b, f)
      BY <1>4, <3>1, RulesWanted DEF PmFamily, PmMarks
    <3>3. MadeFirst(s, f, w, K)'
      BY <1>3, <3>2
    <3>4. <<DN(b), mark>>' = w /\ Makers(s, f, <<DN(b), DnatOf(b, m)>>)' = K
      BY <1>1, <1>2, <3>1 DEF DN, Makers, PmMakes, NatTable
    <3> QED
      BY <3>3, <3>4
  <2>2. PmPurgesLast(b, f, s)'
    <3> SUFFICES ASSUME NEW w \in Wanted(b, f) PROVE MadeFirst(s, f, w, Purges(s, f))'
      BY <1>1 DEF PmPurgesLast
    <3>1. PICK K : K = Purges(s, f)
      OBVIOUS
    <3>2. MadeFirst(s, f, w, K)'
      BY <1>3, <1>4, <3>1 DEF PmFamily, PmPurgesLast
    <3> QED
      BY <1>2, <3>1, <3>2
  <2>3. PmFlows(b, f, s)'
    <3>1. AllPlaced(b, f) => AllPlaced(b, f)'
      BY <1>1 DEF PmLeaves, AllPlaced
    <3> QED
      BY <1>1, <1>2, <1>4, <3>1 DEF PmFamily, PmFlows, PmLeaves
  <2> QED
    BY <2>1, <2>2, <2>3 DEF PmFamily
<1>5. PmAll(b, s) => PmAll(b, s)'
  <2>1. ContFams(b)' = ContFams(b)
    BY DEF ContFams
  <2> QED
    BY <1>1, <1>2, <2>1 DEF PmAll, PmComes, PmLeaves
<1> QED
  BY <1>4, <1>5 DEF PmAdding, ContFams


\* The ADD of a goes on with the calls s, and is as far as before or farther.
LEMMA PmGoesOn ==
  ASSUME NEW a \in Att, NEW todo, IsSeq(todo), todo # <<>>, Head(todo).op # "abort", NEW s,
         \A f \in Usable \cap ContFams(a) : Advances(a, f, todo, s), ip'[a] = ip[a],
         \A f \in Usable \cap ContFams(a) :
            PmPurgesLast(a, f, todo) /\ PmFlows(a, f, todo) => PmFlows(a, f, s)',
         PmAdding(a, todo),
         \/ s = Tail(todo)
         \/ \E x : s = <<x>> \o Tail(todo)
  PROVE  PmAdding(a, s)'
<1>1. /\ \A f : Wanted(a, f)' = Wanted(a, f)
      /\ \A f, m : MarksOf(a, f, m)' = MarksOf(a, f, m)
      /\ \A m : DnatOf(a, m)' = DnatOf(a, m)
  BY PmSame
<1>2. ASSUME NEW f \in Usable \cap ContFams(a) PROVE PmFamily(a, f, s)'
  <2>1. PmMarks(a, f, todo) /\ PmPurgesLast(a, f, todo) /\ PmFlows(a, f, todo)
    BY <1>2 DEF PmAdding, PmFamily
  <2>2. PmMarks(a, f, s)'
    <3> SUFFICES ASSUME NEW m \in FitOf(a, f), NEW mark \in MarksOf(a, f, m)
                 PROVE  MadeFirst(s, f, <<DN(a), mark>>, Makers(s, f, <<DN(a), DnatOf(a, m)>>))'
      BY <1>1 DEF PmMarks, FitOf
    <3>1. PICK w, v : w = <<DN(a), mark>> /\ v = <<DN(a), DnatOf(a, m)>>
      OBVIOUS
    <3>2. MadeFirst(todo, f, w, Makers(todo, f, v)) /\ w \in Wanted(a, f)
      BY <2>1, <3>1, RulesWanted DEF PmMarks
    <3>3. MadeFirst(s, f, w, Makers(s, f, v))'
      BY <1>2, <3>2, PmAdvance
    <3>4. <<DN(a), mark>>' = w /\ <<DN(a), DnatOf(a, m)>>' = v
      BY <1>1, <3>1 DEF DN
    <3> QED
      BY <3>3, <3>4
  <2>3. PmPurgesLast(a, f, s)'
    <3> SUFFICES ASSUME NEW w \in Wanted(a, f) PROVE MadeFirst(s, f, w, Purges(s, f))'
      BY <1>1 DEF PmPurgesLast
    <3>1. MadeFirst(todo, f, w, Purges(todo, f))
      BY <2>1 DEF PmPurgesLast
    <3> QED
      BY <1>2, <3>1, PmAdvance
  <2>4. PmFlows(a, f, s)'
    BY <1>2, <2>1
  <2> QED
    BY <2>2, <2>3, <2>4 DEF PmFamily
<1>3. IsSeq(Tail(todo)) /\ ToSet(todo) = {Head(todo)} \cup ToSet(Tail(todo))
  BY TailSeq
<1>4. ToSet(Tail(todo)) \subseteq ToSet(s)
  <2>1. CASE s = Tail(todo)
    BY <2>1
  <2>2. ASSUME NEW x, s = <<x>> \o Tail(todo) PROVE ToSet(Tail(todo)) \subseteq ToSet(s)
    BY <1>3, <2>2, OneSeq, ConcatSeq
  <2> QED
    BY <2>1, <2>2
<1>5. [op |-> "abort"] \in ToSet(todo) => [op |-> "abort"] \in ToSet(s)
  BY <1>3, <1>4
<1>6. ASSUME PmAll(a, todo) PROVE PmAll(a, s)'
  <2>1. \A f \in ContFams(a) : PmComes(a, f, s)'
    BY <1>6, PmAdvance DEF PmAll
  <2>2. ContFams(a)' = ContFams(a)
    BY DEF ContFams
  <2> QED
    BY <1>6, <2>1, <2>2 DEF PmAll
<1>7. ContFams(a)' = ContFams(a)
  BY DEF ContFams
<1> QED
  BY <1>2, <1>5, <1>6, <1>7 DEF PmAdding

\* The flows, when the call was none to purge them, or it had no port left.
LEMMA PmFlowsKept ==
  ASSUME NEW a \in Att, NEW f, NEW todo, IsSeq(todo), todo # <<>>, NEW s,
         Advances(a, f, todo, s), UNCHANGED <<flows, logged>>,
         Head(todo) \in Purges(todo, f) => Head(todo).ports = <<>>,
         PmFlows(a, f, todo), \/ s = Tail(todo)
                              \/ \E x : s = <<x>> \o Tail(todo)
  PROVE  PmFlows(a, f, s)'
<1>1. IsSeq(Tail(todo)) /\ ToSet(todo) = {Head(todo)} \cup ToSet(Tail(todo))
  BY TailSeq
<1>2. ToSet(Tail(todo)) \subseteq ToSet(s)
  <2>1. CASE s = Tail(todo)
    BY <2>1
  <2>2. ASSUME NEW x, s = <<x>> \o Tail(todo) PROVE ToSet(Tail(todo)) \subseteq ToSet(s)
    BY <1>1, <2>2, OneSeq, ConcatSeq
  <2> QED
    BY <2>1, <2>2
<1>3. AllPlaced(a, f) => AllPlaced(a, f)'
  BY PmSame DEF Advances, AllPlaced
<1>4. UdpOf(a, f)' = UdpOf(a, f) /\ \A m : FlowOK(a, f, m) => FlowOK(a, f, m)'
  BY UdpFacts DEF Advances, FlowOK, NoFlow, Shared
<1>5. CASE a \in logged
  BY <1>5 DEF PmFlows
<1>6. CASE a \notin logged
  <2>1. ASSUME NEW m \in UdpOf(a, f), NEW k \in Purges(todo, f), m.host \in ToSet(k.ports)
        PROVE  k \in Purges(s, f)'
    <3>1. k # Head(todo)
      BY <2>1, NoSeq
    <3> QED
      BY <1>1, <1>2, <3>1 DEF Purges
  <2>2. \A m \in UdpOf(a, f) : \/ \E k \in Purges(todo, f) : m.host \in ToSet(k.ports)
                               \/ FlowOK(a, f, m) /\ AllPlaced(a, f)
    BY <1>6 DEF PmFlows
  <2>3. ASSUME NEW m \in UdpOf(a, f)
        PROVE  \/ \E k \in Purges(s, f)' : m.host \in ToSet(k.ports)
               \/ FlowOK(a, f, m)' /\ AllPlaced(a, f)'
    BY <1>3, <1>4, <2>1, <2>2
  <2> QED
    BY <1>4, <2>3 DEF PmFlows, Purges
<1> QED
  BY <1>5, <1>6

\* A call of iptables of an ADD.
LEMMA PmIptAdd ==
  ASSUME ChainInv, TablesOK, NEW a \in Att, PmTyped(a), IptStep(a, "portmap"),
         UNCHANGED portmapVars, proc[a].cmd = "add", Running(a, "portmap")',
         NEW todo, todo = proc[a].todo, PmAdding(a, todo), NEW s, s = proc'[a].todo
  PROVE  PmAdding(a, s)'
<1>0. PICK k : k = Call(a)
  OBVIOUS
<1>1. /\ k \in ToSet(todo) /\ todo # <<>>
      /\ k.op = "abort" \/ (AddIpt(a, k) /\ k.op \in {"ensure", "unique", "insert"})
      /\ k.op # "abort" => k.t \in Tables
  BY <1>0, PmIptCalls
<1>2. /\ TablesOK'
      /\ k.op # "abort" /\ Goes(a, k)
  <2>1. /\ TablesOK'
        /\ \/ ~Running(a, "portmap")'
           \/ k.op # "abort" /\ Goes(a, k)
    BY <1>0, <1>1, IptOutcome
  <2> QED
    BY <2>1
<1>3. IsSeq(todo) /\ k = Head(todo) /\ Rest(a) = Tail(todo)
  BY <1>0 DEF PmTyped, Call, Rest
<1>4. ip'[a] = ip[a] /\ UNCHANGED <<flows, logged>>
  BY IptSteps DEF Steps, portmapVars
<1>5. AddIpt(a, k) /\ k.op \in {"ensure", "unique", "insert"} /\ k.fail = Failed
  BY <1>1, <1>2 DEF AddIpt
<1>6. ASSUME NEW f \in Usable, NEW w \in Wanted(a, f), PmPlaced(f, w)
      PROVE  PmPlaced(f, w)'
  BY <1>6, PmKept, PortmapAssumption
<1>7. CASE Effect(k) /\ s = Tail(todo)
  <2>1. ASSUME NEW f, NEW w, PmMakes(k, f, w)
        PROVE  PmPlaced(f, w)'
    <3>1. CASE k.op = "unique"
      BY <1>7, <2>1, <3>1 DEF PmMakes, Effect, PmPlaced, Exists, RulesIn, ChainExists
    <3>2. CASE k.op = "insert"
      <4>1. IsSeq(RulesIn(k.t, k.c)) /\ RulesIn(k.t, k.c)' = IF k.first THEN <<k.r>> \o RulesIn(k.t, k.c)
                                ELSE RulesIn(k.t, k.c) \o <<k.r>>
        BY <1>1, <1>2, <1>7, <3>2, RulesSeq DEF Effect
      <4>2. IsSeq(RulesIn(k.t, k.c)') /\ k.r \in ToSet(RulesIn(k.t, k.c)')
        BY <4>1, OneSeq, ConcatSeq
      <4>3. Contains(RulesIn(k.t, k.c)', k.r)
        BY <4>2, HasSeq
      <4> QED
        BY <2>1, <4>3 DEF PmMakes, PmPlaced, Exists
    <3> QED
      BY <2>1, <3>1, <3>2 DEF PmMakes
  <2>2. \A f \in Usable \cap ContFams(a) : Advances(a, f, todo, s)
    BY <1>3, <1>4, <1>6, <1>7, <2>1 DEF Advances
  <2>3. \A f : Head(todo) \notin Purges(todo, f)
    BY <1>3, <1>5 DEF Purges
  <2>4. \A f \in Usable \cap ContFams(a) : PmFlows(a, f, todo) => PmFlows(a, f, s)'
    BY <1>1, <1>3, <1>4, <1>7, <2>2, <2>3, PmFlowsKept
  <2> QED
    BY <1>1, <1>2, <1>3, <1>4, <1>7, <2>2, <2>4, PmGoesOn
<1>8. CASE tables' = tables /\ k.op = "unique" /\ s = <<Inserted(k)>> \o Tail(todo)
  <2>1. PICK x : x = Inserted(k)
    OBVIOUS
  <2>2. x.op = "insert" /\ x.t = k.t /\ x.c = k.c /\ x.r = k.r
    BY <1>5, <2>1, InsertedFacts DEF AddIpt
  <2>3. s = <<x>> \o Tail(todo) /\ \A f, w : PmMakes(k, f, w) <=> PmMakes(x, f, w)
    BY <1>8, <2>1, <2>2 DEF PmMakes
  <2>4. \A f \in Usable \cap ContFams(a) : Advances(a, f, todo, s)
    BY <1>3, <1>4, <1>6, <2>2, <2>3 DEF Advances
  <2>5. \A f : Head(todo) \notin Purges(todo, f)
    BY <1>3, <1>5 DEF Purges
  <2>6. \A f \in Usable \cap ContFams(a) : PmFlows(a, f, todo) => PmFlows(a, f, s)'
    BY <1>1, <1>3, <1>4, <2>3, <2>4, <2>5, PmFlowsKept
  <2> QED
    BY <1>1, <1>2, <1>3, <1>4, <2>3, <2>4, <2>6, PmGoesOn
<1> QED
  BY <1>2, <1>3, <1>5, <1>7, <1>8 DEF Goes


\* The route of 127/8 of an ADD.
LEMMA PmLocalnet ==
  ASSUME ChainInv, NEW a \in Att, PmTyped(a), enableLocalnetRouting(a),
         Running(a, "portmap")', NEW todo, todo = proc[a].todo, PmAdding(a, todo), NEW s, s = proc'[a].todo
  PROVE  PmAdding(a, s)'
<1>1. todo # <<>> /\ Head(todo).op = "localnet" /\ IsSeq(todo) /\ Rest(a) = Tail(todo)
  BY DEF enableLocalnetRouting, At, PmTyped, Rest
<1>2. Do(a, Rest(a))
  <2>1. ~Fault(a, Failed)
    BY FaultFacts DEF enableLocalnetRouting, At
  <2> QED
    BY <2>1 DEF enableLocalnetRouting
<1>3. s = Tail(todo) /\ ip'[a] = ip[a] /\ UNCHANGED <<tables, flows, logged>>
  <2>1. s = Rest(a)
    BY <1>2, DoFacts DEF enableLocalnetRouting, At
  <2> QED
    BY <1>1, <1>2, <2>1 DEF Do, enableLocalnetRouting
<1>4. \A f, w : (PmPlaced(f, w)' <=> PmPlaced(f, w)) /\ ~PmMakes(Head(todo), f, w)
  BY <1>1, <1>3 DEF PmPlaced, Exists, RulesIn, ChainExists, PmMakes
<1>5. \A f : Advances(a, f, todo, s) /\ Head(todo) \notin Purges(todo, f)
  BY <1>1, <1>3, <1>4 DEF Advances, Purges
<1>6. \A f : PmFlows(a, f, todo) => PmFlows(a, f, s)'
  BY <1>1, <1>3, <1>5, PmFlowsKept
<1> QED
  BY <1>1, <1>3, <1>5, <1>6, PmGoesOn

\* The purge of the flows of an ADD.
LEMMA PmPurge ==
  ASSUME ChainInv, NEW a \in Att, PmTyped(a), PurgeFlows(a), Running(a, "portmap")', FlowsTyped,
         NEW todo, todo = proc[a].todo, PmAdding(a, todo), NEW s, s = proc'[a].todo
  PROVE  PmAdding(a, s)'
<1>0. PICK k : k = Call(a)
  OBVIOUS
<1>1. /\ todo # <<>> /\ k = Head(todo) /\ k.op = "purge" /\ IsSeq(todo) /\ Rest(a) = Tail(todo)
      /\ k \in ToSet(todo)
  BY <1>0, CallOps DEF PurgeFlows, At, PmTyped, Rest, Call
<1>2. {"op", "f", "ports"} \subseteq DOMAIN k /\ k.f \in Usable \cap ContFams(a) /\ IsSeq(k.ports)
  <2>1. PmAddCall(a, k)
    <3>1. proc[a].cmd \in {"add", "del", "check"}
      BY DEF ChainInv, ProcOK, Running, Idle, PurgeFlows, At
    <3>2. ~PmDelCall(a, k)
      BY <1>1 DEF PmDelCall
    <3> QED
      BY <1>1, <3>1, <3>2 DEF PmTyped
  <2> QED
    BY <1>1, <2>1 DEF PmAddCall, AddIpt
<1>3. tables' = tables /\ ~Idle(a) /\ Running(a, "portmap")
  BY DEF PurgeFlows, At, Running
<1>4. ASSUME NEW calls, Do(a, calls) \/ Fault(a, calls), calls # Failed
      PROVE  s = calls /\ ip'[a] = ip[a]
  <2>1. ip' = ip
    BY <1>4 DEF Do, Fault
  <2> QED
    BY <1>3, <1>4, <2>1, DoFacts, FaultFacts
<1>5. \A f, w : (PmPlaced(f, w)' <=> PmPlaced(f, w)) /\ ~PmMakes(k, f, w)
  BY <1>1, <1>3 DEF PmPlaced, Exists, RulesIn, ChainExists, PmMakes
<1>6. ASSUME s = Tail(todo), ip'[a] = ip[a], NEW f PROVE Advances(a, f, todo, s)
  BY <1>1, <1>5, <1>6 DEF Advances
<1>7. CASE k.ports = <<>> /\ Do(a, Rest(a)) /\ UNCHANGED <<flows, logged>>
  <2>1. s = Tail(todo) /\ ip'[a] = ip[a]
    <3>1. ip' = ip
      BY <1>7 DEF Do
    <3> QED
      BY <1>1, <1>3, <1>7, <3>1, DoFacts
  <2>2. \A f : PmFlows(a, f, todo) => PmFlows(a, f, s)'
    BY <1>1, <1>6, <1>7, <2>1, PmFlowsKept
  <2> QED
    BY <1>1, <1>6, <2>1, <2>2, PmGoesOn
<1>8. CASE Fault(a, Rest(a)) /\ logged' = logged \cup {a}
  <2>1. Rest(a) # Failed
    BY <1>8, FaultFacts
  <2>2. s = Tail(todo) /\ ip'[a] = ip[a]
    BY <1>1, <1>4, <1>8, <2>1
  <2>3. \A f : PmFlows(a, f, s)'
    BY <1>8 DEF PmFlows
  <2> QED
    BY <1>1, <1>6, <2>2, <2>3, PmGoesOn
<1>9. CASE /\ k.ports # <<>> /\ UNCHANGED logged
           /\ flows' = [flows EXCEPT ![k.f][Head(k.ports)] = NoFlow]
           /\ Do(a, <<[k EXCEPT !.ports = Tail(@)]>> \o Rest(a))
  <2>1. PICK x : x = [k EXCEPT !.ports = Tail(@)]
    OBVIOUS
  <2>2. x.op = "purge" /\ x.f = k.f /\ x.ports = Tail(k.ports)
    BY <1>1, <1>2, <2>1
  <2>3. s = <<x>> \o Tail(todo) /\ ip'[a] = ip[a]
    <3>1. PICK z : z = <<x>> \o Tail(todo)
      OBVIOUS
    <3>2. Do(a, z)
      BY <1>1, <1>9, <2>1, <3>1
    <3>3. s = z /\ ip' = ip
      BY <3>2, DoFacts
    <3> QED
      BY <3>1, <3>3
  <2>4. \A f : Advances(a, f, todo, s)
    <3>1. \A f, w : ~PmMakes(x, f, w)
      BY <2>2 DEF PmMakes
    <3> QED
      BY <1>1, <1>5, <2>2, <2>3, <3>1 DEF Advances
  <2>5. PICK h, t : /\ h = Head(k.ports) /\ t = Tail(k.ports)
                    /\ \A n : n \in ToSet(k.ports) => n = h \/ n \in ToSet(t)
    <3>1. ToSet(k.ports) = {Head(k.ports)} \cup ToSet(Tail(k.ports))
      BY <1>2, <1>9, TailSeq
    <3> QED
      BY <3>1
  <2>6. \A f \in Usable : \A q \in UdpPorts :
               flows'[f][q] = IF f = k.f /\ q = h THEN NoFlow ELSE flows[f][q]
    <3>1. PICK g, n : g = k.f /\ n = NoFlow
      OBVIOUS
    <3>2. g \in Usable /\ SetsFlow(g, h, n)
      BY <1>2, <1>9, <2>5, <3>1 DEF SetsFlow
    <3>3. \A f \in Usable : \A q \in UdpPorts :
               flows'[f][q] = IF f = g /\ q = h THEN n ELSE flows[f][q]
      BY <3>2, FlowSet
    <3> QED
      BY <3>1, <3>3
  <2>7. ASSUME NEW f \in Usable \cap ContFams(a), PmPurgesLast(a, f, todo), PmFlows(a, f, todo)
        PROVE  PmFlows(a, f, s)'
    <3>1. NoFlow' = NoFlow
      BY DEF NoFlow, Shared
    <3>2. ASSUME NEW m \in UdpOf(a, f)
          PROVE  /\ FlowOK(a, f, m) => FlowOK(a, f, m)'
                 /\ f = k.f /\ m.host = h => FlowOK(a, f, m)'
      <4>1. m.host \in UdpPorts
        BY UdpFacts
      <4>2. flows'[f][m.host] = IF f = k.f /\ m.host = h THEN NoFlow ELSE flows[f][m.host]
        BY <2>6, <4>1
      <4> QED
        BY <2>3, <3>1, <4>2 DEF FlowOK
    <3>3. AllPlaced(a, f)' <=> AllPlaced(a, f)
      BY <1>5, <2>3, PmSame DEF AllPlaced
    <3>4. ASSUME f = k.f PROVE AllPlaced(a, f)
      <4> SUFFICES ASSUME NEW w \in Wanted(a, f), First(todo, Makers(todo, f, w), Purges(todo, f))
                   PROVE  FALSE
        BY <2>7 DEF AllPlaced, PmPurgesLast, MadeFirst
      <4>1. Head(todo) \notin Purges(todo, f)
        BY <1>1, GoOnRest
      <4> QED
        BY <1>1, <3>4, <4>1 DEF Purges
    <3>5. /\ IsSeq(Tail(todo)) /\ ToSet(todo) = {k} \cup ToSet(Tail(todo))
          /\ ToSet(s) = {x} \cup ToSet(Tail(todo))
      <4>1. IsSeq(Tail(todo)) /\ ToSet(todo) = {k} \cup ToSet(Tail(todo))
        BY <1>1, TailSeq
      <4>2. PICK z : z = <<x>> /\ IsSeq(z) /\ ToSet(z) = {x}
        BY OneSeq
      <4>3. ToSet(z \o Tail(todo)) = {x} \cup ToSet(Tail(todo))
        BY <4>1, <4>2, ConcatSeq
      <4> QED
        BY <2>3, <4>1, <4>2, <4>3
    <3>6. ASSUME NEW m \in UdpOf(a, f)
          PROVE  \/ a \in logged'
                 \/ \E y \in Purges(s, f) : m.host \in ToSet(y.ports)
                 \/ FlowOK(a, f, m)' /\ AllPlaced(a, f)'
      <4>1. CASE FlowOK(a, f, m) /\ AllPlaced(a, f)
        BY <3>2, <3>3, <4>1
      <4>2. ASSUME NEW y \in Purges(todo, f), m.host \in ToSet(y.ports), y \in ToSet(Tail(todo))
            PROVE  y \in Purges(s, f)
        BY <3>5, <4>2 DEF Purges
      <4>3. CASE k \in Purges(todo, f) /\ m.host \in ToSet(k.ports)
        <5>1. f = k.f
          BY <4>3 DEF Purges
        <5>2. CASE m.host = h
          BY <3>2, <3>3, <3>4, <5>1, <5>2
        <5>3. CASE m.host \in ToSet(t)
          <6>1. x \in Purges(s, f) /\ x.ports = t
            BY <2>2, <2>5, <3>5, <5>1 DEF Purges
          <6> QED
            BY <5>3, <6>1
        <5> QED
          BY <2>5, <4>3, <5>2, <5>3
      <4>4. a \in logged => a \in logged'
        BY <1>9
      <4> QED
        BY <2>7, <3>5, <4>1, <4>2, <4>3, <4>4 DEF PmFlows, Purges
    <3>7. UdpOf(a, f)' = UdpOf(a, f) /\ Purges(s, f)' = Purges(s, f)
      BY UdpFacts DEF Purges
    <3> QED
      BY <3>6, <3>7 DEF PmFlows
  <2> QED
    BY <1>1, <2>3, <2>4, <2>7, PmGoesOn
<1> QED
  BY <1>0, <1>7, <1>8, <1>9 DEF PurgeFlows

\* A step of an ADD of a.
LEMMA PmAddStep ==
  ASSUME ChainInv, TablesOK, NEW a \in Att, Running(a, "portmap"), PortmapStep(a), proc[a].cmd = "add",
         proc[a].todo = Start \/ (PmTyped(a) /\ PmAdding(a, proc[a].todo)), FlowsTyped,
         Running(a, "portmap")', NEW s, s = proc'[a].todo
  PROVE  PmAdding(a, s)'
<1>0. PICK todo : todo = proc[a].todo
  OBVIOUS
<1>1. CASE PortmapStart(a)
  <2>1. ~Error(a)
    BY ErrorFacts
  <2>2. PortmapAdd(a)
    BY <1>1 DEF PortmapStart, PortmapDel, PortmapCheck
  <2>3. Do(a, addCalls(a))
    BY <2>1, <2>2 DEF PortmapAdd
  <2>4. s = addCalls(a) /\ ip' = ip
    BY <2>3, DoFacts
  <2> QED
    BY <2>4, PmAddStarts
<1>2. CASE enableLocalnetRouting(a) \/ PurgeFlows(a) \/ (IptStep(a, "portmap") /\ UNCHANGED portmapVars)
  <2>1. proc[a].todo # Start
    <3>1. proc[a].todo # <<>> /\ Call(a).op # "start"
      BY <1>2, IptOps DEF enableLocalnetRouting, PurgeFlows, At, Call
    <3> QED
      BY <3>1, CallOps
  <2>2. PmTyped(a) /\ PmAdding(a, todo)
    BY <1>0, <2>1
  <2> QED
    BY <1>0, <1>2, <2>2, PmLocalnet, PmPurge, PmIptAdd
<1> QED
  BY <1>1, <1>2 DEF PortmapStep


\* The chain of an attachment after a step of portmap.
LEMMA MarksOwn ==
  ASSUME ChainInv, CallsInv, NatInv, PmInv, NEW a \in Att, Running(a, "portmap"), PortmapStep(a),
         NEW b \in Att, NEW f \in Usable
  PROVE  MarksFirst(b, f)'
<1>1. f \in {4, 6} /\ NatTable(f) \in Tables /\ ip' = ip
  BY PortmapAssumption, IptAssumption, PortmapSteps DEF NatTable, Steps
<1>2. /\ \A m : MarksOf(b, f, m)' = MarksOf(b, f, m)
      /\ \A m : DnatOf(b, m)' = DnatOf(b, m)
      /\ FitOf(b, f)' = FitOf(b, f)
  BY <1>1, PmSame DEF FitOf
<1>3. IsSeq(DnRules(f, b)) /\ MarksFirst(b, f) /\ ToSet(DnRules(f, b)) \subseteq ToSet(fillDnatRules(b, f))
  BY <1>1, RulesSeq DEF DnRules, CallsInv, PmInv, PmOK, NatInv, NatOK
<1>4. CASE DnRules(f, b)' = DnRules(f, b)
  BY <1>2, <1>3, <1>4 DEF MarksFirst
<1>5. CASE DnRules(f, b)' = <<>>
  BY <1>5 DEF MarksFirst, First
<1>6. CASE IptStep(a, "portmap")
  <2>1. PmTyped(a) /\ proc[a].todo # Start
    BY <1>6, IptOps, CallOps DEF CallsInv, PmCalls
  <2>2. PICK k, todo : k = Call(a) /\ todo = proc[a].todo
    OBVIOUS
  <2>3. \/ DnRules(f, b)' = DnRules(f, b)
        \/ DnRules(f, b)' = <<>>
        \/ /\ b = a /\ proc[a].cmd = "add" /\ f \in Usable \cap ContFams(a)
           /\ k.op = "insert" /\ k.t = NatTable(f) /\ k.c = DN(a)
           /\ DnRules(f, b)' = DnRules(f, b) \o <<k.r>>
    BY <1>1, <1>3, <1>6, <2>1, <2>2, DnStep DEF CallsInv
  <2>4. CASE /\ b = a /\ proc[a].cmd = "add" /\ f \in Usable \cap ContFams(a)
             /\ k.op = "insert" /\ k.t = NatTable(f) /\ k.c = DN(a)
             /\ DnRules(f, b)' = DnRules(f, b) \o <<k.r>>
    <3>1. PmMarks(a, f, todo)
      BY <2>1, <2>2, <2>4 DEF PmInv, PmOK, PmAdding, PmFamily
    <3>2. todo # <<>> /\ k = Head(todo) /\ k \in ToSet(todo) /\ IsSeq(todo)
      BY <1>6, <2>1, <2>2, IptOps, CallOps DEF Call, PmTyped
    <3>3. PICK y : y = <<k.r>> /\ IsSeq(y) /\ ToSet(y) = {k.r}
      BY OneSeq
    <3> SUFFICES ASSUME NEW m \in FitOf(a, f), NEW mark \in MarksOf(a, f, m)
                 PROVE  First(DnRules(f, a) \o y, {mark}, {DnatOf(a, m)})
      BY <1>2, <2>4, <3>3 DEF MarksFirst
    <3>4. First(DnRules(f, a), {mark}, {DnatOf(a, m)})
      BY <1>3, <2>4 DEF MarksFirst
    <3>5. CASE k.r # DnatOf(a, m)
      <4>1. First(y, {mark}, {DnatOf(a, m)})
        BY <3>3, <3>5 DEF First, ToSet
      <4> QED
        BY <1>3, <2>4, <3>3, <3>4, <4>1, ConcatFirst
    <3>6. CASE k.r = DnatOf(a, m)
      <4>1. PICK v, w : v = <<DN(a), DnatOf(a, m)>> /\ w = <<DN(a), mark>>
        OBVIOUS
      <4>2. MadeFirst(todo, f, w, Makers(todo, f, v))
        BY <3>1, <4>1 DEF PmMarks
      <4>3. k \in Makers(todo, f, v)
        BY <2>4, <3>2, <3>6, <4>1 DEF Makers, PmMakes
      <4>4. PmPlaced(f, w)
        <5>1. ~First(todo, Makers(todo, f, w), Makers(todo, f, v))
          BY <3>2, <4>3, GoOnRest
        <5> QED
          BY <4>2, <5>1 DEF MadeFirst
      <4>5. mark \in ToSet(DnRules(f, a))
        BY <1>3, <2>4, <4>1, <4>4, HasSeq DEF PmPlaced, Exists, DnRules
      <4> QED
        BY <1>3, <2>4, <3>3, <3>4, <4>5, ConcatFirst
    <3> QED
      BY <3>5, <3>6
  <2> QED
    BY <1>4, <1>5, <2>3, <2>4
<1>7. CASE tables' = tables
  <2>1. DnRules(f, b)' = DnRules(f, b)
    BY <1>7 DEF DnRules, RulesIn, ChainExists
  <2> QED
    BY <1>4, <2>1
<1> QED
  BY <1>6, <1>7 DEF PortmapStep, PortmapStart, enableLocalnetRouting, PurgeFlows

\* What a step of portmap for a leaves to others, and a CHECK to its own.
LEMMA PmLeavesOthers ==
  ASSUME ChainInv, CallsInv, PmInv, NEW a \in Att, Running(a, "portmap"), PortmapStep(a)
  PROVE  /\ FlowsTyped'
         /\ \A b \in Att \ {a} : PmLeaves(b)
         /\ proc[a].cmd = "check" => PmLeaves(a)
<1>1. ip' = ip
  BY PortmapSteps DEF Steps
<1>2. ASSUME NEW b \in Att, UNCHANGED <<tables, flows>>, b \in logged => b \in logged'
      PROVE  FlowsTyped' /\ PmLeaves(b)
  <2>1. \A f, w : PmPlaced(f, w)' <=> PmPlaced(f, w)
    BY <1>2 DEF PmPlaced, Exists, RulesIn, ChainExists
  <2>2. \A f, m : FlowOK(b, f, m)' <=> FlowOK(b, f, m)
    BY <1>1, <1>2 DEF FlowOK, NoFlow, Shared
  <2>3. FlowsTyped'
    BY <1>2 DEF PmInv, FlowsTyped
  <2> QED
    BY <1>1, <1>2, <2>1, <2>2, <2>3 DEF PmLeaves
<1>3. CASE PortmapStart(a)
  <2>1. /\ UNCHANGED <<tables, flows>>
        /\ \A b \in Att \ {a} : b \in logged => b \in logged'
        /\ proc[a].cmd = "check" => logged' = logged
    BY <1>3 DEF PortmapStart, PortmapAdd
  <2>2. FlowsTyped'
    BY <2>1 DEF PmInv, FlowsTyped
  <2>3. \A b \in Att \ {a} : PmLeaves(b)
    BY <1>2, <2>1
  <2>4. proc[a].cmd = "check" => PmLeaves(a)
    BY <1>2, <2>1
  <2> QED
    BY <2>2, <2>3, <2>4
<1>4. CASE enableLocalnetRouting(a)
  <2>1. UNCHANGED <<tables, flows, logged>>
    BY <1>4 DEF enableLocalnetRouting
  <2>2. \A b \in Att : FlowsTyped' /\ PmLeaves(b)
    BY <1>2, <2>1
  <2> QED
    BY <2>2
<1>5. ASSUME enableLocalnetRouting(a) \/ PurgeFlows(a) \/ IptStep(a, "portmap")
      PROVE  PmTyped(a) /\ proc[a].cmd # "check" /\ proc[a].todo # <<>>
  <2>1. proc[a].todo # <<>> /\ Call(a).op # "start"
    BY <1>5, IptOps DEF enableLocalnetRouting, PurgeFlows, At, Call
  <2>2. PmTyped(a)
    BY <2>1, CallOps DEF CallsInv, PmCalls
  <2> QED
    BY <2>1, <2>2 DEF PmTyped
<1>6. CASE PurgeFlows(a)
  <2>1. UNCHANGED tables /\ \A b \in Att : b \in logged => b \in logged'
    BY <1>6 DEF PurgeFlows
  <2>2. CASE UNCHANGED flows
    BY <1>2, <1>5, <1>6, <2>1, <2>2
  <2>3. CASE flows' = [flows EXCEPT ![Call(a).f][Head(Call(a).ports)] = NoFlow]
    <3>1. PICK k : k = Call(a)
      OBVIOUS
    <3>2. k \in ToSet(proc[a].todo) /\ k.op = "purge" /\ proc[a].cmd \in {"add", "del"}
      <4>1. proc[a].cmd \in {"add", "del", "check"}
        BY DEF ChainInv, ProcOK, Running, Idle
      <4> QED
        BY <1>5, <1>6, <3>1, <4>1, CallOps DEF PmTyped, PurgeFlows, At, Call
    <3>3. k.f \in Usable
      BY <1>5, <1>6, <3>2 DEF PmTyped, PmAddCall, PmDelCall, AddIpt
    <3>4. PICK g, h, n : g = k.f /\ h = Head(k.ports) /\ n = NoFlow
      OBVIOUS
    <3>5. SetsFlow(g, h, n)
      BY <2>3, <3>1, <3>4 DEF SetsFlow
    <3>6. /\ FlowsTyped'
          /\ \A f \in Usable : \A q \in UdpPorts :
               flows'[f][q] = IF f = g /\ q = h THEN n ELSE flows[f][q]
      BY <3>3, <3>4, <3>5, FlowSet DEF PmInv
    <3>7. ASSUME NEW b \in Att, NEW f \in Usable, NEW m \in UdpOf(b, f), FlowOK(b, f, m)
          PROVE  FlowOK(b, f, m)'
      <4>1. m.host \in UdpPorts
        BY UdpFacts
      <4>2. flows'[f][m.host] = n \/ flows'[f][m.host] = flows[f][m.host]
        BY <3>6, <4>1
      <4> QED
        BY <1>1, <3>4, <3>7, <4>2 DEF FlowOK, NoFlow, Shared
    <3>8. \A f, w : PmPlaced(f, w)' <=> PmPlaced(f, w)
      BY <2>1 DEF PmPlaced, Exists, RulesIn, ChainExists
    <3> QED
      BY <1>1, <1>5, <1>6, <2>1, <3>6, <3>7, <3>8 DEF PmLeaves
  <2> QED
    BY <1>6, <2>2, <2>3 DEF PurgeFlows
<1>7. CASE IptStep(a, "portmap") /\ UNCHANGED portmapVars
  <2>1. UNCHANGED <<flows, logged>>
    BY <1>7 DEF portmapVars
  <2>2. ASSUME NEW b \in Att \ {a}, NEW f \in Usable, NEW w \in Wanted(b, f), PmPlaced(f, w)
        PROVE  PmPlaced(f, w)'
    BY <1>5, <1>7, <2>2, PmKept, PortmapAssumption DEF CallsInv
  <2>3. \A b, f, m : FlowOK(b, f, m)' <=> FlowOK(b, f, m)
    BY <1>1, <2>1 DEF FlowOK, NoFlow, Shared
  <2>4. FlowsTyped'
    BY <2>1 DEF PmInv, FlowsTyped
  <2> QED
    BY <1>1, <1>5, <1>7, <2>1, <2>2, <2>3, <2>4 DEF PmLeaves
<1> QED
  BY <1>3, <1>4, <1>6, <1>7 DEF PortmapStep

\* A step of portmap.
LEMMA PmOwn ==
  ASSUME ChainInv, CallsInv, OnePerChain, NatInv, PmInv, NEW a \in Att, Running(a, "portmap"), PortmapStep(a)
  PROVE  PmInv'
<1>1. Steps(a)
  BY PortmapSteps
<1>2. /\ FlowsTyped'
      /\ \A b \in Att \ {a} : PmLeaves(b)
      /\ proc[a].cmd = "check" => PmLeaves(a)
  BY PmLeavesOthers
<1>3. PICK plugin : plugin = "portmap"
  OBVIOUS
<1>4. ASSUME NEW b \in Att \ {a} PROVE PmOK(b)'
  <2>1. /\ proc'[b] = proc[b]
        /\ Running(b, plugin)' <=> Running(b, plugin)
        /\ Done(b, plugin)' <=> Done(b, plugin)
    BY <1>1, <1>3, OwnPlugin
  <2>2. \A s : PmAdding(b, s) => PmAdding(b, s)'
    BY <1>2, PmStay
  <2>3. PmOK(b)
    BY DEF PmInv
  <2>4. \A f \in Usable : MarksFirst(b, f)'
    BY MarksOwn
  <2> QED
    BY <1>3, <2>1, <2>2, <2>3, <2>4 DEF PmOK
<1>5. PmOK(a)'
  <2>1. /\ Running(a, plugin)' => proc'[a].cmd = proc[a].cmd
        /\ ~Running(a, plugin)' => ~Done(a, plugin)'
    BY <1>1, <1>3, OwnPlugin
  <2>2. PICK s : s = proc'[a].todo
    OBVIOUS
  <2>3. ASSUME Running(a, plugin)', proc[a].cmd = "add" PROVE PmAdding(a, s)'
    <3>1. TablesOK /\ (proc[a].todo = Start \/ PmTyped(a)) /\ FlowsTyped
      BY DEF CallsInv, PmCalls, PmInv
    <3>2. proc[a].todo = Start \/ PmAdding(a, proc[a].todo)
      BY <2>3 DEF PmInv, PmOK
    <3> QED
      BY <1>3, <2>2, <2>3, <3>1, <3>2, PmAddStep
  <2>4. ASSUME Done(a, plugin)' PROVE PmAdding(a, <<>>)'
    <3>1. Running(a, plugin)' /\ (Ready(a, plugin) \/ (proc[a].cmd = "add" /\ s = <<>>))
      BY <1>1, <1>3, <2>1, <2>2, <2>4, OwnDone
    <3>2. CASE Ready(a, plugin)
      <4>1. proc[a].cmd = "check"
        BY <3>2 DEF ChainInv, ProcOK, Running, Idle, Ready
      <4>2. PmAdding(a, <<>>)
        BY <1>3, <3>2 DEF PmInv, PmOK, Done
      <4> QED
        BY <1>2, <4>1, <4>2, PmStay
    <3>3. CASE proc[a].cmd = "add" /\ s = <<>>
      BY <2>3, <3>1, <3>3
    <3> QED
      BY <3>1, <3>2, <3>3
  <2>5. \A f \in Usable : MarksFirst(a, f)'
    BY MarksOwn
  <2> QED
    BY <1>3, <2>1, <2>2, <2>3, <2>4, <2>5 DEF PmOK
<1> QED
  BY <1>2, <1>4, <1>5 DEF PmInv


\* A step that is none of portmap.
LEMMA PmQuiet ==
  ASSUME NatInv, PmInv, \A b \in Att : Quiet(b, "portmap"), FlowsTyped',
         \A f \in {4, 6} : \A c : RulesIn(NatTable(f), c)' = RulesIn(NatTable(f), c),
         logged' = logged,
         \A b \in Att : \A f \in Usable : AllPlaced(b, f) =>
            \A m \in UdpOf(b, f) : ip'[b] = ip[b] /\ FlowOK(b, f, m) => FlowOK(b, f, m)'
  PROVE  PmInv'
<1>1. \A f \in Usable : \A w : PmPlaced(f, w)' <=> PmPlaced(f, w)
  BY PortmapAssumption DEF PmPlaced, Exists
<1>2. ASSUME NEW b \in Att, ip'[b] = ip[b] PROVE PmLeaves(b)
  BY <1>1, <1>2 DEF PmLeaves
<1>3. ASSUME NEW b \in Att, NEW f \in Usable PROVE MarksFirst(b, f)'
  <2>1. DnRules(f, b)' = DnRules(f, b)
    BY PortmapAssumption DEF DnRules
  <2>2. CASE ip'[b] = ip[b]
    <3>1. /\ \A m : MarksOf(b, f, m)' = MarksOf(b, f, m)
          /\ \A m : DnatOf(b, m)' = DnatOf(b, m)
          /\ FitOf(b, f)' = FitOf(b, f)
      BY <2>2, PmSame DEF FitOf
    <3> QED
      BY <2>1, <3>1 DEF MarksFirst, PmInv, PmOK
  <2>3. CASE Clear(b, "portmap")
    <3>1. DnRules(f, b)' = <<>>
      BY <2>1, <2>3 DEF NatInv, NatOK
    <3> QED
      BY <3>1 DEF MarksFirst, First
  <2> QED
    BY <2>2, <2>3 DEF Quiet
<1>4. ASSUME NEW b \in Att PROVE PmOK(b)'
  <2>1. ASSUME Done(b, "portmap")' PROVE PmAdding(b, <<>>)'
    <3>1. Done(b, "portmap") /\ ip'[b] = ip[b]
      BY <2>1 DEF Quiet
    <3> QED
      BY <1>2, <3>1, PmStay DEF PmInv, PmOK
  <2>2. PICK s : s = proc'[b].todo
    OBVIOUS
  <2>3. ASSUME Running(b, "portmap")', proc'[b].cmd = "add", s # Start PROVE PmAdding(b, s)'
    <3>1. Running(b, "portmap") /\ proc'[b] = proc[b] /\ ip'[b] = ip[b]
      BY <2>2, <2>3 DEF Quiet
    <3>2. PmAdding(b, s)
      BY <2>2, <2>3, <3>1 DEF PmInv, PmOK
    <3> QED
      BY <1>2, <3>1, <3>2, PmStay
  <2> QED
    BY <1>3, <2>1, <2>2, <2>3 DEF PmOK
<1> QED
  BY <1>4 DEF PmInv

\* Traffic leads to an attachment whose rules are there.
LEMMA PmTraffic ==
  ASSUME TablesOK, NatInv, OneMeaning, FlowsTyped, NEW g \in Usable, NEW p \in UdpPorts, Traffic(g, p)
  PROVE  /\ FlowsTyped'
         /\ \A b \in Att : \A f \in Usable : AllPlaced(b, f) =>
               \A m \in UdpOf(b, f) : ip'[b] = ip[b] /\ FlowOK(b, f, m) => FlowOK(b, f, m)'
<1>1. PICK x, pkt : /\ pkt = [proto |-> "udp", port |-> p, from |-> "client", dst |-> "other"]
                    /\ SetsFlow(g, p, x) /\ (x = NoFlow \/ x = Dnat(g, pkt))
  BY DEF Traffic, NewFlow, FlowExpires, SetsFlow
<1>2. /\ FlowsTyped'
      /\ \A f \in Usable : \A q \in UdpPorts :
            flows'[f][q] = IF f = g /\ q = p THEN x ELSE flows[f][q]
  BY <1>1, FlowSet
<1>3. ASSUME NEW b \in Att, NEW f \in Usable, AllPlaced(b, f), NEW m \in UdpOf(b, f),
             ip'[b] = ip[b], FlowOK(b, f, m)
      PROVE  FlowOK(b, f, m)'
  <2>1. flows'[f][m.host] = IF f = g /\ m.host = p THEN x ELSE flows[f][m.host]
    BY <1>2, UdpFacts
  <2>2. ASSUME f = g, m.host = p PROVE x \in {NoFlow, <<"DNAT", <<ip[b], m.cont>>>>}
    <3>1. m \in FitOf(b, f) /\ m \in AllMappings /\ m.proto = "udp" /\ m.hip = "none"
      BY DEF UdpOf, FitOf, AllMappings, ToSet
    <3>2. pkt = Packet(m, "client", "other")
      BY <1>1, <2>2, <3>1 DEF Packet
    <3>3. pkt \in Packets
      BY <3>1, <3>2 DEF Packets
    <3>4. For(m, f, pkt)
      BY <1>1, <2>2, <3>1 DEF For
    <3>5. Dnat(f, pkt) = <<"DNAT", <<ip[b], m.cont>>>>
      BY <1>3, <3>1, <3>3, <3>4, Reaches
    <3> QED
      BY <1>1, <2>2, <3>5
  <2> QED
    BY <1>3, <2>1, <2>2 DEF FlowOK, NoFlow, Shared
<1> QED
  BY <1>2, <1>3

LEMMA PmNext ==
  ASSUME ChainInv, CallsInv, FwInv, OnePerChain, NatInv, OneMeaning, PmInv, [Next]_vars
  PROVE  PmInv'
<1>1. ASSUME flows' = flows
      PROVE  /\ FlowsTyped'
             /\ \A b \in Att : \A f \in Usable : AllPlaced(b, f) =>
                   \A m \in UdpOf(b, f) : ip'[b] = ip[b] /\ FlowOK(b, f, m) => FlowOK(b, f, m)'
  BY <1>1 DEF PmInv, FlowsTyped, FlowOK, NoFlow, Shared
<1>2. ASSUME NEW a \in Att, Running(a, "portmap"), PortmapStep(a) PROVE PmInv'
  BY <1>2, PmOwn
<1>3. ASSUME NEW a \in Att, Running(a, "firewall"), FirewallStep(a), UNCHANGED portmapVars,
             \A b \in Att : Quiet(b, "portmap")
      PROVE  PmInv'
  <2>1. flows' = flows /\ logged' = logged
    BY <1>3 DEF portmapVars
  <2> QED
    BY <1>1, <1>3, <2>1, FwNat, PmQuiet
<1>4. CASE /\ Elsewhere
           /\ flows' = flows \/ \E f \in Usable, p \in UdpPorts : Traffic(f, p)
  <2>1. \A f \in {4, 6} : \A c : RulesIn(NatTable(f), c)' = RulesIn(NatTable(f), c)
    BY <1>4 DEF Elsewhere, RulesIn, ChainExists
  <2>2. /\ FlowsTyped'
        /\ \A b \in Att : \A f \in Usable : AllPlaced(b, f) =>
              \A m \in UdpOf(b, f) : ip'[b] = ip[b] /\ FlowOK(b, f, m) => FlowOK(b, f, m)'
    BY <1>1, <1>4, PmTraffic DEF CallsInv, PmInv
  <2> QED
    BY <1>4, <2>1, <2>2, PmQuiet DEF Elsewhere
<1> QED
  BY <1>2, <1>3, <1>4, NextCases

LEMMA PmInit == Init => PmInv
<1> SUFFICES ASSUME Init PROVE PmInv
  OBVIOUS
<1>1. PICK plugin : plugin = "portmap"
  OBVIOUS
<1>2. \A b \in Att : ~Running(b, plugin) /\ ~Done(b, plugin)
  BY IdleFirst
<1>3. ASSUME NEW b \in Att, NEW f \in Usable PROVE MarksFirst(b, f)
  <2>1. DnRules(f, b) = <<>>
    BY NoRulesFirst, IptAssumption, PortmapAssumption DEF DnRules, NatTable
  <2> QED
    BY <2>1 DEF MarksFirst, First
<1>4. flows = [f \in Usable |-> [p \in UdpPorts |-> NoFlow]]
  BY DEF Init, PortmapInit
<1>5. FlowsTyped
  <2>1. PICK fl, n : fl = flows /\ n = NoFlow
    OBVIOUS
  <2>2. fl = [f \in Usable |-> [p \in UdpPorts |-> n]]
    BY <1>4, <2>1
  <2>3. fl = [f \in Usable |-> [p \in UdpPorts |-> fl[f][p]]]
    BY <2>2
  <2> QED
    BY <2>1, <2>3 DEF FlowsTyped
<1> QED
  BY <1>1, <1>2, <1>3, <1>5 DEF PmInv, PmOK

LEMMA PmInvariant == OnePerChain /\ ListsWork /\ OneMeaning => (Spec => []PmInv)
<1> SUFFICES ASSUME OnePerChain, ListsWork, OneMeaning PROVE Spec => []PmInv
  OBVIOUS
<1>1. ChainInv /\ (CallsInv /\ FwInv) /\ NatInv /\ PmInv /\ [Next]_vars => PmInv'
  BY PmNext
<1> QED
  BY <1>1, PmInit, ChainInvariant, CallsInvariant, NatInvariant, PTL DEF Spec


-----------------------------------------------------------------------------
(* What an attachment that is ready finds.                                 *)

LEMMA ReadyPorts ==
  ASSUME PmInv, NEW a \in Att, Ready(a, "portmap"), NEW f \in ContFams(a), NEW i \in DOMAIN Mappings[a]
  PROVE  /\ f \in Usable /\ AllPlaced(a, f) /\ MarksFirst(a, f)
         /\ \A m \in UdpOf(a, f) : a \notin logged => FlowOK(a, f, m)
<1>1. PmAdding(a, <<>>) /\ \A g \in Usable : MarksFirst(a, g)
  BY DEF PmInv, PmOK, Done
<1>2. ToSet(<<>>) = {}
  BY NoSeq
<1>3. Mappings[a] # <<>>
  BY NoSeq
<1>4. PmAll(a, <<>>)
  BY <1>1, <1>2, <1>3 DEF PmAdding
<1>5. f \in Usable
  BY <1>4 DEF PmAll
<1>6. AllPlaced(a, f)
  BY <1>2, <1>4 DEF PmAll, PmComes, Makers, AllPlaced
<1>7. \A m \in UdpOf(a, f) : a \notin logged => FlowOK(a, f, m)
  BY <1>1, <1>2, <1>5 DEF PmAdding, PmFamily, PmFlows, Purges
<1> QED
  BY <1>1, <1>5, <1>6, <1>7

(* What comes for a mapped port of an attachment that is ready goes to its *)
(* address, and comes back through the host where it must, with any number *)
(* of attachments, any interleaving of their commands, and any failure or  *)
(* kill of the commands of the others (forwardPorts and unforwardPorts of  *)
(* plugins/meta/portmap, whose chains are shared).                         *)
THEOREM ForwardsPorts ==
  OnePerChain /\ ListsWork /\ OneMeaning /\ OwnMark => (Spec => []Forwarded)
<1> SUFFICES ASSUME OnePerChain, ListsWork, OneMeaning, OwnMark PROVE Spec => []Forwarded
  OBVIOUS
<1>1. TablesOK /\ NatInv /\ PmInv => Forwarded
  <2> SUFFICES ASSUME TablesOK, NatInv, PmInv, NEW a \in Att, Ready(a, "portmap"), NEW f \in ContFams(a),
                      NEW i \in DOMAIN Mappings[a], NEW pkt \in Packets, For(Mappings[a][i], f, pkt)
               PROVE  /\ Dnat(f, pkt) = <<"DNAT", <<ip[a], Mappings[a][i].cont>>>>
                      /\ SNAT[a] /\ (pkt.from = ip[a] \/ (pkt.from = "localhost" /\ f = 4))
                            => Masqueraded(f, pkt)
    BY DEF Forwarded
  <2>1. PICK m : m = Mappings[a][i]
    OBVIOUS
  <2>2. m \in FitOf(a, f) /\ For(m, f, pkt)
    BY <2>1 DEF FitOf, Fits, For
  <2>3. f \in Usable /\ AllPlaced(a, f) /\ MarksFirst(a, f)
    BY ReadyPorts
  <2>4. Dnat(f, pkt) = <<"DNAT", <<ip[a], m.cont>>>>
    BY <2>2, <2>3, Reaches
  <2>5. SNAT[a] /\ (pkt.from = ip[a] \/ (pkt.from = "localhost" /\ f = 4)) => Masqueraded(f, pkt)
    BY <2>2, <2>3, ComesBack
  <2> QED
    BY <2>1, <2>4, <2>5
<1> QED
  BY <1>1, CallsInvariant, NatInvariant, PmInvariant, PTL DEF CallsInv

(* A client that sent UDP packets before is not sent elsewhere once the    *)
(* attachment is ready, whatever its packets did between the calls of the  *)
(* ADD (deletePortmapStaleConnections after forwardPorts in cmdAdd of      *)
(* plugins/meta/portmap). *)
THEOREM NoFlowIsStale == OnePerChain /\ ListsWork /\ OneMeaning => (Spec => []NoStaleFlow)
<1> SUFFICES ASSUME OnePerChain, ListsWork, OneMeaning PROVE Spec => []NoStaleFlow
  OBVIOUS
<1>1. PmInv => NoStaleFlow
  <2> SUFFICES ASSUME PmInv, NEW a \in Att \ logged, Ready(a, "portmap"), NEW f \in ContFams(a),
                      NEW i \in DOMAIN Mappings[a], Mappings[a][i].proto = "udp", Mappings[a][i].hip = "none"
               PROVE  flows[f][Mappings[a][i].host] \in {NoFlow, <<"DNAT", <<ip[a], Mappings[a][i].cont>>>>}
    BY DEF NoStaleFlow
  <2>1. PICK m : m = Mappings[a][i]
    OBVIOUS
  <2>2. m \in UdpOf(a, f)
    BY <2>1 DEF UdpOf, FitOf, Fits
  <2>3. FlowOK(a, f, m)
    BY <2>2, ReadyPorts
  <2> QED
    BY <2>1, <2>3 DEF FlowOK
<1> QED
  BY <1>1, PmInvariant, PTL

-----------------------------------------------------------------------------
(* The chain of an attachment in the table of a family it has no address   *)
(* of: a DEL makes it, and removes it again.                               *)

Removing(a, f) == [IptCall("delchain", NatTable(f), DN(a)) EXCEPT !.fail = Failed]

\* The call makes the chain, or a call does that is made when it fails.
Revives(k, a, f) == k.op = "clear" /\ k.t = NatTable(f) /\ k.c = DN(a)
Renews(k, a, f) == Revives(k, a, f) \/ \E x \in ToSet(k.fail) : Revives(x, a, f)

\* When the call fails, the chain is not removed, and the command goes on.
Spares(k, a, f) == k.fail # Failed /\ Removing(a, f) \notin ToSet(k.fail)

\* The chain is still to be removed by the calls s, and not made after that.
Ending(s, a, f) ==
    \E n \in DOMAIN s :
        /\ s[n] = Removing(a, f)
        /\ \A j \in DOMAIN s : /\ j < n => ~Spares(s[j], a, f)
                               /\ j > n => ~Renews(s[j], a, f)

\* The calls s do not make the chain.
Ended(s, a, f) == \A k \in ToSet(s) : ~Renews(k, a, f)

LEMMA EndingTail ==
  ASSUME NEW a, NEW f, NEW s, IsSeq(s), s # <<>>, Ending(s, a, f)
  PROVE  \/ Head(s) = Removing(a, f) /\ Ended(Tail(s), a, f)
         \/ ~Spares(Head(s), a, f) /\ Ending(Tail(s), a, f)
<1>1. PICK n \in DOMAIN s :
         /\ s[n] = Removing(a, f)
         /\ \A j \in DOMAIN s : /\ j < n => ~Spares(s[j], a, f)
                                /\ j > n => ~Renews(s[j], a, f)
  BY DEF Ending
<1>2. /\ IsSeq(Tail(s)) /\ Head(s) = s[1] /\ Len(s) >= 1 /\ DOMAIN Tail(s) = 1 .. (Len(s) - 1)
      /\ \A i \in 1 .. (Len(s) - 1) : Tail(s)[i] = s[i + 1]
      /\ Len(s) \in Nat /\ DOMAIN s = 1 .. Len(s)
  BY TailSeq, SeqFacts
<1>3. CASE n = 1
  <2>1. \A i \in 1 .. (Len(s) - 1) : ~Renews(Tail(s)[i], a, f)
    BY <1>1, <1>2, <1>3
  <2> QED
    BY <1>1, <1>2, <1>3, <2>1 DEF Ended, ToSet
<1>4. CASE n # 1
  <2>1. n - 1 \in DOMAIN Tail(s) /\ Tail(s)[n - 1] = Removing(a, f)
    BY <1>1, <1>2, <1>4
  <2>2. \A j \in DOMAIN Tail(s) : /\ j < n - 1 => ~Spares(Tail(s)[j], a, f)
                                  /\ j > n - 1 => ~Renews(Tail(s)[j], a, f)
    <3> SUFFICES ASSUME NEW j \in DOMAIN Tail(s)
                 PROVE  /\ j < n - 1 => ~Spares(Tail(s)[j], a, f)
                        /\ j > n - 1 => ~Renews(Tail(s)[j], a, f)
      OBVIOUS
    <3>1. j + 1 \in DOMAIN s /\ Tail(s)[j] = s[j + 1] /\ j \in Nat /\ n \in Nat
      BY <1>2
    <3> QED
      BY <1>1, <3>1
  <2>3. Ending(Tail(s), a, f)
    BY <2>1, <2>2 DEF Ending
  <2>4. ~Spares(Head(s), a, f)
    BY <1>1, <1>2, <1>4
  <2> QED
    BY <2>3, <2>4
<1> QED
  BY <1>3, <1>4

\* Calls that stay with an error come before.
LEMMA EndingAfter ==
  ASSUME NEW a, NEW f, NEW p, NEW s, IsSeq(p), IsSeq(s), \A k \in ToSet(p) : ~Spares(k, a, f),
         Ending(s, a, f)
  PROVE  Ending(p \o s, a, f)
<1>1. PICK n \in DOMAIN s :
         /\ s[n] = Removing(a, f)
         /\ \A j \in DOMAIN s : /\ j < n => ~Spares(s[j], a, f)
                                /\ j > n => ~Renews(s[j], a, f)
  BY DEF Ending
<1>2. /\ Len(p) \in Nat /\ DOMAIN p = 1 .. Len(p) /\ Len(s) \in Nat /\ DOMAIN s = 1 .. Len(s)
      /\ \A i \in 1 .. Len(p) : p[i] \in ToSet(p)
  BY SeqFacts
<1>3. /\ DOMAIN (p \o s) = 1 .. (Len(p) + Len(s))
      /\ \A i \in 1 .. (Len(p) + Len(s)) : (p \o s)[i] = IF i <= Len(p) THEN p[i] ELSE s[i - Len(p)]
  BY ConcatSeq
<1> DEFINE m == Len(p) + n
<1>4. m \in DOMAIN (p \o s) /\ (p \o s)[m] = Removing(a, f)
  BY <1>1, <1>2, <1>3
<1>5. ASSUME NEW j \in DOMAIN (p \o s)
      PROVE  /\ j < m => ~Spares((p \o s)[j], a, f)
             /\ j > m => ~Renews((p \o s)[j], a, f)
  <2>1. CASE j <= Len(p)
    <3>1. (p \o s)[j] = p[j] /\ j \in 1 .. Len(p)
      BY <1>2, <1>3, <2>1
    <3>2. ~(j > m)
      BY <1>2, <2>1, <3>1
    <3> QED
      BY <1>2, <3>1, <3>2
  <2>2. CASE ~(j <= Len(p))
    <3>1. (p \o s)[j] = s[j - Len(p)] /\ j - Len(p) \in DOMAIN s
      BY <1>2, <1>3, <2>2
    <3>2. (j < m <=> j - Len(p) < n) /\ (j > m <=> j - Len(p) > n)
      BY <1>2, <1>3
    <3> QED
      BY <1>1, <3>1, <3>2
  <2> QED
    BY <2>1, <2>2
<1> QED
  BY <1>4, <1>5 DEF Ending

\* And calls that do not make the chain come after.
LEMMA EndingBefore ==
  ASSUME NEW a, NEW f, NEW s, NEW q, IsSeq(s), IsSeq(q), Ending(s, a, f), Ended(q, a, f)
  PROVE  Ending(s \o q, a, f)
<1>1. PICK n \in DOMAIN s :
         /\ s[n] = Removing(a, f)
         /\ \A j \in DOMAIN s : /\ j < n => ~Spares(s[j], a, f)
                                /\ j > n => ~Renews(s[j], a, f)
  BY DEF Ending
<1>2. /\ Len(q) \in Nat /\ DOMAIN q = 1 .. Len(q) /\ Len(s) \in Nat /\ DOMAIN s = 1 .. Len(s)
      /\ \A i \in 1 .. Len(q) : q[i] \in ToSet(q)
  BY SeqFacts
<1>3. /\ DOMAIN (s \o q) = 1 .. (Len(s) + Len(q))
      /\ \A i \in 1 .. (Len(s) + Len(q)) : (s \o q)[i] = IF i <= Len(s) THEN s[i] ELSE q[i - Len(s)]
  BY ConcatSeq
<1>4. n \in DOMAIN (s \o q) /\ (s \o q)[n] = Removing(a, f)
  BY <1>1, <1>2, <1>3
<1>5. ASSUME NEW j \in DOMAIN (s \o q)
      PROVE  /\ j < n => ~Spares((s \o q)[j], a, f)
             /\ j > n => ~Renews((s \o q)[j], a, f)
  <2>1. CASE j <= Len(s)
    <3>1. (s \o q)[j] = s[j] /\ j \in DOMAIN s
      BY <1>2, <1>3, <2>1
    <3> QED
      BY <1>1, <3>1
  <2>2. CASE ~(j <= Len(s))
    <3>1. (s \o q)[j] = q[j - Len(s)] /\ j - Len(s) \in 1 .. Len(q)
      BY <1>2, <1>3, <2>2
    <3>2. ~(j < n)
      BY <1>2, <1>3, <2>2
    <3> QED
      BY <1>2, <3>1, <3>2 DEF Ended
  <2> QED
    BY <2>1, <2>2
<1> QED
  BY <1>4, <1>5 DEF Ending

LEMMA EndedConcat ==
  ASSUME NEW a, NEW f, NEW s, NEW q, IsSeq(s), IsSeq(q), Ended(s, a, f), Ended(q, a, f)
  PROVE  Ended(s \o q, a, f)
<1>1. ToSet(s \o q) = ToSet(s) \cup ToSet(q)
  BY ConcatSeq
<1> QED
  BY <1>1 DEF Ended


\* The removal of the chain of a, and of another one.
LEMMA TeardownEnding ==
  ASSUME NEW a, NEW f, NEW into
  PROVE  Ending(teardown(f, DN(a), into, Failed), a, f)
<1> DEFINE x == IptCall("clear", NatTable(f), DN(a))
           y == [IptCall("list", NatTable(f), into) EXCEPT !.r = JumpTo(DN(a))]
           z == IptCall("delchain", NatTable(f), DN(a))
           q == <<x, y, z>>
           s == teardown(f, DN(a), into, Failed)
           Failing(k) == [k EXCEPT !.fail = Failed]
<1>1. s = [i \in DOMAIN q |-> [q[i] EXCEPT !.fail = Failed]]
  BY DEF teardown, OnError
<1>2. DOMAIN q = 1 .. 3 /\ q[1] = x /\ q[2] = y /\ q[3] = z
  OBVIOUS
<1>3. Failing(x).fail = Failed /\ Failing(y).fail = Failed
  BY DEF IptCall
<1>4. Failing(z) = Removing(a, f)
  BY DEF Removing
<1> HIDE DEF x, y, z, q, s
<1>5. s[1] = Failing(x) /\ s[2] = Failing(y) /\ s[3] = Failing(z) /\ DOMAIN s = 1 .. 3
  BY <1>1, <1>2
<1> HIDE DEF Failing
<1>6. ~Spares(s[1], a, f) /\ ~Spares(s[2], a, f) /\ s[3] = Removing(a, f)
  BY <1>3, <1>4, <1>5 DEF Spares
<1>7. \A j \in 1 .. 3 : (j < 3 => j = 1 \/ j = 2) /\ ~(j > 3)
  OBVIOUS
<1>8. \A j \in DOMAIN s : (j < 3 => ~Spares(s[j], a, f)) /\ (j > 3 => ~Renews(s[j], a, f))
  BY <1>5, <1>6, <1>7
<1>9. 3 \in DOMAIN s
  BY <1>5
<1> QED
  BY <1>6, <1>8, <1>9 DEF Ending, s

\* Calls that are about other chains, or another family.
LEMMA TearsOther ==
  ASSUME NEW a, NEW f, NEW k, NEW g, NEW name, TearsDown(k, g, name), g # f \/ name # DN(a)
  PROVE  ~Revives(k, a, f)
BY DEF TearsDown, Revives, NatTable

LEMMA NotRevived ==
  ASSUME NEW a, NEW f
  PROVE  \A x \in ToSet(Failed) : ~Revives(x, a, f)
BY OneSeq DEF Failed, Revives

LEMMA SixEnding ==
  ASSUME NEW a
  PROVE  /\ Ending(Six(a), a, 6) /\ Ended(Six(a), a, 4)
         /\ Removing(a, 6) \in ToSet(Six(a))
<1> DEFINE s == dnOf(a, 6, Failed)
           t == snOf(a, 6, <<>>)
<1>1. IsSeq(s) /\ \A k \in ToSet(s) : k.fail = Failed /\ TearsDown(k, 6, DN(a))
  <2>1. s = teardown(6, DN(a), Shared("HOSTPORT-DNAT"), Failed)
    BY DEF dnOf
  <2> HIDE DEF s
  <2> QED
    BY <2>1, TearsFacts
<1>2. IsSeq(t) /\ \A k \in ToSet(t) : k.fail = <<>> /\ TearsDown(k, 6, OldSN(a))
  <2>1. t = teardown(6, OldSN(a), Shared("HOSTPORT-SNAT"), <<>>)
    BY DEF snOf
  <2> HIDE DEF t
  <2> QED
    BY <2>1, TearsFacts
<1>3. Ending(s, a, 6)
  BY TeardownEnding DEF dnOf
<1>4. Six(a) = s \o t
  BY DEF Six
<1> HIDE DEF s, t
<1>5. OldSN(a) # DN(a)
  BY ChainNames
<1>6. Ended(t, a, 6)
  BY <1>2, <1>5, TearsOther, NoSeq DEF Ended, Renews
<1>7. Ending(Six(a), a, 6)
  BY <1>1, <1>2, <1>3, <1>4, <1>6, EndingBefore
<1>8. ToSet(Six(a)) = ToSet(s) \cup ToSet(t)
  BY <1>1, <1>2, <1>4, ConcatSeq
<1>9. Removing(a, 6) \in ToSet(s)
  BY <1>3 DEF Ending, ToSet
<1>10. Ended(Six(a), a, 4)
  BY <1>1, <1>2, <1>8, TearsOther, NotRevived, NoSeq DEF Ended, Renews
<1> QED
  BY <1>7, <1>8, <1>9, <1>10

LEMMA UnforwardEnding ==
  ASSUME NEW a, NEW found, found \subseteq Usable, NEW f \in found
  PROVE  Ending(unforwardPorts(a, found), a, f)
<1> DEFINE six == IF 6 \in found THEN Six(a) ELSE <<>>
           s == dnOf(a, 4, Failed)
           t == snOf(a, 4, six)
           four == IF 4 \in found THEN s \o t ELSE <<>>
           all == unforwardPorts(a, found)
<1>1. all = four \o six
  BY DEF unforwardPorts, dnOf, snOf, Six
<1>2. IsSeq(s) /\ \A k \in ToSet(s) : k.fail = Failed /\ TearsDown(k, 4, DN(a))
  <2>1. s = teardown(4, DN(a), Shared("HOSTPORT-DNAT"), Failed)
    BY DEF dnOf
  <2> HIDE DEF s
  <2> QED
    BY <2>1, TearsFacts
<1>3. IsSeq(t) /\ \A k \in ToSet(t) : k.fail = six /\ TearsDown(k, 4, OldSN(a))
  <2>1. t = teardown(4, OldSN(a), Shared("HOSTPORT-SNAT"), six)
    BY DEF snOf
  <2> HIDE DEF t, six
  <2> QED
    BY <2>1, TearsFacts
<1>4. Ending(s, a, 4)
  BY TeardownEnding DEF dnOf
<1>5. IsSeq(six) /\ Ended(six, a, 4)
  BY SixFacts, SixEnding, NoSeq DEF Ended
<1>6. 6 \in found => six = Six(a)
  OBVIOUS
<1> HIDE DEF s, t, six
<1>7. /\ IsSeq(s \o t) /\ ToSet(s \o t) = ToSet(s) \cup ToSet(t)
  BY <1>2, <1>3, ConcatSeq
<1>8. IsSeq(four) /\ ToSet(four) \subseteq ToSet(s) \cup ToSet(t)
  BY <1>7, NoSeq
<1>9. CASE f = 4
  <2>1. OldSN(a) # DN(a)
    BY ChainNames
  <2>2. \A k \in ToSet(t) : ~Revives(k, a, 4) /\ \A x \in ToSet(six) : ~Revives(x, a, 4)
    BY <1>3, <1>5, <2>1, TearsOther DEF Ended, Renews
  <2>3. Ended(t, a, 4)
    BY <1>3, <2>2 DEF Ended, Renews
  <2>4. Ending(four, a, 4)
    BY <1>2, <1>3, <1>4, <1>9, <2>3, EndingBefore
  <2> HIDE DEF four
  <2> QED
    BY <1>1, <1>5, <1>8, <1>9, <2>4, EndingBefore DEF all
<1>10. CASE f = 6
  <2>1. Removing(a, 6) \in ToSet(six) /\ Ending(six, a, 6)
    BY <1>6, <1>10, SixEnding
  <2>2. \A k \in ToSet(four) : ~Spares(k, a, 6)
    BY <1>2, <1>3, <1>8, <2>1 DEF Spares
  <2> HIDE DEF four
  <2> QED
    BY <1>1, <1>5, <1>8, <1>10, <2>1, <2>2, EndingAfter DEF all
<1>11. f = 4 \/ f = 6
  BY PortmapAssumption
<1> QED
  BY <1>9, <1>10, <1>11


NoChain(b, f) == ~ChainExists(NatTable(f), DN(b))

\* A DEL that has begun to remove the chain, or has nothing to remove.
Unmakes(b, f, s) == (NoChain(b, f) /\ Ended(s, b, f)) \/ Ending(s, b, f)

\* What a call of portmap does to the chains of others, and an ADD to its own.
LEMMA NoChainKept ==
  ASSUME ChainInv, TablesOK, NEW a \in Att, PmTyped(a), IptStep(a, "portmap"), NEW k, k = Call(a),
         NEW b \in Att, NEW f \in Usable, NoChain(b, f),
         b = a => (proc[a].cmd = "add" /\ f \notin ContFams(a)) \/ (proc[a].cmd = "del" /\ ~Revives(k, a, f))
  PROVE  NoChain(b, f)'
<1>1. /\ proc[a].cmd \in {"add", "del"}
      /\ proc[a].cmd = "add" => k.op = "abort" \/ (AddIpt(a, k) /\ k.op \in {"ensure", "unique", "insert"})
      /\ proc[a].cmd = "del" => PmDelCall(a, k) /\ k.op \notin {"unique", "ensure", "insert", "abort"}
      /\ k.op # "abort" => k.t \in Tables
  BY PmIptCalls
<1>2. TablesOK' /\ (tables' = tables \/ (k.op # "abort" /\ Effect(k)))
  BY <1>1, IptOutcome DEF Goes
<1>3. CASE tables' = tables
  BY <1>3 DEF NoChain, ChainExists
<1>4. CASE k.op # "abort" /\ Effect(k)
  <2>1. NatTable(f) \in Tables /\ \A g : NatTable(f) = NatTable(g) => f = g
    BY IptAssumption, PortmapAssumption DEF NatTable
  <2> SUFFICES ASSUME MakesChain(k, NatTable(f), DN(b)) PROVE FALSE
    BY <1>1, <1>2, <1>4, <2>1, EffectFacts DEF NoChain
  <2>2. k.t = NatTable(f) /\ k.c = DN(b) /\ k.op \in {"ensure", "clear"}
    BY DEF MakesChain
  <2>3. CASE proc[a].cmd = "add"
    <3>1. AddIpt(a, k) /\ k.op = "ensure"
      BY <1>1, <1>4, <2>2, <2>3
    <3>2. f \in ContFams(a) /\ NoOthers(a, k.c)
      BY <2>1, <2>2, <3>1 DEF AddIpt
    <3>3. b = a
      BY <2>2, <3>2 DEF NoOthers
    <3> QED
      BY <2>2, <2>3, <3>1, <3>2, <3>3 DEF Revives
  <2>4. CASE proc[a].cmd = "del"
    <3>1. PmDelCall(a, k) /\ k.op = "clear"
      BY <1>1, <2>2, <2>4
    <3>2. DN(b) \in {DN(a), OldSN(a)}
      BY <2>2, <3>1 DEF PmDelCall
    <3>3. b = a
      BY <3>2, ChainNames
    <3> QED
      BY <2>2, <2>4, <3>1, <3>3 DEF Revives
  <2> QED
    BY <1>1, <2>3, <2>4
<1> QED
  BY <1>2, <1>3, <1>4

\* The failures of a removal make no chain that the calls would not.
LEMMA SixFails ==
  ASSUME NEW a, NEW f \in {4, 6}, \A x \in ToSet(Six(a)) : ~Revives(x, a, f)
  PROVE  Ended(Six(a), a, f)
<1>1. \A k \in ToSet(Six(a)) : k.fail = Failed \/ k.fail = <<>>
  BY SixFacts
<1> QED
  BY <1>1, NotRevived, NoSeq DEF Ended, Renews

\* A call of a DEL, for the chain that is removed.
LEMMA EndStep ==
  ASSUME ChainInv, TablesOK, NEW a \in Att, PmTyped(a), IptStep(a, "portmap"), proc[a].cmd = "del",
         NEW f \in Usable, Unmakes(a, f, proc[a].todo), Running(a, "portmap")',
         NEW new, new = proc'[a].todo
  PROVE  (NoChain(a, f)' /\ Ended(new, a, f)) \/ Ending(new, a, f)
<1>0. PICK k, todo, rest : /\ k = Call(a) /\ todo = proc[a].todo /\ rest = Rest(a)
  OBVIOUS
<1>1. /\ k \in ToSet(todo) /\ todo # <<>> /\ PmDelCall(a, k)
      /\ k.op \notin {"unique", "ensure", "insert", "abort"} /\ k.t \in Tables
      /\ IsSeq(todo) /\ k = Head(todo) /\ rest = Tail(todo)
  BY <1>0, PmIptCalls DEF PmTyped, Call, Rest
<1>2. f \in {4, 6}
  BY PortmapAssumption
<1>3. Goes(a, k)
  BY <1>0, <1>1, IptOutcome
<1>4. IsSeq(rest) /\ ToSet(todo) = {k} \cup ToSet(rest)
  BY <1>1, TailSeq
<1> DEFINE d == OnError(Deletes(k), k.fail)
<1>5. IsSeq(d) /\ \A x \in ToSet(d) : x.op = "delete" /\ x.fail = k.fail
  BY <1>1, DeletesFacts
<1>6. \/ Effect(k) /\ new = rest
      \/ k.op = "list" /\ new = rest
      \/ k.op = "list" /\ new = d \o rest
      \/ k.fail # Failed /\ new = IF k.fail = GoOn THEN rest ELSE k.fail
  BY <1>0, <1>1, <1>3 DEF Goes
<1> HIDE DEF d
<1>7. k.fail # GoOn
  <2>1. ToSet(GoOn) = {[op |-> "go on"]} /\ ToSet(Failed) = {[op |-> "abort"]} /\ ToSet(<<>>) = {}
    BY OneSeq, NoSeq DEF GoOn, Failed
  <2>2. [op |-> "go on"].op = "go on" /\ [op |-> "abort"].op = "abort"
    OBVIOUS
  <2>3. GoOn # Failed /\ GoOn # <<>> /\ Six(a) # GoOn
    BY <2>1, <2>2, SixFacts
  <2> QED
    BY <1>1, <2>3 DEF PmDelCall
<1>8. ASSUME ~Renews(k, a, f) PROVE Ended(d, a, f)
  BY <1>5, <1>8 DEF Ended, Renews, Revives
<1>9. ASSUME ~Spares(k, a, f) PROVE \A x \in ToSet(d) : ~Spares(x, a, f)
  BY <1>5, <1>9 DEF Spares
<1>10. CASE NoChain(a, f) /\ Ended(todo, a, f)
  <2>1. ~Renews(k, a, f) /\ Ended(rest, a, f)
    BY <1>1, <1>4, <1>10 DEF Ended
  <2>2. NoChain(a, f)'
    BY <1>0, <1>10, <2>1, NoChainKept DEF Renews
  <2>3. Ended(d \o rest, a, f)
    BY <1>4, <1>5, <1>8, <2>1, EndedConcat
  <2>4. ASSUME k.fail # Failed PROVE Ended(k.fail, a, f)
    <3>1. \A x \in ToSet(k.fail) : ~Revives(x, a, f)
      BY <2>1 DEF Renews
    <3>2. k.fail = <<>> \/ k.fail = Six(a)
      BY <1>1, <2>4 DEF PmDelCall
    <3> QED
      BY <1>2, <3>1, <3>2, SixFails, NoSeq DEF Ended
  <2> QED
    BY <1>6, <1>7, <2>1, <2>2, <2>3, <2>4
<1>11. CASE Ending(todo, a, f)
  <2>1. \/ k = Removing(a, f) /\ Ended(rest, a, f)
        \/ ~Spares(k, a, f) /\ Ending(rest, a, f)
    BY <1>1, <1>11, EndingTail
  <2>2. CASE k = Removing(a, f) /\ Ended(rest, a, f)
    <3>1. k.op = "delchain" /\ k.t = NatTable(f) /\ k.c = DN(a) /\ k.fail = Failed
      BY <2>2 DEF Removing, IptCall
    <3>2. Effect(k) /\ new = rest
      BY <1>6, <3>1
    <3>3. NoChain(a, f)'
      BY <3>1, <3>2 DEF Effect, NoChain
    <3> QED
      BY <2>2, <3>2, <3>3
  <2>3. CASE ~Spares(k, a, f) /\ Ending(rest, a, f)
    <3>1. Ending(d \o rest, a, f)
      BY <1>4, <1>5, <1>9, <2>3, EndingAfter
    <3>2. ASSUME k.fail # Failed PROVE Ending(k.fail, a, f)
      <4>1. Removing(a, f) \in ToSet(k.fail)
        BY <2>3, <3>2 DEF Spares
      <4>2. k.fail = Six(a)
        BY <1>1, <3>2, <4>1, NoSeq DEF PmDelCall
      <4>3. Removing(a, f).t = NatTable(6)
        BY <4>1, <4>2, SixFacts DEF TearsDown
      <4>4. f = 6
        BY <4>3 DEF Removing, IptCall, NatTable
      <4> QED
        BY <4>2, <4>4, SixEnding
    <3> QED
      BY <1>6, <1>7, <2>3, <3>1, <3>2
  <2> QED
    BY <2>1, <2>2, <2>3
<1> QED
  BY <1>0, <1>10, <1>11 DEF Unmakes


\* What is known of the chain of b in the table of a family it has no address of.
CnOK(b, f) ==
    /\ \/ Clear(b, "portmap")
       \/ Done(b, "portmap")
       \/ Running(b, "portmap") /\ proc[b].cmd = "add"
       => NoChain(b, f)
    /\ Running(b, "portmap") /\ proc[b].cmd = "del" /\ proc[b].todo # Start => Unmakes(b, f, proc[b].todo)

CnInv == \A b \in Att : Mappings[b] # <<>> => \A f \in Usable \ ContFams(b) : CnOK(b, f)

\* A DEL begins with the chain to be removed.
LEMMA EndStarts ==
  ASSUME ChainInv, ListsWork, NEW a \in Att, Running(a, "portmap"), PortmapStart(a),
         proc[a].cmd = "del", Running(a, "portmap")', NEW f \in Usable, Mappings[a] # <<>>
  PROVE  Ending(proc'[a].todo, a, f)
<1>1. ~Error(a)
  BY ErrorFacts
<1>2. PortmapDel(a)
  BY DEF PortmapStart, PortmapAdd, PortmapCheck
<1>3. UnforwardFound(a)
  BY <1>1, <1>2 DEF PortmapDel
<1>4. CASE Do(a, unforwardPorts(a, Usable))
  BY <1>4, DoFacts, UnforwardEnding
<1>5. ASSUME NEW g \in Usable, Fault(a, IF Usable = {g} THEN Failed ELSE unforwardPorts(a, Usable \ {g}))
      PROVE  FALSE
  <2>1. <<"portmap", "del">> \in MayFail
    BY <1>5 DEF Fault, Running
  <2>2. Usable = {g}
    BY <2>1 DEF ListsWork
  <2> QED
    BY <1>5, <2>2, FaultFacts
<1> QED
  BY <1>3, <1>4, <1>5 DEF UnforwardFound

LEMMA UnmakesNext ==
  ASSUME NEW b, NEW f,
         (NoChain(b, f)' /\ Ended(proc'[b].todo, b, f)) \/ Ending(proc'[b].todo, b, f)
  PROVE  Unmakes(b, f, proc[b].todo)'
BY DEF Unmakes

\* A step that leaves the nat tables alone, and the processes of portmap.
LEMMA CnQuiet ==
  ASSUME CnInv, \A b \in Att : Quiet(b, "portmap"),
         \A f \in {4, 6} : \A c : ChainExists(NatTable(f), c)' <=> ChainExists(NatTable(f), c)
  PROVE  CnInv'
<1> SUFFICES ASSUME NEW b \in Att, Mappings[b] # <<>>, NEW f \in Usable \ ContFams(b) PROVE CnOK(b, f)'
  BY DEF CnInv, ContFams
<1>1. CnOK(b, f) /\ Quiet(b, "portmap") /\ (NoChain(b, f)' <=> NoChain(b, f))
  BY PortmapAssumption DEF CnInv, NoChain
<1>2. ASSUME \/ Clear(b, "portmap")'
             \/ Done(b, "portmap")'
             \/ Running(b, "portmap")' /\ proc'[b].cmd = "add"
      PROVE  NoChain(b, f)'
  <2>1. ASSUME Running(b, "portmap")', proc'[b].cmd = "add", proc'[b].todo = Start
        PROVE  Clear(b, "portmap")'
    BY <2>1 DEF Clear
  <2> QED
    BY <1>1, <1>2, <2>1 DEF CnOK, Quiet
<1>3. ASSUME Running(b, "portmap")', proc'[b].cmd = "del", proc'[b].todo # Start
      PROVE  Unmakes(b, f, proc[b].todo)'
  <2>1. Running(b, "portmap") /\ proc'[b] = proc[b]
    BY <1>1, <1>3 DEF Quiet
  <2>2. Unmakes(b, f, proc[b].todo)
    BY <1>1, <1>3, <2>1 DEF CnOK
  <2> QED
    BY <1>1, <2>1, <2>2, UnmakesNext DEF Unmakes
<1> QED
  BY <1>2, <1>3 DEF CnOK

LEMMA CnOwn ==
  ASSUME ChainInv, CallsInv, OnePerChain, ListsWork, CnInv, NEW a \in Att,
         Running(a, "portmap"), PortmapStep(a)
  PROVE  CnInv'
<1>1. Steps(a) /\ ip' = ip /\ TablesOK
  BY PortmapSteps DEF Steps, CallsInv
<1>2. ASSUME IptStep(a, "portmap") PROVE PmTyped(a) /\ proc[a].todo # Start
  BY <1>2, IptOps, CallOps DEF CallsInv, PmCalls
<1>3. IptStep(a, "portmap") \/ tables' = tables
  BY DEF PortmapStep, PortmapStart, enableLocalnetRouting, PurgeFlows
<1>4. ASSUME NEW b \in Att, NEW f \in Usable \ ContFams(b), NoChain(b, f),
             b = a => proc[a].cmd # "del"
      PROVE  NoChain(b, f)'
  <2>1. CASE IptStep(a, "portmap")
    <3>1. proc[a].cmd \in {"add", "del"}
      BY <1>2, <2>1, PmIptCalls
    <3> QED
      BY <1>1, <1>2, <1>4, <2>1, <3>1, NoChainKept
  <2>2. CASE tables' = tables
    BY <1>4, <2>2 DEF NoChain, ChainExists
  <2> QED
    BY <1>3, <2>1, <2>2
<1>5. ASSUME NEW b \in Att \ {a}, Mappings[b] # <<>>, NEW f \in Usable \ ContFams(b) PROVE CnOK(b, f)'
  <2>1. PICK plugin : plugin = "portmap"
    OBVIOUS
  <2>2. /\ Plugins' = Plugins /\ proc'[b] = proc[b] /\ told'[b] = told[b]
        /\ Running(b, plugin)' <=> Running(b, plugin)
        /\ Done(b, plugin)' <=> Done(b, plugin)
        /\ NotBegun(b, plugin)' <=> NotBegun(b, plugin)
        /\ Undone(b, plugin)' <=> Undone(b, plugin)
    BY <1>1, <2>1, OwnPlugin
  <2>3. Clear(b, plugin)' <=> Clear(b, plugin)
    BY <2>2 DEF Clear
  <2>4. CnOK(b, f) /\ (NoChain(b, f) => NoChain(b, f)')
    BY <1>4, <1>5 DEF CnInv
  <2>5. ASSUME Running(b, plugin), proc[b].cmd = "del", proc[b].todo # Start
        PROVE  Unmakes(b, f, proc[b].todo)'
    <3>1. Unmakes(b, f, proc[b].todo)
      BY <2>1, <2>4, <2>5 DEF CnOK
    <3> QED
      BY <2>2, <2>4, <3>1, UnmakesNext DEF Unmakes
  <2> QED
    BY <2>1, <2>2, <2>3, <2>4, <2>5 DEF CnOK
<1>6. ASSUME Mappings[a] # <<>>, NEW f \in Usable \ ContFams(a) PROVE CnOK(a, f)'
  <2>1. PICK plugin : plugin = "portmap"
    OBVIOUS
  <2>2. /\ plugin \in Plugins' /\ told'[a] # "gone" /\ ~NotBegun(a, plugin)'
        /\ ~Running(a, plugin)' => ~Undone(a, plugin)' /\ ~Done(a, plugin)'
        /\ Running(a, plugin)' /\ Undone(a, plugin)' => proc[a].cmd = "del" /\ proc'[a].todo = <<>>
        /\ Running(a, plugin)' => proc'[a].cmd = proc[a].cmd
        /\ Running(a, plugin)' /\ Done(a, plugin)' => Ready(a, plugin) \/ proc[a].cmd = "add"
    BY <1>1, <2>1, OwnPlugin
  <2>3. CnOK(a, f)
    BY <1>6 DEF CnInv
  <2>4. CASE ~Running(a, plugin)'
    BY <2>1, <2>2, <2>4 DEF CnOK, Clear
  <2>5. CASE Running(a, plugin)' /\ proc[a].cmd # "del"
    <3>1. NoChain(a, f)
      <4>1. CASE proc[a].cmd = "add"
        BY <2>1, <2>3, <4>1 DEF CnOK
      <4>2. CASE proc[a].cmd # "add"
        <5>1. proc[a].cmd = "check" /\ told[a] = "ready" /\ proc[a].i \in DOMAIN chain
          BY <2>5, <4>2 DEF ChainInv, ProcOK, Running, Idle
        <5>2. Done(a, "portmap")
          BY <5>1 DEF Done, Ready, Running
        <5> QED
          BY <2>3, <5>2 DEF CnOK
      <4> QED
        BY <4>1, <4>2
    <3>2. NoChain(a, f)'
      BY <1>4, <2>5, <3>1
    <3> QED
      BY <2>1, <2>2, <2>5, <3>2 DEF CnOK
  <2>6. CASE Running(a, plugin)' /\ proc[a].cmd = "del"
    <3>1. (NoChain(a, f)' /\ Ended(proc'[a].todo, a, f)) \/ Ending(proc'[a].todo, a, f)
      <4>1. CASE IptStep(a, "portmap")
        <5>1. Unmakes(a, f, proc[a].todo)
          BY <1>2, <2>3, <2>6, <4>1 DEF CnOK
        <5>2. PICK new : new = proc'[a].todo
          OBVIOUS
        <5>3. (NoChain(a, f)' /\ Ended(new, a, f)) \/ Ending(new, a, f)
          BY <1>1, <1>2, <2>1, <2>6, <4>1, <5>1, <5>2, EndStep
        <5> QED
          BY <5>2, <5>3
      <4>2. CASE PortmapStart(a)
        <5>1. Ending(proc'[a].todo, a, f)
          BY <1>6, <2>1, <2>6, <4>2, EndStarts
        <5> QED
          BY <5>1
      <4>3. CASE enableLocalnetRouting(a) \/ PurgeFlows(a)
        <5>1. proc[a].todo # <<>> /\ Call(a).op \in {"localnet", "purge"}
          BY <4>3 DEF enableLocalnetRouting, PurgeFlows, At, Call
        <5>2. PmTyped(a) /\ IsSeq(proc[a].todo)
          BY <5>1, CallOps DEF CallsInv, PmCalls, PmTyped
        <5>3. PmDelCall(a, Call(a))
          BY <2>6, <5>1, <5>2, CallOps DEF PmTyped
        <5> QED
          BY <5>1, <5>3 DEF PmDelCall
      <4> QED
        BY <4>1, <4>2, <4>3 DEF PortmapStep
    <3>2. ~Ready(a, plugin)
      BY <2>6 DEF ChainInv, ProcOK, Ready
    <3>3. proc'[a].todo = <<>> => NoChain(a, f)'
      <4>1. ASSUME proc'[a].todo = <<>>, Ending(<<>>, a, f) PROVE FALSE
        BY <4>1 DEF Ending
      <4> QED
        BY <3>1, <4>1
    <3> QED
      BY <2>1, <2>2, <2>6, <3>1, <3>2, <3>3, UnmakesNext DEF CnOK, Clear
  <2> QED
    BY <2>4, <2>5, <2>6
<1>7. \A b \in Att : ContFams(b)' = ContFams(b)
  BY DEF ContFams
<1> QED
  BY <1>5, <1>6, <1>7 DEF CnInv

LEMMA CnInit == Init => CnInv
<1> SUFFICES ASSUME Init, NEW b \in Att, NEW f \in Usable \ ContFams(b) PROVE CnOK(b, f)
  BY DEF CnInv
<1>1. NatTable(f) \in Tables
  BY IptAssumption, PortmapAssumption DEF NatTable
<1>2. NoChain(b, f)
  BY <1>1, ChainNamesAreNew DEF NoChain, ChainExists, Init, IptInit
<1>3. PICK plugin : plugin = "portmap"
  OBVIOUS
<1>4. ~Running(b, plugin)
  BY <1>3, IdleFirst
<1> QED
  BY <1>2, <1>3, <1>4 DEF CnOK

LEMMA CnNext ==
  ASSUME ChainInv, CallsInv, FwInv, OnePerChain, ListsWork, CnInv, [Next]_vars
  PROVE  CnInv'
<1>1. ASSUME NEW a \in Att, Running(a, "portmap"), PortmapStep(a) PROVE CnInv'
  BY <1>1, CnOwn
<1>2. ASSUME NEW a \in Att, Running(a, "firewall"), FirewallStep(a), \A b \in Att : Quiet(b, "portmap")
      PROVE  CnInv'
  BY <1>2, FwNat, CnQuiet
<1>3. CASE Elsewhere
  <2>1. \A f \in {4, 6} : \A c : ChainExists(NatTable(f), c)' <=> ChainExists(NatTable(f), c)
    BY <1>3 DEF Elsewhere, ChainExists
  <2> QED
    BY <1>3, <2>1, CnQuiet DEF Elsewhere
<1> QED
  BY <1>1, <1>2, <1>3, NextCases

LEMMA CnInvariant == OnePerChain /\ ListsWork => (Spec => []CnInv)
<1> SUFFICES ASSUME OnePerChain, ListsWork PROVE Spec => []CnInv
  OBVIOUS
<1>1. ChainInv /\ (CallsInv /\ FwInv) /\ CnInv /\ [Next]_vars => CnInv'
  BY CnNext
<1> QED
  BY <1>1, CnInit, ChainInvariant, CallsInvariant, PTL DEF Spec


-----------------------------------------------------------------------------
(* A CHECK, plugin by plugin.                                              *)

\* The commands of CHECK are not killed, and their calls do not fail from outside.
ChecksWork == "check" \notin CrashIn /\ \A plugin : <<plugin, "check">> \notin MayFail

\* An attachment with port mappings has addresses of one family: CHECK looks for
\* the rules of one address in both tables.
OneFamily ==
    \A a \in Att : Mappings[a] # <<>> => \A f, g \in ContFams(a) \cap Usable : f = g

\* A plugin that is to CHECK has done its part.
LEMMA CheckDone ==
  ASSUME ChainInv, NEW a \in Att, NEW plugin, Running(a, plugin), proc[a].cmd = "check"
  PROVE  told[a] = "ready" /\ Done(a, plugin) /\ plugin \in Plugins
<1>1. told[a] = "ready" /\ proc[a].i \in DOMAIN chain
  BY DEF ChainInv, ProcOK
<1> QED
  BY <1>1 DEF Done, Ready, Running, Plugins

\* An error, or a failure, is refused in a CHECK only.
LEMMA NotRefused ==
  ASSUME ChainInv, NEW a \in Att, Steps(a), CheckAgrees,
         proc[a].cmd = "check" => told' = told
  PROVE  CheckAgrees'
<1>1. \A b \in Att \ {a} : told'[b] = told[b]
  BY StepsFacts
<1>2. CASE told' = told
  BY <1>2 DEF CheckAgrees
<1>3. CASE Ends(a) /\ proc[a].cmd # "check"
  <2>1. told'[a] = "unknown"
    BY <1>3 DEF Ends, ChainInv
  <2> QED
    BY <1>1, <2>1 DEF CheckAgrees
<1> QED
  BY <1>2, <1>3 DEF Steps

\* The chain of an attachment is as an ADD made it.
LEMMA DnChecks ==
  ASSUME NEW a \in Att, NEW f, AllPlaced(a, f), ChainExists(NatTable(f), DN(a))
  PROVE  ChecksOut(f, genDnatChain(a, f))
<1> DEFINE c == genDnatChain(a, f)
<1>1. WantedOf(c) \subseteq Wanted(a, f)
  BY DEF Wanted, ChainsOf
<1>2. \A w \in WantedOf(c) : Exists(NatTable(f), w[1], w[2])
  BY <1>1 DEF AllPlaced, PmPlaced
<1>3. c.name = DN(a)
  BY DEF genDnatChain, NatChain
<1> HIDE DEF c
<1>4. \A i \in DOMAIN c.rules : Exists(NatTable(f), c.name, c.rules[i])
  <2> SUFFICES ASSUME NEW i \in DOMAIN c.rules PROVE Exists(NatTable(f), c.name, c.rules[i])
    OBVIOUS
  <2>1. <<c.name, c.rules[i]>> \in WantedOf(c)
    BY DEF WantedOf
  <2> QED
    BY <1>2, <2>1
<1>5. \A j \in DOMAIN c.into : \A i \in DOMAIN c.entries : Exists(NatTable(f), c.into[j], EntryTo(c, i))
  <2> SUFFICES ASSUME NEW j \in DOMAIN c.into, NEW i \in DOMAIN c.entries
               PROVE  Exists(NatTable(f), c.into[j], EntryTo(c, i))
    OBVIOUS
  <2>1. <<c.into[j], EntryTo(c, i)>> \in WantedOf(c)
    BY DEF WantedOf
  <2> QED
    BY <1>2, <2>1
<1>6. ChecksOut(f, c)
  BY <1>3, <1>4, <1>5 DEF ChecksOut
<1> QED
  BY <1>6 DEF c

LEMMA PmChecks ==
  ASSUME ChainInv, PmInv, CnInv, OneFamily, NEW a \in Att, Done(a, "portmap"),
         Mappings[a] # <<>>, NEW f \in ContFams(a)
  PROVE  checkPorts(a, f)
<1>1. PmAdding(a, <<>>)
  BY DEF PmInv, PmOK
<1>2. PmAll(a, <<>>)
  BY <1>1, NoSeq DEF PmAdding
<1>3. f \in Usable /\ PmComes(a, f, <<>>)
  BY <1>2 DEF PmAll
<1>4. AllPlaced(a, f)
  BY <1>3, NoSeq DEF PmComes, Makers, AllPlaced
<1>5. \A g \in Usable : g # f => ~ChainExists(NatTable(g), DN(a))
  <2> SUFFICES ASSUME NEW g \in Usable, g # f PROVE ~ChainExists(NatTable(g), DN(a))
    OBVIOUS
  <2>1. g \notin ContFams(a)
    BY <1>3 DEF OneFamily
  <2> QED
    BY <2>1 DEF CnInv, CnOK, NoChain
<1>6. \A g \in Usable : ChainExists(NatTable(g), DN(a)) => ChecksOut(g, genDnatChain(a, f))
  BY <1>4, <1>5, DnChecks
<1>7. genDnatChain(a, f).name = DN(a)
  BY DEF genDnatChain, NatChain
<1> QED
  BY <1>3, <1>6, <1>7 DEF checkPorts

\* A CHECK of portmap.
LEMMA PmCheckStep ==
  ASSUME ChainInv, CallsInv, PmInv, CnInv, OneFamily, NEW a \in Att, Running(a, "portmap"),
         proc[a].cmd = "check", PortmapStep(a)
  PROVE  told' = told
<1>1. Done(a, "portmap")
  BY CheckDone
<1>2. proc[a].todo = Start \/ proc[a].todo = <<>>
  BY DEF CallsInv, PmCalls, PmTyped
<1>3. proc[a].todo # <<>> => Call(a).op = "start"
  BY <1>2, CallOps
<1>4. PortmapStart(a)
  BY <1>3, IptOps DEF PortmapStep, enableLocalnetRouting, PurgeFlows, At, Call
<1>5. PortmapCheck(a)
  BY <1>4 DEF PortmapStart, PortmapAdd, PortmapDel
<1>6. Do(a, <<>>)
  BY <1>1, <1>5, PmChecks DEF PortmapCheck
<1> QED
  BY <1>6 DEF Do


\* The calls of a CHECK of the firewall.
FwLooks(a, s) ==
    /\ IsSeq(s)
    /\ \A k \in ToSet(s) :
          \/ k.op = "ensure"
          \/ k.op = "look" /\ k.f \in FwFams[a] /\ ~UsesFirewalld(a)
          \/ k.op = "query source" /\ k.f \in FwFams[a] /\ UsesFirewalld(a)

\* Without firewalld no zone has a source.
LooksInv ==
    /\ ~firewalld => \A s \in IPs \X {4, 6} : zone[s] = "none"
    /\ \A a \in Att : Running(a, "firewall") /\ proc[a].cmd = "check" =>
          proc[a].todo = Start \/ FwLooks(a, proc[a].todo)

LEMMA FwCheckStarts ==
  ASSUME NEW a \in Att, FirewallStart(a), proc[a].cmd = "check"
  PROVE  \E s : Do(a, s) /\ FwLooks(a, s)
<1>1. CASE UsesFirewalld(a) /\ FirewalldCheck(a)
  <2>1. PICK op : op = "query source"
    OBVIOUS
  <2>2. Sources(a, op, FwFams[a])
    BY <1>1, <2>1 DEF FirewalldCheck
  <2>3. PICK s : /\ Do(a, s) /\ IsSeq(s)
                 /\ \A k \in ToSet(s) : k.op = op /\ k.f \in FwFams[a]
    BY <2>2, SourcesFacts
  <2> QED
    BY <1>1, <2>1, <2>3 DEF FwLooks
<1>2. CASE ~UsesFirewalld(a) /\ IptablesCheck(a)
  <2> DEFINE part(f) == <<Ensure(Filter(f), Priv), Ensure(Filter(f), Admin(a)), [op |-> "look", f |-> f]>>
  <2>1. PICK order \in Orders(FwFams[a]) : Do(a, FlattenSeq([n \in DOMAIN order |-> part(order[n])]))
    BY <1>2 DEF IptablesCheck
  <2> DEFINE q == [n \in DOMAIN order |-> part(order[n])]
             s == FlattenSeq(q)
  <2>2. \A f \in FwFams[a] : /\ IsSeq(part(f))
                             /\ \A k \in ToSet(part(f)) : k.op = "ensure" \/ (k.op = "look" /\ k.f \in FwFams[a])
    <3>1. \A f, c : Ensure(Filter(f), c).op = "ensure"
      BY DEF Ensure, IptCall
    <3> QED
      BY <3>1, ThreeSeq
  <2>3. q = [n \in DOMAIN order |-> q[n]] /\ Do(a, s) /\ \A n \in DOMAIN order : q[n] = part(order[n])
    BY <2>1
  <2> HIDE DEF q, part
  <2>4. IsSeq(s) /\ \A x : x \in ToSet(s) <=> \E n \in DOMAIN order : x \in ToSet(q[n])
    BY <2>2, <2>3, OrderFacts, FamiliesFacts
  <2> HIDE DEF s
  <2>5. \A k \in ToSet(s) : k.op = "ensure" \/ (k.op = "look" /\ k.f \in FwFams[a])
    BY <2>2, <2>3, <2>4, OrderFacts
  <2> QED
    BY <1>2, <2>3, <2>4, <2>5 DEF FwLooks
<1> QED
  BY <1>1, <1>2 DEF FirewallStart, FirewalldAdd, FirewalldDel, IptablesAdd, IptablesDel

\* A step of a CHECK.
LEMMA FwCheckStep ==
  ASSUME ChainInv, FwInv, LooksInv, ChecksWork, NEW a \in Att, Running(a, "firewall"),
         proc[a].cmd = "check", FirewallStep(a)
  PROVE  \E s : Do(a, s) /\ FwLooks(a, s)
<1>0. PICK k, rest : k = Call(a) /\ rest = Rest(a)
  OBVIOUS
<1>1. Done(a, "firewall") /\ told[a] = "ready"
  BY CheckDone
<1>2. FwDone(a) /\ ip[a] \in IPs
  BY <1>1 DEF FwInv, FwOK, ChainInv, IpOK
<1>3. CASE FirewallStart(a)
  BY <1>3, FwCheckStarts
<1>4. CASE ~FirewallStart(a)
  <2>1. proc[a].todo # <<>> /\ Call(a).op # "start"
    <3>1. CASE IptStep(a, "firewall")
      BY <3>1, IptOps
    <3>2. CASE LookForRules(a) \/ FirewalldCall(a)
      BY <3>2 DEF LookForRules, FirewalldCall, addSource, removeSource, querySource, At, Call
    <3> QED
      BY <1>4, <3>1, <3>2 DEF FirewallStep
  <2>2. FwLooks(a, proc[a].todo)
    BY <2>1, CallOps DEF LooksInv
  <2>3. k \in ToSet(proc[a].todo) /\ IsSeq(rest) /\ ToSet(rest) \subseteq ToSet(proc[a].todo)
    BY <1>0, <2>1, <2>2, CallOps DEF FwLooks
  <2>4. FwLooks(a, rest)
    BY <2>2, <2>3 DEF FwLooks
  <2>5. \/ k.op = "ensure"
        \/ k.op = "look" /\ k.f \in FwFams[a] /\ ~UsesFirewalld(a)
        \/ k.op = "query source" /\ k.f \in FwFams[a] /\ UsesFirewalld(a)
    BY <2>2, <2>3 DEF FwLooks
  <2>6. CASE k.op = "ensure"
    <3>1. IptStep(a, "firewall")
      BY <1>0, <1>4, <2>6 DEF FirewallStep, LookForRules, FirewalldCall, addSource, removeSource, querySource, At, Call
    <3>2. EnsureChain(a) \/ IptFails(a)
      BY <1>0, <2>6, <3>1 DEF IptStep
    <3>3. ~IptFails(a)
      <4>1. <<chain[proc[a].i], proc[a].cmd>> \notin MayFail
        BY DEF ChecksWork
      <4> QED
        BY <4>1 DEF IptFails, Fault
    <3>4. Do(a, rest)
      BY <1>0, <3>2, <3>3 DEF EnsureChain
    <3> QED
      BY <2>4, <3>4
  <2>7. CASE k.op = "look" /\ k.f \in FwFams[a] /\ ~UsesFirewalld(a)
    <3>1. LookForRules(a)
      BY <1>0, <1>4, <2>7, IptOps DEF FirewallStep, FirewalldCall, addSource, removeSource, querySource, At, Call
    <3>2. checkRules(a, k.f)
      BY <1>2, <2>7, DoneChecks
    <3>3. Do(a, rest)
      BY <1>0, <3>1, <3>2 DEF LookForRules
    <3> QED
      BY <2>4, <3>3
  <2>8. CASE k.op = "query source" /\ k.f \in FwFams[a] /\ UsesFirewalld(a)
    <3>1. querySource(a)
      BY <1>0, <1>4, <2>8, IptOps DEF FirewallStep, FirewalldCall, LookForRules, addSource, removeSource, At, Call
    <3>2. zone[<<ip[a], k.f>>] = Zone[a] /\ Zone[a] # "none" /\ <<ip[a], k.f>> \in IPs \X {4, 6}
      BY <1>2, <2>8, FirewallAssumption DEF FwDone, FwZoned
    <3>3. firewalld
      BY <3>2 DEF LooksInv
    <3>4. Do(a, rest)
      BY <1>0, <3>1, <3>3 DEF querySource
    <3> QED
      BY <2>4, <3>4
  <2> QED
    BY <2>5, <2>6, <2>7, <2>8
<1> QED
  BY <1>3, <1>4


LEMMA LooksSame ==
  ASSUME NEW a, firewalld' = firewalld, NEW s, FwLooks(a, s)
  PROVE  FwLooks(a, s)'
BY DEF FwLooks, UsesFirewalld

LEMMA LooksQuiet ==
  ASSUME LooksInv, UNCHANGED firewallVars, \A b \in Att : Quiet(b, "firewall")
  PROVE  LooksInv'
<1>1. firewalld' = firewalld /\ zone' = zone
  BY DEF firewallVars
<1>2. ASSUME NEW b \in Att, Running(b, "firewall")', proc'[b].cmd = "check", proc'[b].todo # Start
      PROVE  FwLooks(b, proc[b].todo)'
  <2>1. Running(b, "firewall") /\ proc'[b] = proc[b]
    BY <1>2 DEF Quiet
  <2>2. PICK s : s = proc[b].todo
    OBVIOUS
  <2>3. FwLooks(b, s)
    BY <1>2, <2>1, <2>2 DEF LooksInv
  <2>4. FwLooks(b, s)'
    BY <1>1, <2>3, LooksSame
  <2> QED
    BY <2>1, <2>2, <2>4
<1> QED
  BY <1>1, <1>2 DEF LooksInv

LEMMA LooksOwn ==
  ASSUME ChainInv, FwInv, LooksInv, ChecksWork, NEW a \in Att, Running(a, "firewall"), FirewallStep(a)
  PROVE  LooksInv'
<1>1. Steps(a) /\ firewalld' = firewalld
  BY FirewallSteps DEF FirewallStep, FirewallStart, LookForRules, FirewalldCall, firewallVars
<1>2. ASSUME ~firewalld, NEW s \in IPs \X {4, 6} PROVE zone'[s] = "none"
  <2>1. zone[s] = "none"
    BY <1>2 DEF LooksInv
  <2>2. CASE removeSource(a)
    <3>1. zone = [r \in IPs \X {4, 6} |-> zone[r]]
      BY DEF FwInv
    <3>2. \/ zone' = [zone EXCEPT ![Source(a)] = @]
          \/ zone' = zone
      BY <1>2, <2>2 DEF removeSource
    <3> QED
      BY <2>1, <3>1, <3>2
  <2>3. CASE ~removeSource(a)
    <3>1. zone' = zone
      BY <1>2, <2>3 DEF FirewallStep, FirewallStart, LookForRules, FirewalldCall, addSource,
                        querySource, firewallVars
    <3> QED
      BY <2>1, <3>1
  <2> QED
    BY <2>2, <2>3
<1>3. ASSUME NEW b \in Att, Running(b, "firewall")', proc'[b].cmd = "check", proc'[b].todo # Start
      PROVE  FwLooks(b, proc[b].todo)'
  <2>1. CASE b # a
    <3>1. proc'[b] = proc[b] /\ chain' = chain
      BY <1>1, <2>1, StepsFacts DEF Steps
    <3>2. Running(b, "firewall")
      BY <1>3, <3>1 DEF Running, Idle
    <3>3. PICK s : s = proc[b].todo
      OBVIOUS
    <3>4. FwLooks(b, s)
      BY <1>3, <3>1, <3>2, <3>3 DEF LooksInv
    <3>5. FwLooks(b, s)'
      BY <1>1, <3>4, LooksSame
    <3> QED
      BY <3>1, <3>3, <3>5
  <2>2. CASE b = a
    <3>1. proc[a].cmd = "check"
      BY <1>1, <1>3, <2>2, StepsFacts DEF Quit
    <3>2. PICK s : Do(a, s) /\ FwLooks(a, s)
      BY <3>1, FwCheckStep
    <3>3. proc'[a].todo = s
      BY <3>2, DoFacts
    <3>4. FwLooks(a, s)'
      BY <1>1, <3>2, LooksSame
    <3> QED
      BY <2>2, <3>3, <3>4
  <2> QED
    BY <2>1, <2>2
<1> QED
  BY <1>1, <1>2, <1>3 DEF LooksInv

LEMMA LooksInit == Init => LooksInv
<1> SUFFICES ASSUME Init PROVE LooksInv
  OBVIOUS
<1>1. PICK plugin : plugin = "firewall"
  OBVIOUS
<1>2. \A b \in Att : ~Running(b, plugin)
  BY IdleFirst
<1>3. \A s \in IPs \X {4, 6} : zone[s] = "none"
  BY DEF Init, FirewallInit
<1> QED
  BY <1>1, <1>2, <1>3 DEF LooksInv

LEMMA LooksNext ==
  ASSUME ChainInv, FwInv, LooksInv, ChecksWork, [Next]_vars
  PROVE  LooksInv'
BY NextCases, LooksOwn, LooksQuiet DEF Elsewhere

\* Where bandwidth runs, each attachment has an entry and a peer in the host: CHECK
\* dereferences the one and looks for the other, also when ADD needed neither.
Shapeable ==
    (\E c \in Chains : \E i \in DOMAIN c : c[i] = "bandwidth") =>
        \A a \in Att : Bandwidths[a] # NoBandwidth /\ a \in VethPeer

\* A CHECK of bandwidth.
LEMMA BwCheckStep ==
  ASSUME ChainInv, BwInv, Shapeable, ChecksWork, NEW a \in Att, Running(a, "bandwidth"),
         proc[a].cmd = "check", BandwidthStep(a)
  PROVE  told' = told
<1>1. Done(a, "bandwidth") /\ told[a] = "ready"
  BY CheckDone
<1>2. proc[a].todo = Start \/ proc[a].todo = <<>>
  BY DEF BwInv, BwOK, BwRuns
<1>3. proc[a].todo # <<>> => Call(a).op = "start"
  BY <1>2, CallOps
<1>4. BandwidthStart(a)
  BY <1>3 DEF BandwidthStep, CreateIngressQdisc, CreateIfb, AddIngress, AddFilter, ThrottleIfb,
              TeardownIfb, TcFails, Refused, At, Call
<1>5. BandwidthCheck(a)
  BY <1>4 DEF BandwidthStart, BandwidthAdd, BandwidthDel
<1>6. Bandwidths[a] # NoBandwidth /\ a \in VethPeer
  BY DEF Shapeable, ChainInv, ProcOK, Running, Idle
<1>7. InPlace(a) /\ link[a] # NoLink
  BY <1>1, <1>6 DEF BwInv, BwOK, LinkInv, LinkOK
<1>8. Do(a, <<>>)
  BY <1>5, <1>6, <1>7 DEF BandwidthCheck, HasHostInterface, InPlace
<1> QED
  BY <1>8 DEF Do

\* A step of the runtime.
LEMMA RuntimeChecks ==
  ASSUME ChainInv, ChecksWork, CheckAgrees, NEW a \in Att, Runtime(a)
  PROVE  CheckAgrees'
<1>1. told = [b \in Att |-> told[b]]
  BY DEF ChainInv
<1>2. \/ told' = told
      \/ told' = [told EXCEPT ![a] = "unknown"]
      \/ told' = [told EXCEPT ![a] = "ready"]
      \/ told' = [told EXCEPT ![a] = "gone"]
  BY DEF Runtime, BeginAdd, BeginDel, BeginCheck, NextPlugin, EndAdd, EndDel, Killed, Ends, ChecksWork
<1> QED
  BY <1>1, <1>2 DEF CheckAgrees

LEMMA ChecksNext ==
  ASSUME ChainInv, CallsInv, FwInv, BwInv, PmInv, CnInv, LooksInv, ChecksWork, OneFamily, Shapeable,
         CheckAgrees, [Next]_vars
  PROVE  CheckAgrees'
<1>1. ASSUME NEW a \in Att, RuntimeStep(a) PROVE CheckAgrees'
  BY <1>1, RuntimeChecks DEF RuntimeStep
<1>2. ASSUME NEW a \in Att, PluginStep(a) PROVE CheckAgrees'
  <2>1. CASE Running(a, "portmap") /\ PortmapStep(a)
    BY <2>1, PortmapSteps, PmCheckStep, NotRefused
  <2>2. CASE Running(a, "firewall") /\ FirewallStep(a)
    <3>1. proc[a].cmd = "check" => told' = told
      BY <2>2, FwCheckStep DEF Do
    <3> QED
      BY <2>2, <3>1, FirewallSteps, NotRefused
  <2>3. CASE Running(a, "bandwidth") /\ BandwidthStep(a)
    BY <2>3, BandwidthSteps, BwCheckStep, NotRefused
  <2> QED
    BY <1>2, <2>1, <2>2, <2>3 DEF PluginStep
<1>3. CASE UNCHANGED told
  BY <1>3 DEF CheckAgrees
<1> QED
  BY <1>1, <1>2, <1>3 DEF Next, Traffic, NewFlow, FlowExpires, vars, chainVars

(* A CHECK of an attachment whose ADD succeeded succeeds, whatever the     *)
(* commands of other attachments did since, failed or killed, to the       *)
(* tables, the zones and the devices they share (cmdCheck of portmap,      *)
(* firewall and bandwidth). *)
THEOREM ChecksAgree ==
  OnePerChain /\ ListsWork /\ OneMeaning /\ IfbsApart /\ ChecksWork /\ OneFamily /\ Shapeable
      => (Spec => []CheckAgrees)
<1> SUFFICES ASSUME OnePerChain, ListsWork, OneMeaning, IfbsApart, ChecksWork, OneFamily, Shapeable
             PROVE  Spec => []CheckAgrees
  OBVIOUS
<1>1. Init => CheckAgrees
  BY DEF Init, ChainInit, CheckAgrees
<1>2. ChainInv /\ FwInv /\ LooksInv /\ [Next]_vars => LooksInv'
  BY LooksNext
<1>3. ChainInv /\ (CallsInv /\ FwInv) /\ BwInv /\ PmInv /\ CnInv /\ LooksInv /\ CheckAgrees /\ [Next]_vars
         => CheckAgrees'
  BY ChecksNext
<1> QED
  BY <1>1, <1>2, <1>3, LooksInit, ChainInvariant, CallsInvariant, BwInvariant, PmInvariant, CnInvariant,
     PTL DEF Spec
=============================================================================
