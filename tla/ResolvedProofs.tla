--------------------------- MODULE ResolvedProofs ---------------------------
(***************************************************************************)
(* Proofs about Resolved, for every set of answer lengths, those a uint8   *)
(* cannot represent included, and about LookupAddr, which makes the answer *)
(* that Resolved walks through, for every sequence of addresses.           *)
(*                                                                         *)
(* The loops of lookupAddr call for induction over their passes.  It is    *)
(* done on sets: a set of naturals that is not empty has a least element.  *)
(***************************************************************************)
EXTENDS LookupAddr, SequenceTheorems, WellFoundedInduction, TLAPS

\* A uint8 is a byte and never exceeds what it is converted from.
LEMMA Uint8Bounds ==
    ASSUME NEW n \in Nat
    PROVE  uint8(n) \in 0..255 /\ uint8(n) <= n
BY DEF uint8

\* The increment of NextIP yields a byte that is a valid index of a list of n
\* addresses, although both sides of its comparison may have wrapped.
LEMMA AdvanceInRange ==
    ASSUME NEW n \in Nat \ {0}, NEW i \in 0..255
    PROVE  Advance(i, n) \in 0..255 /\ Advance(i, n) < n
<1> DEFINE j == uint8(i + 1)
           m == uint8(n)
<1>1. j \in 0..255 /\ m \in 0..255 /\ m <= n
  BY Uint8Bounds
<1>2. Advance(i, n) = IF j >= m THEN 0 ELSE j
  BY DEF Advance
<1> HIDE DEF j, m
<1> QED
  BY <1>1, <1>2

\* As long as the length is representable, the increment is the cyclic
\* successor, hence a different address.
LEMMA AdvanceIsCyclic ==
    ASSUME NEW n \in 2..255, NEW i \in 0..(n - 1)
    PROVE  /\ Advance(i, n) = IF i = n - 1 THEN 0 ELSE i + 1
           /\ Advance(i, n) # i
<1>1. uint8(n) = n /\ uint8(i + 1) = i + 1
  BY DEF uint8
<1> QED
  BY <1>1 DEF Advance

IInv == TypeOK /\ IndexInRange

\* The index of the current address is in range in every reachable state, so
\* neither NextIP nor currentIP panics, whatever the length of the answer.
THEOREM IndexAlwaysInRange == Spec => [](TypeOK /\ IndexInRange)
<1> USE ConstantsAssumption
<1>1. Init => IInv
  BY DEF Init, IInv, TypeOK, IndexInRange
<1>2. IInv /\ [Next]_vars => IInv'
  <2> SUFFICES ASSUME IInv, [Next]_vars PROVE IInv'
    OBVIOUS
  <2>1. ASSUME NEW n \in Lengths, NewResolved(n) PROVE IInv'
    BY <2>1 DEF NewResolved, IInv, TypeOK, IndexInRange
  <2>2. CASE NextIP
    <3>1. len \in Nat \ {0} /\ ipIdx \in 0..255
      BY <2>2 DEF NextIP, IInv, TypeOK
    <3>2. Advance(ipIdx, len) \in 0..255 /\ Advance(ipIdx, len) < len
      BY <3>1, AdvanceInRange
    <3> QED
      BY <2>2, <3>2 DEF NextIP, IInv, TypeOK, IndexInRange
  <2>3. CASE Tick
    BY <2>3 DEF Tick, IInv, TypeOK, IndexInRange
  <2>4. CASE UNCHANGED vars
    BY <2>4 DEF vars, IInv, TypeOK, IndexInRange
  <2> QED
    BY <2>1, <2>2, <2>3, <2>4 DEF Next
<1> QED
  BY <1>1, <1>2, PTL DEF Spec, IInv

\* A NextIP that gets past its early returns moves to another address of every
\* answer of at most 255 addresses.
THEOREM SwitchAlwaysMoves == Spec => SwitchMoves
<1> USE ConstantsAssumption
<1>1. IInv /\ [Next]_vars
        => [len' = len /\ len <= 255 /\ since' = 0 => ipIdx' # ipIdx]_vars
  <2> SUFFICES ASSUME IInv, [Next]_vars, len' = len, len <= 255, since' = 0,
                      ~UNCHANGED vars
               PROVE  ipIdx' # ipIdx
    BY DEF vars
  <2>1. CASE NextIP
    <3>1. len \in 2..255 /\ ipIdx \in 0..(len - 1)
      BY <2>1 DEF NextIP, IInv, TypeOK, IndexInRange
    <3> QED
      BY <2>1, <3>1, AdvanceIsCyclic DEF NextIP
  <2>2. CASE Tick
    BY <2>2 DEF Tick, IInv, TypeOK
  <2>3. ASSUME NEW n \in Lengths, NewResolved(n) PROVE FALSE
    BY <2>3 DEF NewResolved
  <2> QED
    BY <2>1, <2>2, <2>3 DEF Next
<1>2. Spec => []IInv
  BY IndexAlwaysInRange DEF IInv
<1> QED
  BY <1>1, <1>2, PTL DEF Spec, SwitchMoves

-----------------------------------------------------------------------------
(* Induction *)

LEMMA LeastElement ==
    ASSUME NEW T \in SUBSET Nat, T # {}
    PROVE  \E x \in T : \A y \in T : ~(y < x)
<1> DEFINE R == OpToRel(<, Nat)
<1>1. IsWellFoundedOn(R, Nat)
  BY NatLessThanWellFounded
<1>2. \A y, x \in Nat : y < x => <<y, x>> \in R
  BY DEF OpToRel
<1> HIDE DEF R
<1>3. PICK x \in T : \A y \in T : ~(<<y, x>> \in R)
  BY <1>1, WFMin
<1> QED
  BY <1>2, <1>3

LEMMA SetInduction ==
    ASSUME NEW A, 0 \in A, \A n \in Nat : n \in A => n + 1 \in A
    PROVE  \A n \in Nat : n \in A
<1> DEFINE T == Nat \ A
<1> SUFFICES ASSUME T # {} PROVE FALSE
  OBVIOUS
<1>1. PICK x \in T : \A y \in T : ~(y < x)
  BY LeastElement
<1>2. x \in Nat /\ x # 0
  BY <1>1
<1>3. x - 1 \in Nat /\ x - 1 < x
  BY <1>2
<1>4. x - 1 \in A
  BY <1>1, <1>3
<1>5. (x - 1) + 1 = x
  BY <1>2
<1> QED
  BY <1>1, <1>3, <1>4, <1>5

-----------------------------------------------------------------------------
(* The loops of lookupAddr *)

Families == {"IPv4", "IPv6"}

\* The lists after each of the first n passes.
IsLoop(a, family, n, g) ==
    g = [i \in 0..n |->
           IF i = 0 THEN <<>> ELSE Visit(a, family, g[i - 1], i)]

LEMMA LoopExists ==
    ASSUME NEW a, NEW family
    PROVE  \A n \in Nat : \E g : IsLoop(a, family, n, g)
<1> DEFINE A == {n \in Nat : \E g : IsLoop(a, family, n, g)}
<1>1. 0 \in A
  <2> DEFINE g == [i \in 0..0 |-> <<>>]
  <2>1. IsLoop(a, family, 0, g)
    BY DEF IsLoop
  <2> QED
    BY <2>1
<1>2. ASSUME NEW n \in Nat, n \in A PROVE n + 1 \in A
  <2>1. PICK g : IsLoop(a, family, n, g)
    BY <1>2
  <2> DEFINE h == [i \in 0..(n + 1) |->
                     IF i = n + 1 THEN Visit(a, family, g[n], n + 1) ELSE g[i]]
  <2>2. ASSUME NEW i \in 0..(n + 1)
        PROVE  h[i] = IF i = 0 THEN <<>> ELSE Visit(a, family, h[i - 1], i)
    <3>1. CASE i = 0
      <4>1. g[0] = <<>>
        BY <2>1 DEF IsLoop
      <4>2. h[0] = g[0]
        OBVIOUS
      <4> QED
        BY <3>1, <4>1, <4>2
    <3>2. CASE i = n + 1
      <4>1. i - 1 = n /\ i # 0 /\ n \in 0..(n + 1) /\ n # n + 1
        BY <3>2
      <4>2. h[n] = g[n]
        BY <4>1
      <4> QED
        BY <3>2, <4>1, <4>2
    <3>3. CASE i # 0 /\ i # n + 1
      <4>1. i \in 0..n /\ i - 1 \in 0..(n + 1) /\ i - 1 # n + 1
        BY <3>3
      <4>2. h[i] = g[i] /\ h[i - 1] = g[i - 1]
        BY <3>3, <4>1
      <4>3. g[i] = Visit(a, family, g[i - 1], i)
        BY <2>1, <3>3, <4>1 DEF IsLoop
      <4> QED
        BY <3>3, <4>2, <4>3
    <3> QED
      BY <3>1, <3>2, <3>3
  <2>3. IsLoop(a, family, n + 1, h)
    BY <2>2 DEF IsLoop
  <2> QED
    BY <2>3
<1> HIDE DEF A
<1>3. \A n \in Nat : n \in A
  BY <1>1, <1>2, SetInduction
<1> QED
  BY <1>3 DEF A

\* list has the addresses of a family among the first n, each once and in
\* order.
Lists(a, family, list, n) ==
    /\ list \in Seq(Nat)
    /\ \A k \in 1..Len(list) : list[k] \in 1..n /\ a[list[k]] = family
    /\ \A k \in 1..(Len(list) - 1) : list[k] < list[k + 1]
    /\ \A j \in 1..n : a[j] = family => \E k \in 1..Len(list) : list[k] = j

LEMMA VisitLists ==
    ASSUME NEW a, NEW family, NEW n \in Nat, NEW list,
           Lists(a, family, list, n)
    PROVE  Lists(a, family, Visit(a, family, list, n + 1), n + 1)
<1>1. list \in Seq(Nat) /\ Len(list) \in Nat
  BY LenProperties DEF Lists
<1>2. CASE a[n + 1] # family
  <2>1. Visit(a, family, list, n + 1) = list
    BY <1>2 DEF Visit
  <2>2. \A j \in 1..(n + 1) : a[j] = family => j \in 1..n
    BY <1>2
  <2>3. \A j \in 1..n : j \in 1..(n + 1)
    OBVIOUS
  <2> QED
    BY <2>1, <2>2, <2>3 DEF Lists
<1>3. CASE a[n + 1] = family
  <2> DEFINE m == Len(list)
             new == Append(list, n + 1)
  <2>1. Visit(a, family, list, n + 1) = new
    BY <1>3 DEF Visit
  <2>2. /\ new \in Seq(Nat) /\ Len(new) = m + 1
        /\ \A k \in 1..m : new[k] = list[k]
        /\ new[m + 1] = n + 1
    BY <1>1, AppendProperties
  <2> HIDE DEF new
  <2>3. \A k \in 1..(m + 1) : k \in 1..m \/ k = m + 1
    BY <1>1
  <2>4. ASSUME NEW k \in 1..Len(new)
        PROVE  new[k] \in 1..(n + 1) /\ a[new[k]] = family
    <3>1. CASE k \in 1..m
      <4>1. list[k] \in 1..n /\ a[list[k]] = family
        BY <3>1 DEF Lists
      <4> QED
        BY <2>2, <3>1, <4>1
    <3>2. CASE k = m + 1
      BY <1>3, <2>2, <3>2
    <3> QED
      BY <2>2, <2>3, <3>1, <3>2
  <2>5. ASSUME NEW k \in 1..(Len(new) - 1) PROVE new[k] < new[k + 1]
    <3>1. k \in 1..m
      BY <1>1, <2>2
    <3>2. CASE k = m
      <4>1. new[k] = list[k] /\ list[k] \in 1..n
        BY <2>2, <3>1 DEF Lists
      <4> QED
        BY <2>2, <3>2, <4>1
    <3>3. CASE k # m
      <4>1. k \in 1..(m - 1) /\ k + 1 \in 1..m
        BY <1>1, <3>1, <3>3
      <4>2. list[k] < list[k + 1]
        BY <4>1 DEF Lists
      <4> QED
        BY <2>2, <3>1, <4>1, <4>2
    <3> QED
      BY <3>2, <3>3
  <2>6. ASSUME NEW j \in 1..(n + 1), a[j] = family
        PROVE  \E k \in 1..Len(new) : new[k] = j
    <3>1. CASE j = n + 1
      <4>1. m + 1 \in 1..Len(new)
        BY <1>1, <2>2
      <4> QED
        BY <2>2, <3>1, <4>1
    <3>2. CASE j # n + 1
      <4>1. j \in 1..n
        BY <3>2
      <4>2. PICK k \in 1..m : list[k] = j
        BY <2>6, <4>1 DEF Lists
      <4>3. k \in 1..Len(new)
        BY <1>1, <2>2
      <4> QED
        BY <2>2, <4>2, <4>3
    <3> QED
      BY <3>1, <3>2
  <2> QED
    BY <2>1, <2>2, <2>4, <2>5, <2>6 DEF Lists
<1> QED
  BY <1>2, <1>3

\* s and t are two lists with n addresses between them.
Split(s, t, n) ==
    s \in Seq(Nat) /\ t \in Seq(Nat) /\ Len(s) + Len(t) = n

LEMMA OneMore ==
    ASSUME NEW x \in Nat, NEW y \in Nat, NEW n, x + y = n
    PROVE  (x + 1) + y = n + 1 /\ x + (y + 1) = n + 1
OBVIOUS

\* An address is of one family: one of the two lists gets it.
LEMMA VisitSplit ==
    ASSUME NEW a, NEW n \in Nat, a[n + 1] \in Families,
           NEW s, NEW t, Split(s, t, n)
    PROVE  Split(Visit(a, "IPv4", s, n + 1), Visit(a, "IPv6", t, n + 1), n + 1)
<1>1. s \in Seq(Nat) /\ t \in Seq(Nat) /\ Len(s) + Len(t) = n
  BY DEF Split
<1>2. Len(s) \in Nat /\ Len(t) \in Nat
  BY <1>1, LenProperties
<1>3. ASSUME NEW list \in Seq(Nat)
      PROVE  Append(list, n + 1) \in Seq(Nat)
             /\ Len(Append(list, n + 1)) = Len(list) + 1
  BY AppendProperties
<1>4. CASE a[n + 1] = "IPv4"
  <2> DEFINE u == Append(s, n + 1)
  <2>1. Visit(a, "IPv4", s, n + 1) = u /\ Visit(a, "IPv6", t, n + 1) = t
    BY <1>4 DEF Visit
  <2>2. u \in Seq(Nat) /\ Len(u) = Len(s) + 1
    BY <1>1, <1>3
  <2> HIDE DEF u
  <2>3. (Len(s) + 1) + Len(t) = n + 1
    BY <1>1, <1>2, OneMore
  <2> QED
    BY <1>1, <2>1, <2>2, <2>3 DEF Split
<1>5. CASE a[n + 1] = "IPv6"
  <2> DEFINE u == Append(t, n + 1)
  <2>1. Visit(a, "IPv4", s, n + 1) = s /\ Visit(a, "IPv6", t, n + 1) = u
    BY <1>5 DEF Visit
  <2>2. u \in Seq(Nat) /\ Len(u) = Len(t) + 1
    BY <1>1, <1>3
  <2> HIDE DEF u
  <2>3. Len(s) + (Len(t) + 1) = n + 1
    BY <1>1, <1>2, OneMore
  <2> QED
    BY <1>1, <2>1, <2>2, <2>3 DEF Split
<1> QED
  BY <1>4, <1>5 DEF Families

LEMMA CollectIsLoop ==
    ASSUME NEW a, NEW family, Len(a) \in Nat
    PROVE  \E g : IsLoop(a, family, Len(a), g) /\ Collect(a, family) = g[Len(a)]
<1> DEFINE g == CHOOSE x : IsLoop(a, family, Len(a), x)
<1>1. IsLoop(a, family, Len(a), g)
  BY LoopExists
<1>2. Collect(a, family) = g[Len(a)]
  BY DEF Collect, IsLoop
<1> QED
  BY <1>1, <1>2

\* One loop collects the addresses of its family, each once and in order.
LEMMA CollectLists ==
    ASSUME NEW a, NEW family, Len(a) \in Nat
    PROVE  Lists(a, family, Collect(a, family), Len(a))
<1>1. PICK g : IsLoop(a, family, Len(a), g) /\ Collect(a, family) = g[Len(a)]
  BY CollectIsLoop
<1> DEFINE A == {n \in Nat : n <= Len(a) => Lists(a, family, g[n], n)}
<1>2. 0 \in A
  <2>1. g[0] = <<>>
    BY <1>1 DEF IsLoop
  <2>2. <<>> \in Seq(Nat) /\ Len(<<>>) = 0
    BY EmptySeq
  <2>3. Lists(a, family, <<>>, 0)
    BY <2>2 DEF Lists
  <2> QED
    BY <2>1, <2>3
<1>3. ASSUME NEW n \in Nat, n \in A PROVE n + 1 \in A
  <2> SUFFICES ASSUME n + 1 <= Len(a) PROVE Lists(a, family, g[n + 1], n + 1)
    OBVIOUS
  <2>1. Lists(a, family, g[n], n)
    BY <1>3
  <2>2. n + 1 \in 0..Len(a) /\ n + 1 # 0 /\ (n + 1) - 1 = n
    OBVIOUS
  <2>3. g[n + 1] = Visit(a, family, g[n], n + 1)
    BY <1>1, <2>2 DEF IsLoop
  <2> QED
    BY <2>1, <2>3, VisitLists
<1> HIDE DEF A
<1>4. \A n \in Nat : n \in A
  BY <1>2, <1>3, SetInduction
<1>5. Len(a) \in A
  BY <1>4
<1> QED
  BY <1>1, <1>5 DEF A

\* Together the two loops collect as many addresses as there are.
LEMMA CollectSplit ==
    ASSUME NEW a, Len(a) \in Nat, \A i \in 1..Len(a) : a[i] \in Families
    PROVE  Split(Collect(a, "IPv4"), Collect(a, "IPv6"), Len(a))
<1>1. PICK g : IsLoop(a, "IPv4", Len(a), g)
               /\ Collect(a, "IPv4") = g[Len(a)]
  BY CollectIsLoop
<1>2. PICK h : IsLoop(a, "IPv6", Len(a), h)
               /\ Collect(a, "IPv6") = h[Len(a)]
  BY CollectIsLoop
<1> DEFINE A == {n \in Nat : n <= Len(a) => Split(g[n], h[n], n)}
<1>3. 0 \in A
  <2>1. g[0] = <<>> /\ h[0] = <<>>
    BY <1>1, <1>2 DEF IsLoop
  <2>2. <<>> \in Seq(Nat) /\ Len(<<>>) = 0
    BY EmptySeq
  <2>3. Split(<<>>, <<>>, 0)
    BY <2>2 DEF Split
  <2> QED
    BY <2>1, <2>3
<1>4. ASSUME NEW n \in Nat, n \in A PROVE n + 1 \in A
  <2> SUFFICES ASSUME n + 1 <= Len(a) PROVE Split(g[n + 1], h[n + 1], n + 1)
    OBVIOUS
  <2>1. Split(g[n], h[n], n)
    BY <1>4
  <2>2. n + 1 \in 0..Len(a) /\ n + 1 \in 1..Len(a) /\ (n + 1) - 1 = n
        /\ n + 1 # 0
    OBVIOUS
  <2>3. /\ g[n + 1] = Visit(a, "IPv4", g[n], n + 1)
        /\ h[n + 1] = Visit(a, "IPv6", h[n], n + 1)
    BY <1>1, <1>2, <2>2 DEF IsLoop
  <2>4. a[n + 1] \in Families
    BY <2>2
  <2> QED
    BY <2>1, <2>3, <2>4, VisitSplit
<1> HIDE DEF A
<1>5. \A n \in Nat : n \in A
  BY <1>3, <1>4, SetInduction
<1>6. Len(a) \in A
  BY <1>5
<1> QED
  BY <1>1, <1>2, <1>6 DEF A

-----------------------------------------------------------------------------
(* The result of lookupAddr *)

\* u has every address of a once: the family that comes first, then the other,
\* each in the order of the answer.
Ordered(a, first, u) ==
    /\ Len(u) = Len(a)
    /\ {u[k] : k \in DOMAIN u} = DOMAIN a
    /\ \A k \in 1..(Len(u) - 1) :
         \/ a[u[k]] = first /\ a[u[k + 1]] # first
         \/ (a[u[k]] = first <=> a[u[k + 1]] = first) /\ u[k] < u[k + 1]

\* Two loops over different families, one after the other.
LEMMA JoinedIsOrdered ==
    ASSUME NEW a \in Seq(Families), NEW f \in Families, NEW g \in Families,
           f # g, NEW s, NEW t,
           Lists(a, f, s, Len(a)), Lists(a, g, t, Len(a)),
           Len(s) + Len(t) = Len(a)
    PROVE  Ordered(a, f, s \o t)
<1> DEFINE n == Len(a)
           p == Len(s)
           q == Len(t)
           u == s \o t
<1>1. n \in Nat /\ DOMAIN a = 1..n /\ \A j \in 1..n : a[j] \in {f, g}
  <2>1. n \in Nat /\ DOMAIN a = 1..n /\ a \in [1..n -> Families]
    BY LenProperties
  <2>2. Families = {f, g}
    BY DEF Families
  <2> QED
    BY <2>1, <2>2
<1>2. s \in Seq(Nat) /\ t \in Seq(Nat)
  BY DEF Lists
<1>3. p \in Nat /\ q \in Nat
  BY <1>2, LenProperties
<1>4. u \in Seq(Nat) /\ Len(u) = p + q
      /\ \A k \in 1..(p + q) : u[k] = IF k <= p THEN s[k] ELSE t[k - p]
  BY <1>2, ConcatProperties
<1>5. DOMAIN u = 1..(p + q)
  BY <1>4, LenProperties
<1>6. /\ \A k \in 1..p : s[k] \in 1..n /\ a[s[k]] = f
      /\ \A k \in 1..(p - 1) : s[k] < s[k + 1]
      /\ \A j \in 1..n : a[j] = f => \E k \in 1..p : s[k] = j
  BY DEF Lists
<1>7. /\ \A k \in 1..q : t[k] \in 1..n /\ a[t[k]] = g
      /\ \A k \in 1..(q - 1) : t[k] < t[k + 1]
      /\ \A j \in 1..n : a[j] = g => \E k \in 1..q : t[k] = j
  BY DEF Lists
<1>8. p + q = n
  OBVIOUS
<1> HIDE DEF n, p, q, u
<1>9. \A k \in 1..p : k \in 1..(p + q) /\ u[k] = s[k]
  BY <1>3, <1>4
<1>10. \A k \in 1..q : p + k \in 1..(p + q) /\ u[p + k] = t[k]
  <2> SUFFICES ASSUME NEW k \in 1..q
               PROVE  p + k \in 1..(p + q) /\ u[p + k] = t[k]
    OBVIOUS
  <2>1. p + k \in 1..(p + q) /\ ~(p + k <= p) /\ (p + k) - p = k
    BY <1>3
  <2> QED
    BY <1>4, <2>1
<1>11. ASSUME NEW k \in 1..(p + q)
       PROVE  \/ k \in 1..p
              \/ \E i \in 1..q : k = p + i
  <2>1. CASE k <= p
    BY <1>3, <2>1
  <2>2. CASE ~(k <= p)
    <3>1. k - p \in 1..q /\ k = p + (k - p)
      BY <1>3, <2>2
    <3> QED
      BY <3>1
  <2> QED
    BY <2>1, <2>2
<1>12. {u[k] : k \in DOMAIN u} = DOMAIN a
  <2>1. ASSUME NEW k \in 1..(p + q) PROVE u[k] \in 1..n
    <3>1. CASE k \in 1..p
      BY <1>6, <1>9, <3>1
    <3>2. ASSUME NEW i \in 1..q, k = p + i PROVE u[k] \in 1..n
      BY <1>7, <1>10, <3>2
    <3> QED
      BY <1>11, <3>1, <3>2
  <2>2. ASSUME NEW j \in 1..n PROVE \E k \in 1..(p + q) : u[k] = j
    <3>1. CASE a[j] = f
      <4>1. PICK k \in 1..p : s[k] = j
        BY <1>6, <3>1
      <4> QED
        BY <1>9, <4>1
    <3>2. CASE a[j] = g
      <4>1. PICK k \in 1..q : t[k] = j
        BY <1>7, <3>2
      <4> QED
        BY <1>10, <4>1
    <3> QED
      BY <1>1, <3>1, <3>2
  <2> QED
    BY <1>1, <1>5, <2>1, <2>2
<1>13. ASSUME NEW k \in 1..((p + q) - 1)
       PROVE  \/ a[u[k]] = f /\ a[u[k + 1]] # f
              \/ (a[u[k]] = f <=> a[u[k + 1]] = f) /\ u[k] < u[k + 1]
  <2>1. CASE k < p
    <3>1. k \in 1..p /\ k + 1 \in 1..p /\ k \in 1..(p - 1)
      BY <1>3, <2>1
    <3>2. a[s[k]] = f /\ a[s[k + 1]] = f /\ s[k] < s[k + 1]
      BY <1>6, <3>1
    <3> QED
      BY <1>9, <3>1, <3>2
  <2>2. CASE k = p
    <3>1. k \in 1..p /\ 1 \in 1..q /\ k + 1 = p + 1
      BY <1>3, <2>2
    <3>2. a[s[k]] = f /\ a[t[1]] = g
      BY <1>6, <1>7, <3>1
    <3> QED
      BY <1>9, <1>10, <3>1, <3>2
  <2>3. CASE k > p
    <3>1. k - p \in 1..q /\ (k - p) + 1 \in 1..q /\ k - p \in 1..(q - 1)
          /\ p + (k - p) = k /\ p + ((k - p) + 1) = k + 1
      BY <1>3, <2>3
    <3> DEFINE i == k - p
    <3>2. a[t[i]] = g /\ a[t[i + 1]] = g /\ t[i] < t[i + 1]
      BY <1>7, <3>1
    <3>3. u[k] = t[i] /\ u[k + 1] = t[i + 1]
      BY <1>10, <3>1
    <3> QED
      BY <3>2, <3>3
  <2> QED
    BY <1>3, <2>1, <2>2, <2>3
<1>14. Len(u) = n
  BY <1>4, <1>8
<1> QED
  BY <1>4, <1>8, <1>12, <1>13, <1>14 DEF Ordered, u, n

\* The three loops, when the preference is read the same way twice.
LEMMA OrderIsOrdered ==
    ASSUME NEW a \in Seq(Families), NEW r, r[1] \in BOOLEAN, r[2] = r[1]
    PROVE  Ordered(a, IF r[1] THEN "IPv6" ELSE "IPv4", Order(a, r))
<1> DEFINE four == Collect(a, "IPv4")
           six == Collect(a, "IPv6")
<1>1. Len(a) \in Nat /\ \A i \in 1..Len(a) : a[i] \in Families
  BY LenProperties
<1>2. Lists(a, "IPv4", four, Len(a)) /\ Lists(a, "IPv6", six, Len(a))
  BY <1>1, CollectLists
<1>3. Split(four, six, Len(a))
  BY <1>1, CollectSplit
<1>4. Order(a, r) = (IF r[1] THEN six ELSE <<>>) \o four
                      \o (IF r[1] THEN <<>> ELSE six)
  BY DEF Order
<1> HIDE DEF four, six
<1>5. four \in Seq(Nat) /\ six \in Seq(Nat) /\ Len(four) + Len(six) = Len(a)
  BY <1>3 DEF Split
<1>6. Len(six) + Len(four) = Len(a)
  <2>1. Len(four) \in Nat /\ Len(six) \in Nat
    BY <1>5, LenProperties
  <2>2. \A x, y \in Nat : x + y = y + x
    OBVIOUS
  <2> QED
    BY ONLY <1>5, <2>1, <2>2
<1>7. "IPv4" \in Families /\ "IPv6" \in Families /\ "IPv4" # "IPv6"
  BY DEF Families
<1>8. CASE r[1] = TRUE
  <2>1. Order(a, r) = (six \o four) \o <<>>
    BY <1>4, <1>8
  <2>2. six \o four \in Seq(Nat)
    BY <1>5, ConcatProperties
  <2>3. Order(a, r) = six \o four
    BY <2>1, <2>2, ConcatEmptySeq
  <2>4. Ordered(a, "IPv6", six \o four)
    BY <1>2, <1>6, <1>7, JoinedIsOrdered
  <2> QED
    BY <1>8, <2>3, <2>4
<1>9. CASE r[1] = FALSE
  <2>1. Order(a, r) = (<<>> \o four) \o six
    BY <1>4, <1>9
  <2>2. Order(a, r) = four \o six
    BY <1>5, <2>1, ConcatEmptySeq
  <2>3. Ordered(a, "IPv4", four \o six)
    BY <1>2, <1>5, <1>7, JoinedIsOrdered
  <2> QED
    BY <1>9, <2>2, <2>3
<1> QED
  BY <1>8, <1>9

\* Whatever the readings, the result is a sequence.
LEMMA OrderIsSeq ==
    ASSUME NEW a \in Seq(Families), NEW r, r[1] \in BOOLEAN, r[2] \in BOOLEAN
    PROVE  Order(a, r) \in Seq(Nat)
<1> DEFINE four == Collect(a, "IPv4")
           x == IF r[1] THEN Collect(a, "IPv6") ELSE <<>>
           y == IF r[2] THEN <<>> ELSE Collect(a, "IPv6")
<1>1. Len(a) \in Nat
  BY LenProperties
<1>2. four \in Seq(Nat) /\ Collect(a, "IPv6") \in Seq(Nat)
  BY <1>1, CollectLists DEF Lists
<1>3. x \in Seq(Nat) /\ y \in Seq(Nat)
  BY <1>2, EmptySeq
<1>4. Order(a, r) = (x \o four) \o y
  BY DEF Order
<1> HIDE DEF four, x, y
<1>5. x \o four \in Seq(Nat)
  BY <1>2, <1>3, ConcatProperties
<1> QED
  BY <1>3, <1>4, <1>5, ConcatProperties

-----------------------------------------------------------------------------
(* The specification of lookupAddr and its callers *)

\* d.vServer, whose list may be as long as any result.
ServerInv ==
    /\ len \in Nat
    /\ ipIdx \in 0..255
    /\ since \in 0..Throttle
    /\ IndexInRange

\* A lookup in progress has read the preference once, one that returned twice,
\* and its result is what the loops make of those readings.
LookupInv ==
    /\ preferIPv6 \in BOOLEAN
    /\ at \in {"idle", "reading", "returned"}
    /\ at # "idle" => addrs \in Seq(Families)
    /\ at = "reading" => read \in Seq(BOOLEAN) /\ Len(read) = 1
    /\ at = "returned" => /\ read[1] \in BOOLEAN /\ read[2] \in BOOLEAN
                          /\ IPs = Order(addrs, read)

LInv == ServerInv /\ LookupInv

LEMMA LInitInv == LInit => LInv
<1> SUFFICES ASSUME LInit PROVE LInv
  OBVIOUS
<1>1. ServerInv
  BY ConstantsAssumption DEF LInit, Init, ServerInv, IndexInRange
<1>2. LookupInv
  BY DEF LInit, LookupInv
<1> QED
  BY <1>1, <1>2 DEF LInv

LEMMA LookupReturnsStep ==
    ASSUME LInv, LookupReturns PROVE LInv'
<1>1. addrs \in Seq(Families) /\ read \in Seq(BOOLEAN) /\ Len(read) = 1
      /\ preferIPv6 \in BOOLEAN
  BY DEF LInv, LookupInv, LookupReturns
<1>2. read' = Append(read, preferIPv6) /\ IPs' = Order(addrs, read')
      /\ addrs' = addrs /\ preferIPv6' = preferIPv6 /\ at' = "returned"
  BY DEF LookupReturns
<1>3. read'[1] \in BOOLEAN /\ read'[2] \in BOOLEAN
  <2>1. \A i \in 1..1 : read'[i] = read[i]
    BY <1>1, <1>2, AppendProperties
  <2>2. read'[2] = preferIPv6
    <3>1. Append(read, preferIPv6)[Len(read) + 1] = preferIPv6
      BY <1>1, AppendProperties
    <3>2. Len(read) + 1 = 2
      BY <1>1
    <3> QED
      BY <1>2, <3>1, <3>2
  <2>3. read[1] \in BOOLEAN
    <3>1. read \in [1..1 -> BOOLEAN]
      BY <1>1, LenProperties
    <3> QED
      BY <3>1
  <2>4. read'[1] = read[1] /\ read'[2] = preferIPv6
    BY <2>1, <2>2
  <2> QED
    BY <1>1, <2>3, <2>4
<1>4. LookupInv'
  BY <1>1, <1>2, <1>3 DEF LookupInv
<1>5. Len(IPs') \in Nat
  BY <1>1, <1>2, <1>3, OrderIsSeq, LenProperties
<1>6. ServerInv'
  <2>1. CASE caller = "PrepareDomain"
    <3>1. len' = Len(IPs') /\ ipIdx' = 0 /\ since' = Throttle
      BY <2>1 DEF LookupReturns, NewResolved
    <3>2. len' \in Nat /\ ipIdx' = 0 /\ since' = Throttle
      BY <1>5, <3>1
    <3> QED
      BY <3>2, ConstantsAssumption DEF ServerInv, IndexInRange
  <2>2. CASE caller # "PrepareDomain"
    BY <2>2 DEF LookupReturns, vars, LInv, ServerInv, IndexInRange
  <2> QED
    BY <2>1, <2>2
<1> QED
  BY <1>4, <1>6 DEF LInv

LEMMA LInvStep ==
    ASSUME LInv, [LNext]_lvars PROVE LInv'
<1>1. ASSUME NEW p \in BOOLEAN, Prefer(p) PROVE LInv'
  BY <1>1 DEF Prefer, vars, lookup, LInv, LookupInv, ServerInv, IndexInRange
<1>2. CASE LookupReturns
  BY <1>2, LookupReturnsStep
<1>3. CASE LookupOver
  BY <1>3 DEF LookupOver, vars, LInv, LookupInv, ServerInv, IndexInRange
<1>4. ASSUME NEW c, NEW a \in Answers, LookupAnswered(c, a) PROVE LInv'
  <2>1. ServerInv'
    BY <1>4 DEF LookupAnswered, vars, LInv, ServerInv, IndexInRange
  <2>2. addrs' \in Seq(Families)
    BY <1>4, AnswersAssumption DEF LookupAnswered, Families
  <2>3. preferIPv6 \in BOOLEAN
    BY DEF LInv, LookupInv
  <2>4. read' \in Seq(BOOLEAN) /\ Len(read') = 1
    <3>1. read' = <<preferIPv6>>
      BY <1>4 DEF LookupAnswered
    <3>2. \A x \in BOOLEAN : <<x>> \in Seq(BOOLEAN) /\ Len(<<x>>) = 1
      OBVIOUS
    <3> QED
      BY <2>3, <3>1, <3>2
  <2>5. at' = "reading" /\ preferIPv6' = preferIPv6
    BY <1>4 DEF LookupAnswered
  <2>6. LookupInv'
    BY <2>2, <2>3, <2>4, <2>5 DEF LookupInv
  <2> QED
    BY <2>1, <2>6 DEF LInv
<1>5. ASSUME Next, UNCHANGED <<preferIPv6, lookup>> PROVE LInv'
  <2>1. LookupInv'
    BY <1>5 DEF lookup, LInv, LookupInv
  <2>2. CASE NextIP
    <3>1. len \in Nat \ {0} /\ ipIdx \in 0..255
      BY <2>2 DEF NextIP, LInv, ServerInv
    <3>2. Advance(ipIdx, len) \in 0..255 /\ Advance(ipIdx, len) < len
      BY <3>1, AdvanceInRange
    <3>3. ServerInv'
      BY <2>2, <3>1, <3>2, ConstantsAssumption
      DEF NextIP, ServerInv, IndexInRange
    <3> QED
      BY <2>1, <3>3 DEF LInv
  <2>3. CASE Tick
    <3>1. ServerInv'
      BY <2>3, ConstantsAssumption DEF Tick, LInv, ServerInv, IndexInRange
    <3> QED
      BY <2>1, <3>1 DEF LInv
  <2>4. ASSUME NEW n \in Lengths, NewResolved(n) PROVE LInv'
    <3>1. ServerInv'
      BY <2>4, ConstantsAssumption DEF NewResolved, ServerInv, IndexInRange
    <3> QED
      BY <2>1, <3>1 DEF LInv
  <2> QED
    BY <1>5, <2>2, <2>3, <2>4 DEF Next
<1>6. CASE UNCHANGED lvars
  BY <1>6 DEF lvars, vars, lookup, LInv, LookupInv, ServerInv, IndexInRange
<1> QED
  BY <1>1, <1>2, <1>3, <1>4, <1>5, <1>6 DEF LNext

\* The inductive invariant of lookupAddr and its callers.
THEOREM LookupInvariant == LSpec => []LInv
BY LInitInv, LInvStep, PTL DEF LSpec

\* IPs[ipIdx] (support.go:61, 77) is in range for every list lookupAddr makes:
\* those that lost or doubled their IPv6 addresses included.
THEOREM LookedUpIndexInRange == LSpec => []IndexInRange
<1>1. LInv => IndexInRange
  BY DEF LInv, ServerInv
<1> QED
  BY <1>1, LookupInvariant, PTL

\* NextIP moves to another address (support.go:34) of every list lookupAddr
\* makes that has at most 255 addresses.
THEOREM LookedUpSwitchMoves == LSpec => SwitchMoves
<1>1. LInv /\ [LNext]_lvars
        => [len' = len /\ len <= 255 /\ since' = 0 => ipIdx' # ipIdx]_vars
  <2> SUFFICES ASSUME LInv, [LNext]_lvars, len' = len, len <= 255, since' = 0,
                      ~UNCHANGED vars
               PROVE  ipIdx' # ipIdx
    BY DEF vars
  <2>1. CASE NextIP
    <3>1. len \in 2..255 /\ ipIdx \in 0..(len - 1)
      BY <2>1 DEF NextIP, LInv, ServerInv, IndexInRange
    <3> QED
      BY <2>1, <3>1, AdvanceIsCyclic DEF NextIP
  <2>2. CASE Tick
    BY <2>2 DEF Tick, LInv, ServerInv
  <2>3. CASE LookupReturns
    <3>1. since' = Throttle
      BY <2>3 DEF LookupReturns, NewResolved
    <3> QED
      BY <3>1, ConstantsAssumption
  <2>4. ASSUME NEW p \in BOOLEAN, Prefer(p) PROVE FALSE
    BY <2>4 DEF Prefer
  <2>5. ASSUME NEW c, NEW a, LookupAnswered(c, a) PROVE FALSE
    BY <2>5 DEF LookupAnswered
  <2>6. CASE LookupOver
    BY <2>6 DEF LookupOver
  <2>7. CASE UNCHANGED lvars
    BY <2>7 DEF lvars
  <2>8. ASSUME NEW n \in Lengths, NewResolved(n) PROVE FALSE
    BY <2>8, ConstantsAssumption DEF NewResolved
  <2> QED
    BY <2>1, <2>2, <2>3, <2>4, <2>5, <2>6, <2>7, <2>8 DEF LNext, Next
<1> QED
  BY <1>1, LookupInvariant, PTL DEF LSpec, SwitchMoves

\* What a lookup with a steady preference returns.
LEMMA SteadyIsOrdered ==
    ASSUME LInv, Steady
    PROVE  /\ read[1] \in BOOLEAN
           /\ Ordered(addrs, IF read[1] THEN "IPv6" ELSE "IPv4", IPs)
           /\ addrs \in Seq(Families) /\ IPs \in Seq(Nat)
BY OrderIsOrdered, OrderIsSeq DEF Steady, LInv, LookupInv

\* "ipv6 is prefer, append ipv6 then ipv4" (support.go:148-149): under a steady
\* preference every address of every answer is returned exactly once.
THEOREM EveryAddressAlwaysOnce == LSpec => []EveryAddressOnce
<1>1. LInv => EveryAddressOnce
  BY SteadyIsOrdered DEF EveryAddressOnce, Ordered
<1> QED
  BY <1>1, LookupInvariant, PTL

\* The family preferred comes first, and each keeps the order of the answer
\* (support.go:148-168).
THEOREM PreferredFamilyAlwaysFirst == LSpec => []PreferredFamilyFirst
<1>1. LInv => PreferredFamilyFirst
  <2> DEFINE Rank(k) == IF (addrs[k] = "IPv6") = read[1] THEN 0 ELSE 1
  <2> SUFFICES ASSUME LInv, Steady, NEW k \in 1..(Len(IPs) - 1)
               PROVE  \/ Rank(IPs[k]) < Rank(IPs[k + 1])
                      \/ /\ Rank(IPs[k]) = Rank(IPs[k + 1])
                         /\ IPs[k] < IPs[k + 1]
    BY DEF PreferredFamilyFirst
  <2> DEFINE first == IF read[1] THEN "IPv6" ELSE "IPv4"
             x == IPs[k]
             y == IPs[k + 1]
  <2>1. \/ addrs[x] = first /\ addrs[y] # first
        \/ (addrs[x] = first <=> addrs[y] = first) /\ x < y
    BY SteadyIsOrdered DEF Ordered
  <2>2. addrs[x] \in Families /\ addrs[y] \in Families
    <3>1. Len(IPs) = Len(addrs) /\ {IPs[i] : i \in DOMAIN IPs} = DOMAIN addrs
      BY SteadyIsOrdered DEF Ordered
    <3>2. Len(IPs) \in Nat /\ DOMAIN IPs = 1..Len(IPs)
          /\ addrs \in [DOMAIN addrs -> Families]
      BY SteadyIsOrdered, LenProperties
    <3>3. k \in DOMAIN IPs /\ k + 1 \in DOMAIN IPs
      BY <3>2
    <3>4. x \in DOMAIN addrs /\ y \in DOMAIN addrs
      BY <3>1, <3>3
    <3> QED
      BY <3>2, <3>4
  <2>3. read[1] \in BOOLEAN
    BY SteadyIsOrdered
  <2> HIDE DEF x, y
  <2>4. ASSUME NEW z, addrs[z] \in Families
        PROVE  Rank(z) = IF addrs[z] = first THEN 0 ELSE 1
    <3>1. CASE read[1] = TRUE
      BY <3>1
    <3>2. CASE read[1] = FALSE
      BY <2>4, <3>2 DEF Families
    <3> QED
      BY <2>3, <3>1, <3>2
  <2>5. /\ Rank(x) = IF addrs[x] = first THEN 0 ELSE 1
        /\ Rank(y) = IF addrs[y] = first THEN 0 ELSE 1
    BY <2>2, <2>4
  <2> HIDE DEF Rank, first
  <2>6. \/ Rank(x) < Rank(y)
        \/ Rank(x) = Rank(y) /\ x < y
    BY <2>1, <2>5
  <2> QED
    BY <2>6 DEF x, y
<1> QED
  BY <1>1, LookupInvariant, PTL

=============================================================================
