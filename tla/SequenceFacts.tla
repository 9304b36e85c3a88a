--------------------------- MODULE SequenceFacts ---------------------------
(***************************************************************************)
(* Induction over the natural numbers, for the members of a set instead of *)
(* an operator, and what follows for the sequences that programs are       *)
(* flattened from.                                                         *)
(***************************************************************************)
EXTENDS SequencesExt, Integers, FiniteSetTheorems, TLAPS

\* A set of numbers has a least: the intervals 1..k are ordered as finite sets are.
LEMMA LeastNumber ==
  ASSUME NEW N, N \subseteq Nat, N # {}
  PROVE  \E m \in N : \A k \in N : m <= k
<1> DEFINE T == {1..k : k \in N}
<1>1. T \subseteq FiniteSubsetsOf(Nat) /\ T # {}
  <2>1. ASSUME NEW k \in N PROVE 1..k \in FiniteSubsetsOf(Nat)
    BY FS_Interval DEF FiniteSubsetsOf
  <2> QED BY <2>1
<1>2. PICK x \in T : \A y \in T : <<y, x>> \notin StrictSubsetOrdering(Nat)
  <2> HIDE DEF T
  <2>1. IsWellFoundedOn(StrictSubsetOrdering(Nat), FiniteSubsetsOf(Nat))
    BY FS_StrictSubsetOrderingWellFounded
  <2> QED BY <1>1, <2>1, WFMin
<1>3. PICK m \in N : x = 1..m
  OBVIOUS
<1>4. ASSUME NEW k \in N, k < m PROVE FALSE
  <2>1. 1..k \in T /\ 1..k \subseteq Nat /\ 1..m \subseteq Nat
    OBVIOUS
  <2>2. 1..k \subseteq 1..m /\ m \in 1..m /\ m \notin 1..k
    BY <1>4
  <2>3. <<1..k, 1..m>> \in StrictSubsetOrdering(Nat)
    BY <2>1, <2>2 DEF StrictSubsetOrdering
  <2> QED BY <1>2, <1>3, <2>1, <2>3
<1> QED BY <1>4

\* Induction over the numbers, for the members of a set.
LEMMA AllNumbers ==
  ASSUME NEW S, 0 \in S, \A n \in Nat : n \in S => n + 1 \in S
  PROVE  Nat \subseteq S
<1> SUFFICES ASSUME Nat \ S # {} PROVE FALSE
  OBVIOUS
<1>1. PICK m \in Nat \ S : \A k \in Nat \ S : m <= k
  BY LeastNumber
<1>2. m # 0 /\ m - 1 \in Nat
  OBVIOUS
<1>3. m - 1 \in S
  BY <1>1, <1>2
<1> QED BY <1>2, <1>3
-----------------------------------------------------------------------------
\* The function FlattenSeq is defined with.
Joins(f, ss, n) == f = [i \in 1..n |-> IF i = 1 THEN ss[i] ELSE f[i-1] \o ss[i]]

LEMMA JoinsExist ==
  ASSUME NEW ss, NEW n \in Nat
  PROVE  \E f : Joins(f, ss, n)
<1> DEFINE S == {k \in Nat : \E f : Joins(f, ss, k)}
<1>1. 0 \in S
  <2>1. PICK f : f = [i \in 1..0 |-> ss[i]]
    OBVIOUS
  <2>2. 1..0 = {}
    OBVIOUS
  <2>3. f = [i \in 1..0 |-> IF i = 1 THEN ss[i] ELSE f[i-1] \o ss[i]]
    BY <2>1, <2>2
  <2> QED BY <2>3 DEF Joins
<1>2. ASSUME NEW k \in Nat, k \in S PROVE k + 1 \in S
  <2>1. PICK f : Joins(f, ss, k)
    BY <1>2
  <2> DEFINE g == [i \in 1..(k+1) |-> IF i = 1 THEN ss[i] ELSE f[i-1] \o ss[i]]
  <2>2. ASSUME NEW i \in 1..(k+1), i # 1 PROVE g[i-1] = f[i-1]
    <3>1. i - 1 \in 1..k /\ i - 1 \in 1..(k+1)
      BY <2>2
    <3> HIDE DEF g
    <3>2. f[i-1] = IF i-1 = 1 THEN ss[i-1] ELSE f[(i-1)-1] \o ss[i-1]
      BY <2>1, <3>1 DEF Joins
    <3>3. g[i-1] = IF i-1 = 1 THEN ss[i-1] ELSE f[(i-1)-1] \o ss[i-1]
      BY <3>1 DEF g
    <3> QED BY <3>2, <3>3
  <2>3. g = [i \in 1..(k+1) |-> IF i = 1 THEN ss[i] ELSE g[i-1] \o ss[i]]
    <3> HIDE DEF g
    <3>1. \A i \in 1..(k+1) : (IF i = 1 THEN ss[i] ELSE f[i-1] \o ss[i])
                              = (IF i = 1 THEN ss[i] ELSE g[i-1] \o ss[i])
      BY <2>2
    <3> QED BY <3>1 DEF g
  <2>4. Joins(g, ss, k + 1)
    BY <2>3 DEF Joins
  <2> QED BY <2>4
<1> HIDE DEF S
<1>3. Nat \subseteq S
  BY <1>1, <1>2, AllNumbers
<1> QED BY <1>3 DEF S

LEMMA FlattenJoins ==
  ASSUME NEW ss, NEW n \in Nat, n # 0, Len(ss) = n
  PROVE  \E f : Joins(f, ss, n) /\ FlattenSeq(ss) = f[n]
<1> DEFINE g == CHOOSE f : Joins(f, ss, n)
<1>1. Joins(g, ss, n)
  BY JoinsExist
<1>2. FlattenSeq(ss) = g[n]
  BY DEF FlattenSeq, Joins
<1> QED BY <1>1, <1>2

LEMMA NextJoin ==
  ASSUME NEW f, NEW ss, NEW n \in Nat, Joins(f, ss, n), NEW k \in Nat, k + 1 \in 1..n
  PROVE  f[k+1] = IF k = 0 THEN ss[k+1] ELSE f[k] \o ss[k+1]
<1>1. ASSUME NEW i \in 1..n PROVE f[i] = IF i = 1 THEN ss[i] ELSE f[i-1] \o ss[i]
  BY DEF Joins
<1>2. (k + 1) - 1 = k /\ (k + 1 = 1 <=> k = 0)
  OBVIOUS
<1>3. PICK i \in 1..n : i = k + 1
  OBVIOUS
<1> QED BY <1>1, <1>2, <1>3

LEMMA ToSetJoin ==
  ASSUME NEW S, NEW p \in Seq(S), NEW q \in Seq(S)
  PROVE  ToSet(p \o q) = ToSet(p) \cup ToSet(q)
<1>1. /\ DOMAIN (p \o q) = 1..(Len(p) + Len(q)) /\ DOMAIN p = 1..Len(p) /\ DOMAIN q = 1..Len(q)
      /\ Len(p) \in Nat /\ Len(q) \in Nat
  OBVIOUS
<1>2. \A i \in 1..Len(p) : i \in 1..(Len(p) + Len(q)) /\ (p \o q)[i] = p[i]
  OBVIOUS
<1>3. \A i \in 1..Len(q) : /\ Len(p) + i \in 1..(Len(p) + Len(q))
                          /\ (p \o q)[Len(p) + i] = q[i]
  OBVIOUS
<1>4. \A i \in 1..(Len(p) + Len(q)) : i \in 1..Len(p) \/ \E j \in 1..Len(q) : i = Len(p) + j
  <2> TAKE i \in 1..(Len(p) + Len(q))
  <2>1. i \notin 1..Len(p) => i - Len(p) \in 1..Len(q) /\ i = Len(p) + (i - Len(p))
    BY <1>1
  <2> QED BY <2>1
<1>5. ToSet(p \o q) \subseteq ToSet(p) \cup ToSet(q)
  <2> SUFFICES ASSUME NEW i \in 1..(Len(p) + Len(q))
               PROVE  (p \o q)[i] \in ToSet(p) \cup ToSet(q)
    BY <1>1 DEF ToSet
  <2> QED BY <1>1, <1>2, <1>3, <1>4 DEF ToSet
<1>6. ToSet(p) \cup ToSet(q) \subseteq ToSet(p \o q)
  BY <1>1, <1>2, <1>3 DEF ToSet
<1> QED BY <1>5, <1>6

\* A set of sequences that is closed under concatenation has what is flattened from
\* its members: induction over sequences of sequences.
LEMMA FlattenIn ==
  ASSUME NEW T, <<>> \in T, \A p, q \in T : p \o q \in T,
         NEW n \in Nat, NEW ss, ss \in [1..n -> T]
  PROVE  FlattenSeq(ss) \in T
<1>1. Len(ss) = n
  OBVIOUS
<1>2. CASE n = 0
  <2>1. ss = <<>>
    BY <1>2
  <2> QED BY <1>1, <1>2, <2>1 DEF FlattenSeq
<1>3. CASE n # 0
  <2>1. PICK f : Joins(f, ss, n) /\ FlattenSeq(ss) = f[n]
    BY <1>1, <1>3, FlattenJoins
  <2> DEFINE S == {k \in Nat : k \in 1..n => f[k] \in T}
  <2>2. 0 \in S
    <3>1. ~(0 \in 1..n)
      OBVIOUS
    <3> QED BY <3>1 DEF S
  <2>3. ASSUME NEW k \in Nat, k \in S PROVE k + 1 \in S
    <3>1. SUFFICES ASSUME k + 1 \in 1..n PROVE f[k+1] \in T
      OBVIOUS
    <3> HIDE DEF S
    <3>2. f[k+1] = IF k = 0 THEN ss[k+1] ELSE f[k] \o ss[k+1]
      <4>1. Joins(f, ss, n) /\ k + 1 \in 1..n
        BY <2>1, <3>1
      <4> QED BY <4>1, NextJoin
    <3> USE DEF S
    <3>3. ss[k+1] \in T
      BY <3>1
    <3>4. k # 0 => f[k] \in T
      BY <2>3, <3>1
    <3> QED BY <3>2, <3>3, <3>4
  <2> HIDE DEF S
  <2>4. Nat \subseteq S
    BY <2>2, <2>3, AllNumbers
  <2> QED BY <2>1, <2>4, <1>3 DEF S
<1> QED BY <1>2, <1>3

-----------------------------------------------------------------------------
LEMMA JoinsAgree ==
  ASSUME NEW n \in Nat, NEW m \in Nat, n <= m, NEW f, NEW g, NEW ss, NEW tt,
         Joins(f, ss, n), Joins(g, tt, m), \A i \in 1..n : ss[i] = tt[i]
  PROVE  \A k \in 1..n : f[k] = g[k]
<1> DEFINE S == {k \in Nat : k \in 1..n => f[k] = g[k]}
<1>1. 0 \in S
  OBVIOUS
<1>2. ASSUME NEW k \in Nat, k \in S PROVE k + 1 \in S
  <2> SUFFICES ASSUME k + 1 \in 1..n PROVE f[k+1] = g[k+1]
    OBVIOUS
  <2>1. k + 1 \in 1..m /\ ss[k+1] = tt[k+1]
    OBVIOUS
  <2>2. k # 0 => f[k] = g[k]
    BY <1>2
  <2> HIDE DEF S
  <2>3. f[k+1] = IF k = 0 THEN ss[k+1] ELSE f[k] \o ss[k+1]
    BY NextJoin
  <2>4. g[k+1] = IF k = 0 THEN tt[k+1] ELSE g[k] \o tt[k+1]
    BY <2>1, NextJoin
  <2> QED BY <2>1, <2>2, <2>3, <2>4
<1> HIDE DEF S
<1>3. Nat \subseteq S
  BY <1>1, <1>2, AllNumbers
<1> QED BY <1>3 DEF S

\* Flattening nothing, and one sequence more.
LEMMA FlattenNone ==
  ASSUME NEW ss, Len(ss) = 0, ss = <<>>
  PROVE  FlattenSeq(ss) = <<>>
BY DEF FlattenSeq

LEMMA FlattenLast ==
  ASSUME NEW S, NEW n \in Nat, NEW ss, ss \in [1..(n + 1) -> Seq(S)]
  PROVE  FlattenSeq(ss) = FlattenSeq([i \in 1..n |-> ss[i]]) \o ss[n+1]
<1> DEFINE tt == [i \in 1..n |-> ss[i]]
<1>1. Len(ss) = n + 1 /\ n + 1 # 0 /\ n + 1 \in 1..(n + 1)
  OBVIOUS
<1>2. Len(tt) = n /\ \A i \in 1..n : tt[i] = ss[i]
  OBVIOUS
<1> HIDE DEF tt
<1>3. PICK f : Joins(f, ss, n + 1) /\ FlattenSeq(ss) = f[n+1]
  BY <1>1, FlattenJoins
<1>4. f[n+1] = IF n = 0 THEN ss[n+1] ELSE f[n] \o ss[n+1]
  BY <1>1, <1>3, NextJoin
<1>5. CASE n = 0
  <2>1. ss[n+1] \in Seq(S)
    BY <1>1
  <2>2. tt = <<>>
    BY <1>5 DEF tt
  <2>3. FlattenSeq(tt) = <<>>
    BY <1>2, <1>5, <2>2, FlattenNone
  <2> QED BY <1>3, <1>4, <1>5, <2>1, <2>3 DEF tt
<1>6. CASE n # 0
  <2>1. PICK g : Joins(g, tt, n) /\ FlattenSeq(tt) = g[n]
    BY <1>2, <1>6, FlattenJoins
  <2>2. \A k \in 1..n : g[k] = f[k]
    BY <1>1, <1>2, <1>3, <2>1, JoinsAgree
  <2>3. n \in 1..n
    BY <1>6
  <2> QED BY <1>3, <1>4, <1>6, <2>1, <2>2, <2>3 DEF tt
<1> QED BY <1>5, <1>6

\* Induction over sequences, for the members of a set.
LEMMA AllSequences ==
  ASSUME NEW N, NEW T, <<>> \in T, \A p \in Seq(N), x \in N : p \in T => Append(p, x) \in T
  PROVE  Seq(N) \subseteq T
<1> DEFINE S == {n \in Nat : \A p \in Seq(N) : Len(p) = n => p \in T}
<1>1. 0 \in S
  <2>1. \A p \in Seq(N) : Len(p) = 0 => p = <<>>
    OBVIOUS
  <2> QED BY <2>1
<1>2. ASSUME NEW n \in Nat, n \in S PROVE n + 1 \in S
  <2> SUFFICES ASSUME NEW p \in Seq(N), Len(p) = n + 1 PROVE p \in T
    OBVIOUS
  <2>1. PICK q : q = SubSeq(p, 1, n)
    OBVIOUS
  <2>2. q \in Seq(N) /\ Len(q) = n /\ p[n+1] \in N
    BY <2>1
  <2>3. p = Append(q, p[n+1])
    BY <2>1
  <2> QED BY <1>2, <2>2, <2>3
<1> HIDE DEF S
<1>3. Nat \subseteq S
  BY <1>1, <1>2, AllNumbers
<1>4. \A p \in Seq(N) : Len(p) \in S
  BY <1>3
<1> QED BY <1>4 DEF S

\* Functions from N to the sequences over S.
Gives(g, N, S) == g \in [N -> Seq(S)]

\* What h gives for the members of a sequence, one after the other.
Mapped(h, p) == FlattenSeq([i \in DOMAIN p |-> h[p[i]]])

LEMMA MappedIn ==
  ASSUME NEW S, NEW N, NEW h, Gives(h, N, S), NEW p \in Seq(N)
  PROVE  Mapped(h, p) \in Seq(S)
<1>1. [i \in DOMAIN p |-> h[p[i]]] \in [1..Len(p) -> Seq(S)] /\ Len(p) \in Nat
  <2>1. \A i \in DOMAIN p : h[p[i]] \in Seq(S)
    BY DEF Gives
  <2>2. DOMAIN p = 1..Len(p) /\ Len(p) \in Nat
    OBVIOUS
  <2> QED BY <2>1, <2>2
<1>2. <<>> \in Seq(S) /\ \A x, y \in Seq(S) : x \o y \in Seq(S)
  OBVIOUS
<1>3. PICK n \in Nat : n = Len(p)
  BY <1>1
<1>5. PICK ss \in [1..n -> Seq(S)] : ss = [i \in DOMAIN p |-> h[p[i]]]
  BY <1>1, <1>3
<1>4. FlattenSeq(ss) \in Seq(S)
  BY <1>2, FlattenIn
<1> QED BY <1>5, <1>4 DEF Mapped

LEMMA MappedNone == \A h : Mapped(h, <<>>) = <<>>
<1> TAKE h
<1>1. PICK ss : ss = [i \in DOMAIN <<>> |-> h[<<>>[i]]]
  OBVIOUS
<1>2. ss = <<>> /\ Len(ss) = 0
  BY <1>1
<1> QED BY <1>1, <1>2, FlattenNone DEF Mapped

MapsOn(h, p, x) == Mapped(h, Append(p, x)) = Mapped(h, p) \o h[x]

LEMMA MappedMore ==
  ASSUME NEW S, NEW N, NEW h, Gives(h, N, S), NEW p \in Seq(N), NEW x \in N
  PROVE  MapsOn(h, p, x)
<1> DEFINE n == Len(p)
           q == Append(p, x)
           ss == [i \in 1..(n + 1) |-> h[q[i]]]
<1>1. n \in Nat /\ DOMAIN p = 1..n /\ DOMAIN q = 1..(n + 1) /\ q[n+1] = x
      /\ \A i \in 1..n : q[i] = p[i] /\ p[i] \in N
  OBVIOUS
<1>2. \A i \in 1..(n + 1) : q[i] \in N
  BY <1>1
<1> HIDE DEF n, q
<1>3. ss \in [1..(n + 1) -> Seq(S)] /\ \A i \in 1..(n + 1) : ss[i] = h[q[i]]
  BY <1>2 DEF Gives
<1>4. n + 1 \in 1..(n + 1) /\ \A i \in 1..n : i \in 1..(n + 1)
  BY <1>1
<1> HIDE DEF ss
<1>5. FlattenSeq(ss) = FlattenSeq([i \in 1..n |-> ss[i]]) \o ss[n+1]
  BY <1>1, <1>3, FlattenLast
<1>6. [i \in 1..n |-> ss[i]] = [i \in DOMAIN p |-> h[p[i]]]
  BY <1>1, <1>3, <1>4
<1>7. ss[n+1] = h[x]
  BY <1>1, <1>3, <1>4
<1>8. ss = [i \in DOMAIN q |-> h[q[i]]]
  BY <1>1 DEF ss
<1> QED BY <1>5, <1>6, <1>7, <1>8 DEF MapsOn, Mapped, q

LEMMA AppendJoin ==
  ASSUME NEW S, NEW p \in Seq(S), NEW x \in S
  PROVE  p \o <<x>> = Append(p, x)
OBVIOUS

LEMMA JoinNothing ==
  ASSUME NEW S, NEW p \in Seq(S)
  PROVE  p \o <<>> = p /\ <<>> \o p = p
OBVIOUS

\* What a filter keeps of a sequence, and what h gives for it.
Keeps(B, one, N) ==
  Gives(one, N, N) /\ \A x \in N : one[x] = IF x \in B THEN <<x>> ELSE <<>>
KeepsOf(h, B, all, N, S) ==
  Gives(all, N, S) /\ \A x \in N : all[x] = IF x \in B THEN h[x] ELSE <<>>

LEMMA KeptMore ==
  ASSUME NEW S, NEW N, NEW h, Gives(h, N, S), NEW B,
         NEW one, Keeps(B, one, N), NEW all, KeepsOf(h, B, all, N, S),
         NEW p \in Seq(N), NEW x \in N, Mapped(h, Mapped(one, p)) = Mapped(all, p)
  PROVE  Mapped(h, Mapped(one, Append(p, x))) = Mapped(all, Append(p, x))
<1> USE DEF Keeps, KeepsOf
<1>1. PICK k \in Seq(N) : k = Mapped(one, p)
  BY MappedIn
<1>2. PICK a \in Seq(S) : a = Mapped(all, p)
  BY MappedIn
<1>3. Mapped(h, k) = a
  BY <1>1, <1>2
<1>more. MapsOn(one, p, x) /\ MapsOn(all, p, x) /\ MapsOn(h, k, x)
  BY MappedMore
<1>4. Mapped(one, Append(p, x)) = Mapped(one, p) \o one[x]
  BY <1>more DEF MapsOn
<1>5. Mapped(all, Append(p, x)) = Mapped(all, p) \o all[x]
  BY <1>more DEF MapsOn
<1>6. CASE x \in B
  <2>1. one[x] = <<x>> /\ all[x] = h[x]
    BY <1>6
  <2>2. k \o <<x>> = Append(k, x)
    BY AppendJoin
  <2>3. Mapped(one, Append(p, x)) = Append(k, x)
    BY <1>1, <1>4, <2>1, <2>2, Zenon
  <2>4. Mapped(h, Append(k, x)) = Mapped(h, k) \o h[x]
    BY <1>more DEF MapsOn
  <2>5. Mapped(all, Append(p, x)) = a \o h[x]
    BY <1>2, <1>5, <2>1, Zenon
  <2> QED BY <1>3, <2>3, <2>4, <2>5, Zenon
<1>7. CASE x \notin B
  <2>1. one[x] = <<>> /\ all[x] = <<>>
    BY <1>7
  <2>2. k \o <<>> = k /\ a \o <<>> = a
    BY JoinNothing
  <2> QED BY <1>1, <1>2, <1>3, <1>4, <1>5, <2>1, <2>2, Zenon
<1> QED BY <1>6, <1>7

LEMMA MappedKept ==
  ASSUME NEW S, NEW N, NEW h, Gives(h, N, S), NEW B,
         NEW one, Keeps(B, one, N), NEW all, KeepsOf(h, B, all, N, S),
         NEW ns \in Seq(N)
  PROVE  Mapped(h, Mapped(one, ns)) = Mapped(all, ns)
<1> DEFINE T == {p \in Seq(N) : Mapped(h, Mapped(one, p)) = Mapped(all, p)}
<1>2. <<>> \in T
  BY MappedNone
<1>3. ASSUME NEW p \in Seq(N), NEW x \in N, p \in T PROVE Append(p, x) \in T
  <2>1. Mapped(h, Mapped(one, Append(p, x))) = Mapped(all, Append(p, x))
    BY <1>3, KeptMore
  <2> QED BY <2>1
<1> HIDE DEF T
<1>4. Seq(N) \subseteq T
  BY <1>2, <1>3, AllSequences
<1> QED BY <1>4 DEF T
=============================================================================
