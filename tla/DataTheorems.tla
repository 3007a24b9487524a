---------------------------- MODULE DataTheorems ----------------------------
(***************************************************************************)
(* The facts about data that the proofs share.  Lists: what the operations *)
(* on them keep, the elements, that none comes twice, and ascending order. *)
(* Induction and recursion over the naturals in the form the provers can   *)
(* apply: the induction hypothesis is a set, a recursive definition is a   *)
(* function of functions, and both are derived from the well-foundedness   *)
(* of <.  The modules of proofs use these to unfold the recursive          *)
(* functions of the specifications.  Also, what sorting by counting yields. *)
(***************************************************************************)
EXTENDS Lists, Integers, FiniteSetTheorems, WellFoundedInduction, TLAPS

\* A list is a function on 1 .. Len.
LEMMA ListShape ==
  ASSUME NEW S, NEW l \in Seq(S)
  PROVE  Len(l) \in Nat /\ l \in [1 .. Len(l) -> S] /\ DOMAIN l = 1 .. Len(l)
  OBVIOUS

\* Where the elements of a concatenation come from.
LEMMA ConcatShape ==
  ASSUME NEW S, NEW s \in Seq(S), NEW t \in Seq(S)
  PROVE  /\ s \o t \in Seq(S) /\ Len(s \o t) = Len(s) + Len(t)
         /\ \A i \in 1 .. Len(s) + Len(t) :
              (s \o t)[i] = IF i <= Len(s) THEN s[i] ELSE t[i - Len(s)]
  OBVIOUS

\* The elements of a list have the type of the list.
LEMMA ListTyped ==
  ASSUME NEW S, NEW l \in Seq(S)
  PROVE  SetOf(l) \subseteq S
  BY DEF SetOf

\* The empty list has no elements.
LEMMA ListEmpty == SetOf(<<>>) = {}
  BY DEF SetOf

\* A list is its head and its tail.
LEMMA ListHead ==
  ASSUME NEW S, NEW l \in Seq(S), l # <<>>
  PROVE  /\ Head(l) \in S /\ Tail(l) \in Seq(S)
         /\ SetOf(l) = {Head(l)} \cup SetOf(Tail(l))
PROOF
  <1>1. Head(l) \in S /\ Tail(l) \in Seq(S) /\ Len(l) \in Nat \ {0}
    OBVIOUS
  <1>2. ASSUME NEW i \in DOMAIN l PROVE l[i] \in {Head(l)} \cup SetOf(Tail(l))
    <2>1. CASE i = 1
      BY <2>1
    <2>2. CASE i # 1
      <3>1. i - 1 \in DOMAIN Tail(l) /\ Tail(l)[i - 1] = l[i]
        BY <1>1, <2>2
      <3> QED BY <3>1 DEF SetOf
    <2> QED BY <2>1, <2>2
  <1>3. Head(l) \in SetOf(l)
    <2>1. 1 \in DOMAIN l /\ Head(l) = l[1]
      BY <1>1
    <2> QED BY <2>1 DEF SetOf
  <1>4. ASSUME NEW i \in DOMAIN Tail(l) PROVE Tail(l)[i] \in SetOf(l)
    <2>1. i + 1 \in DOMAIN l /\ Tail(l)[i] = l[i + 1]
      BY <1>1
    <2> QED BY <2>1 DEF SetOf
  <1> QED BY <1>1, <1>2, <1>3, <1>4 DEF SetOf

\* Append adds one element at the end.
LEMMA ListAppend ==
  ASSUME NEW S, NEW l \in Seq(S), NEW x \in S
  PROVE  /\ Append(l, x) \in Seq(S)
         /\ SetOf(Append(l, x)) = SetOf(l) \cup {x}
PROOF
  <1>1. /\ Append(l, x) \in Seq(S) /\ DOMAIN l = 1 .. Len(l) /\ Len(l) \in Nat
        /\ DOMAIN Append(l, x) = 1 .. Len(l) + 1
        /\ Append(l, x)[Len(l) + 1] = x
        /\ \A i \in 1 .. Len(l) : Append(l, x)[i] = l[i]
    OBVIOUS
  <1>2. ASSUME NEW i \in DOMAIN Append(l, x) PROVE Append(l, x)[i] \in SetOf(l) \cup {x}
    <2>1. CASE i = Len(l) + 1
      BY <1>1, <2>1
    <2>2. CASE i # Len(l) + 1
      <3>1. i \in DOMAIN l /\ Append(l, x)[i] = l[i]
        BY <1>1, <2>2
      <3> QED BY <3>1 DEF SetOf
    <2> QED BY <2>1, <2>2
  <1>3. ASSUME NEW i \in DOMAIN l PROVE l[i] \in SetOf(Append(l, x))
    <2>1. i \in DOMAIN Append(l, x) /\ Append(l, x)[i] = l[i]
      BY <1>1
    <2> QED BY <2>1 DEF SetOf
  <1>4. x \in SetOf(Append(l, x))
    <2>1. Len(l) + 1 \in DOMAIN Append(l, x)
      BY <1>1
    <2> QED BY <1>1, <2>1 DEF SetOf
  <1> QED BY <1>1, <1>2, <1>3, <1>4 DEF SetOf

\* A concatenation has the elements of both lists.
LEMMA ListConcat ==
  ASSUME NEW S, NEW s \in Seq(S), NEW t \in Seq(S)
  PROVE  s \o t \in Seq(S) /\ SetOf(s \o t) = SetOf(s) \cup SetOf(t)
PROOF
  <1>1. /\ Len(s) \in Nat /\ Len(t) \in Nat /\ s \o t \in Seq(S)
        /\ DOMAIN s = 1 .. Len(s) /\ DOMAIN t = 1 .. Len(t)
        /\ DOMAIN (s \o t) = 1 .. Len(s) + Len(t)
    BY ConcatShape, ListShape
  <1>2. \A i \in 1 .. Len(s) + Len(t) :
          (s \o t)[i] = IF i <= Len(s) THEN s[i] ELSE t[i - Len(s)]
    BY ConcatShape
  <1>3. \A i \in DOMAIN (s \o t) : (s \o t)[i] \in SetOf(s) \cup SetOf(t)
    BY <1>1, <1>2 DEF SetOf
  <1>4. \A i \in DOMAIN s : s[i] \in SetOf(s \o t)
    BY <1>1, <1>2 DEF SetOf
  <1>5. ASSUME NEW i \in DOMAIN t PROVE t[i] \in SetOf(s \o t)
    <2>1. i + Len(s) \in DOMAIN (s \o t) /\ (s \o t)[i + Len(s)] = t[i]
      BY <1>1, <1>2
    <2> QED BY <2>1 DEF SetOf
  <1> QED BY <1>1, <1>3, <1>4, <1>5 DEF SetOf
-----------------------------------------------------------------------------
(* Lists without repetition, and ascending lists. *)

Once(s) == \A i, j \in DOMAIN s : i # j => s[i] # s[j]
IsAscending(s) == \A i, j \in DOMAIN s : i < j => s[i] < s[j]

\* Nothing comes twice in an ascending list.
LEMMA AscendingOnce ==
  ASSUME NEW s \in Seq(Nat), IsAscending(s)
  PROVE  Once(s)
PROOF
  <1> SUFFICES ASSUME NEW i \in DOMAIN s, NEW j \in DOMAIN s, i # j PROVE s[i] # s[j]
    BY DEF Once
  <1>1. i \in Nat /\ j \in Nat /\ s[i] \in Nat /\ s[j] \in Nat /\ (i < j \/ j < i)
    OBVIOUS
  <1> QED BY <1>1 DEF IsAscending

\* Taking the head of a list without repetition.
LEMMA OnceTail ==
  ASSUME NEW S, NEW s \in Seq(S), s # <<>>, Once(s)
  PROVE  Once(Tail(s)) /\ Head(s) \notin SetOf(Tail(s))
PROOF
  <1>1. /\ Len(s) \in Nat /\ DOMAIN s = 1 .. Len(s) /\ Head(s) = s[1] /\ 1 \in DOMAIN s
        /\ DOMAIN Tail(s) = 1 .. Len(s) - 1
        /\ \A i \in DOMAIN Tail(s) : Tail(s)[i] = s[i + 1] /\ i + 1 \in DOMAIN s /\ i \in Nat
    OBVIOUS
  <1>2. Once(Tail(s))
    BY <1>1 DEF Once
  <1>3. \A i \in DOMAIN Tail(s) : Tail(s)[i] # Head(s)
    BY <1>1 DEF Once
  <1> QED BY <1>2, <1>3 DEF SetOf

\* Adding an element that a list does not have.
LEMMA OnceAppend ==
  ASSUME NEW S, NEW s \in Seq(S), NEW x \in S, Once(s), x \notin SetOf(s)
  PROVE  Once(Append(s, x))
PROOF
  <1>1. /\ DOMAIN s = 1 .. Len(s) /\ Len(s) \in Nat
        /\ DOMAIN Append(s, x) = 1 .. Len(s) + 1
        /\ Append(s, x)[Len(s) + 1] = x
        /\ \A i \in 1 .. Len(s) : Append(s, x)[i] = s[i]
    OBVIOUS
  <1>2. \A i \in DOMAIN Append(s, x) : i \in DOMAIN s \/ i = Len(s) + 1
    BY <1>1
  <1>3. \A i \in DOMAIN s : s[i] # x
    BY DEF SetOf
  <1> QED BY <1>1, <1>2, <1>3 DEF Once

\* Joining two lists that share no element.
LEMMA OnceConcat ==
  ASSUME NEW S, NEW s \in Seq(S), NEW t \in Seq(S), Once(s), Once(t),
         SetOf(s) \cap SetOf(t) = {}
  PROVE  Once(s \o t)
PROOF
  <1>1. /\ Len(s) \in Nat /\ Len(t) \in Nat
        /\ DOMAIN s = 1 .. Len(s) /\ DOMAIN t = 1 .. Len(t)
        /\ DOMAIN (s \o t) = 1 .. Len(s) + Len(t)
    BY ConcatShape, ListShape
  <1>2. \A i \in 1 .. Len(s) + Len(t) :
          (s \o t)[i] = IF i <= Len(s) THEN s[i] ELSE t[i - Len(s)]
    BY ConcatShape
  <1>3. \A i \in DOMAIN s, j \in DOMAIN t : s[i] # t[j]
    BY Zenon DEF SetOf
  <1>4. ASSUME NEW i \in DOMAIN (s \o t), NEW j \in DOMAIN (s \o t), i # j
        PROVE  (s \o t)[i] # (s \o t)[j]
    <2>1. CASE i <= Len(s) /\ j <= Len(s)
      BY <1>1, <1>2, <1>4, <2>1 DEF Once
    <2>2. CASE i > Len(s) /\ j > Len(s)
      <3>1. /\ i - Len(s) \in DOMAIN t /\ j - Len(s) \in DOMAIN t
            /\ i - Len(s) # j - Len(s)
        BY <1>1, <1>4, <2>2
      <3> QED BY <1>1, <1>2, <2>2, <3>1 DEF Once
    <2>3. CASE i <= Len(s) /\ j > Len(s)
      <3>1. i \in DOMAIN s /\ j - Len(s) \in DOMAIN t
        BY <1>1, <2>3
      <3> QED BY <1>1, <1>2, <1>3, <2>3, <3>1
    <2>4. CASE i > Len(s) /\ j <= Len(s)
      <3>1. j \in DOMAIN s /\ i - Len(s) \in DOMAIN t
        BY <1>1, <2>4
      <3> QED BY <1>1, <1>2, <1>3, <2>4, <3>1
    <2> QED BY <1>1, <2>1, <2>2, <2>3, <2>4
  <1> QED BY <1>4 DEF Once

\* The head of an ascending list is less than what follows it.
LEMMA AscendingTail ==
  ASSUME NEW s \in Seq(Nat), s # <<>>, IsAscending(s)
  PROVE  IsAscending(Tail(s)) /\ \A x \in SetOf(Tail(s)) : Head(s) < x
PROOF
  <1>1. /\ Len(s) \in Nat /\ DOMAIN s = 1 .. Len(s) /\ Head(s) = s[1] /\ 1 \in DOMAIN s
        /\ DOMAIN Tail(s) = 1 .. Len(s) - 1
        /\ \A i \in DOMAIN Tail(s) : Tail(s)[i] = s[i + 1] /\ i + 1 \in DOMAIN s /\ i \in Nat
                                      /\ 1 < i + 1
    OBVIOUS
  <1>2. IsAscending(Tail(s))
    <2> SUFFICES ASSUME NEW i \in DOMAIN Tail(s), NEW j \in DOMAIN Tail(s), i < j
                 PROVE  Tail(s)[i] < Tail(s)[j]
      BY DEF IsAscending
    <2>1. i + 1 < j + 1
      BY <1>1
    <2> QED BY <1>1, <2>1 DEF IsAscending
  <1>3. \A i \in DOMAIN Tail(s) : Head(s) < Tail(s)[i]
    BY <1>1 DEF IsAscending
  <1> QED BY <1>2, <1>3 DEF SetOf

\* Adding a greatest element.
LEMMA AscendingAppend ==
  ASSUME NEW s \in Seq(Nat), NEW x \in Nat, IsAscending(s), \A y \in SetOf(s) : y < x
  PROVE  IsAscending(Append(s, x))
PROOF
  <1>1. /\ DOMAIN s = 1 .. Len(s) /\ Len(s) \in Nat
        /\ DOMAIN Append(s, x) = 1 .. Len(s) + 1
        /\ Append(s, x)[Len(s) + 1] = x
        /\ \A i \in 1 .. Len(s) : Append(s, x)[i] = s[i]
    OBVIOUS
  <1>2. \A i \in DOMAIN s : s[i] < x
    BY DEF SetOf
  <1> SUFFICES ASSUME NEW i \in DOMAIN Append(s, x), NEW j \in DOMAIN Append(s, x), i < j
               PROVE  Append(s, x)[i] < Append(s, x)[j]
    BY DEF IsAscending
  <1>3. i \in DOMAIN s /\ (j \in DOMAIN s \/ j = Len(s) + 1)
    BY <1>1
  <1> QED BY <1>1, <1>2, <1>3 DEF IsAscending
-----------------------------------------------------------------------------
(* Induction and recursion. *)

\* Induction over the naturals, for a set.
LEMMA SetInduction ==
  ASSUME NEW S, 0 \in S, \A n \in Nat : n \in S => n + 1 \in S
  PROVE  Nat \subseteq S
PROOF
  <1> DEFINE T == Nat \ S
             Less == {ss \in Nat \X Nat : ss[1] < ss[2]}
  <1> SUFFICES ASSUME T # {} PROVE FALSE
    OBVIOUS
  <1>1. IsWellFoundedOn(Less, Nat)
    BY NatLessThanWellFounded DEF OpToRel
  <1>2. T \subseteq Nat
    OBVIOUS
  <1>3. PICK x \in T : \A y \in T : ~(<<y, x>> \in Less)
    <2> HIDE DEF T, Less
    <2> QED BY <1>1, <1>2, WFMin, Zenon
  <1>4. x \in Nat /\ x # 0 /\ x - 1 \in Nat
    OBVIOUS
  <1>5. <<x - 1, x>> \in Less
    BY <1>4
  <1>6. x - 1 \in S
    BY <1>3, <1>4, <1>5
  <1> QED BY <1>4, <1>6

\* Steps that take a value of S, by their index, to the next one, and the runs
\* of h such steps from a.
Steppers(S) == [Nat -> [S -> S]]
IsRun(S, F, a, h, w) ==
  /\ w \in [0 .. h -> S]
  /\ w[0] = a
  /\ \A i \in 1 .. h : w[i] = F[i][w[i - 1]]

\* A step may be repeated any number of times: recursion over 0 .. h.
LEMMA IterationExists ==
  ASSUME NEW S, NEW F \in Steppers(S), NEW a \in S, NEW h \in Nat
  PROVE  \E w : IsRun(S, F, a, h, w)
PROOF
  <1> DEFINE Runs(k, w) == w[0] = a /\ \A i \in 1 .. k : w[i] = F[i][w[i - 1]]
             Good == {k \in Nat : \E w \in [0 .. k -> S] : Runs(k, w)}
  <1>0. F \in [Nat -> [S -> S]]
    BY DEF Steppers
  <1>1. 0 \in Good
    <2>1. [i \in 0 .. 0 |-> a] \in [0 .. 0 -> S] /\ Runs(0, [i \in 0 .. 0 |-> a])
      OBVIOUS
    <2> QED BY <2>1, Zenon
  <1>2. ASSUME NEW k \in Nat, k \in Good PROVE k + 1 \in Good
    <2>1. PICK w \in [0 .. k -> S] : Runs(k, w)
      BY <1>2
    <2> DEFINE v == [i \in 0 .. k + 1 |-> IF i <= k THEN w[i] ELSE F[k + 1][w[k]]]
    <2>2. w[k] \in S /\ F[k + 1][w[k]] \in S
      BY <1>0, <2>1
    <2>3. v \in [0 .. k + 1 -> S]
      BY <2>1, <2>2
    <2>4. v[0] = a
      BY <2>1
    <2>5. ASSUME NEW i \in 1 .. k + 1 PROVE v[i] = F[i][v[i - 1]]
      <3>1. CASE i <= k
        BY <2>1, <3>1
      <3>2. CASE i = k + 1
        BY <2>1, <3>2
      <3> QED BY <3>1, <3>2
    <2> HIDE DEF v
    <2> QED BY <2>3, <2>4, <2>5
  <1> HIDE DEF Good
  <1>3. h \in Good
    BY <1>1, <1>2, SetInduction
  <1> QED BY <1>3 DEF Good, IsRun

\* What a step keeps, its repetition keeps.
LEMMA IterationKeeps ==
  ASSUME NEW T, NEW h \in Nat, NEW w, w[0] \in T,
         \A i \in 1 .. h : w[i - 1] \in T => w[i] \in T
  PROVE  \A i \in 0 .. h : w[i] \in T
PROOF
  <1> DEFINE Good == {k \in Nat : k <= h => w[k] \in T}
  <1>1. 0 \in Good
    OBVIOUS
  <1>2. ASSUME NEW k \in Nat, k \in Good PROVE k + 1 \in Good
    <2> SUFFICES ASSUME k + 1 <= h PROVE w[k + 1] \in T
      OBVIOUS
    <2>1. k + 1 \in 1 .. h /\ w[(k + 1) - 1] \in T
      BY <1>2
    <2> QED BY <2>1
  <1> HIDE DEF Good
  <1>3. Nat \subseteq Good
    BY <1>1, <1>2, SetInduction
  <1> QED BY <1>3 DEF Good
-----------------------------------------------------------------------------
(* Counting and sorting. *)

\* A function that tells its arguments apart is an injection.
LEMMA OneToOne ==
  ASSUME NEW S, NEW T, NEW f \in [S -> T], \A a, b \in S : f[a] = f[b] => a = b
  PROVE  f \in Injection(S, T)
  BY DEF Injection, IsInjective

\* A list without repetition is as long as its set of elements is large.
LEMMA OnceLength ==
  ASSUME NEW S, NEW s \in Seq(S), Once(s)
  PROVE  IsFiniteSet(SetOf(s)) /\ Cardinality(SetOf(s)) = Len(s)
PROOF
  <1> DEFINE n == Len(s)
  <1>1. n \in Nat /\ DOMAIN s = 1 .. n /\ s \in [1 .. n -> SetOf(s)]
    BY ListShape DEF SetOf
  <1>2. s \in Bijection(1 .. n, SetOf(s))
    <2>1. s \in Injection(1 .. n, SetOf(s))
      BY <1>1, OneToOne DEF Once
    <2>2. s \in Surjection(1 .. n, SetOf(s))
      BY <1>1 DEF Surjection, SetOf
    <2> QED BY <2>1, <2>2 DEF Bijection
  <1>3. ExistsBijection(1 .. n, SetOf(s))
    BY <1>2 DEF ExistsBijection
  <1> HIDE DEF n
  <1>4. IsFiniteSet(SetOf(s)) /\ Cardinality(SetOf(s)) = n
    BY <1>1, <1>3, FS_CountingElements, FS_NatBijection
  <1> QED BY <1>4 DEF n

\* The ascending list of 1 .. m is the identity.
LEMMA AscendingIdentity ==
  ASSUME NEW m \in Nat, NEW s \in Seq(Nat), IsAscending(s), SetOf(s) = 1 .. m
  PROVE  s = [i \in 1 .. m |-> i]
PROOF
  <1>0. Len(s) \in Nat /\ DOMAIN s = 1 .. Len(s) /\ \A i \in DOMAIN s : s[i] \in 1 .. m
    BY ListShape DEF SetOf
  <1>1. Len(s) = m
    <2>1. Cardinality(1 .. m) = m
      BY FS_Interval
    <2> QED BY <2>1, AscendingOnce, OnceLength
  <1> DEFINE Good == {k \in Nat : k <= m => \A i \in 1 .. k : s[i] = i}
  <1>2. 0 \in Good
    OBVIOUS
  <1>3. ASSUME NEW k \in Nat, k \in Good PROVE k + 1 \in Good
    <2> SUFFICES ASSUME k + 1 <= m PROVE s[k + 1] = k + 1
      BY <1>3
    <2>1. \A i \in 1 .. k : s[i] = i
      BY <1>3
    <2>2. PICK j \in DOMAIN s : s[j] = k + 1
      <3>1. k + 1 \in SetOf(s)
        OBVIOUS
      <3> QED BY <3>1 DEF SetOf
    <2>3. j >= k + 1
      BY <1>0, <2>1, <2>2
    <2>4. k + 1 \in DOMAIN s /\ s[k + 1] \in Nat
      BY <1>0, <1>1
    <2>5. s[k + 1] <= k + 1
      BY <1>0, <2>2, <2>3, <2>4 DEF IsAscending
    <2>6. s[k + 1] > k
      <3>1. CASE k = 0
        BY <1>0, <2>4, <3>1
      <3>2. CASE k # 0
        <4>1. k \in DOMAIN s /\ s[k] = k /\ k < k + 1
          BY <1>0, <1>1, <2>1, <3>2
        <4>2. s[k] < s[k + 1]
          BY <2>4, <4>1 DEF IsAscending
        <4> QED BY <4>1, <4>2
      <3> QED BY <3>1, <3>2
    <2> QED BY <2>4, <2>5, <2>6
  <1> HIDE DEF Good
  <1>4. m \in Good
    BY <1>2, <1>3, SetInduction
  <1>5. \A i \in 1 .. m : s[i] = i
    BY <1>4 DEF Good
  <1> QED BY <1>0, <1>1, <1>5

\* What a relation L puts at or before i, and the relations that are total
\* orders of a finite set.
Upto(D, L, i) == {j \in D : <<j, i>> \in L}
IsOrder(D, L) ==
  /\ IsFiniteSet(D)
  /\ \A i, j \in D : <<i, j>> \in L \/ <<j, i>> \in L
  /\ \A i, j \in D : <<i, j>> \in L /\ <<j, i>> \in L => i = j
  /\ \A i, j, k \in D : <<i, j>> \in L /\ <<j, k>> \in L => <<i, k>> \in L

\* Counting what comes before puts every element of a finite set at a place of
\* its own, and fills all places.
LEMMA Ranking ==
  ASSUME NEW D, NEW L, IsOrder(D, L)
  PROVE  /\ \A i \in D : Cardinality(Upto(D, L, i)) \in 1 .. Cardinality(D)
         /\ \A i, j \in D : <<i, j>> \in L <=>
              Cardinality(Upto(D, L, i)) <= Cardinality(Upto(D, L, j))
         /\ \A k \in 1 .. Cardinality(D) : \E i \in D : Cardinality(Upto(D, L, i)) = k
PROOF
  <1> DEFINE c(i) == Cardinality(Upto(D, L, i))
             n == Cardinality(D)
             place == [i \in D |-> c(i)]
  <1>0. IsFiniteSet(D) /\ n \in Nat
    BY FS_CardinalityType DEF IsOrder
  <1>1. ASSUME NEW i \in D
        PROVE  IsFiniteSet(Upto(D, L, i)) /\ c(i) \in Nat /\ c(i) <= n
    <2>1. Upto(D, L, i) \in SUBSET D
      BY DEF Upto
    <2> QED BY <1>0, <2>1, FS_Subset, FS_CardinalityType
  <1>2. ASSUME NEW i \in D PROVE c(i) # 0
    <2>1. i \in Upto(D, L, i)
      BY DEF Upto, IsOrder
    <2> QED BY <1>1, <2>1, FS_EmptySet
  <1>3. ASSUME NEW i \in D, NEW j \in D, <<i, j>> \in L PROVE c(i) <= c(j)
    <2>1. Upto(D, L, i) \in SUBSET Upto(D, L, j)
      BY <1>3 DEF Upto, IsOrder
    <2> QED BY <1>1, <2>1, FS_Subset
  <1>4. ASSUME NEW i \in D, NEW j \in D, <<i, j>> \notin L PROVE c(j) < c(i)
    <2>1. <<j, i>> \in L /\ i \in Upto(D, L, i) /\ i \notin Upto(D, L, j)
      BY <1>4 DEF Upto, IsOrder
    <2>2. Upto(D, L, j) \in SUBSET Upto(D, L, i)
      BY <2>1 DEF Upto, IsOrder
    <2>3. c(j) <= c(i) /\ c(j) # c(i)
      BY <1>1, <2>1, <2>2, FS_Subset
    <2> QED BY <1>1, <2>3
  <1>5. ASSUME NEW i \in D, NEW j \in D PROVE <<i, j>> \in L <=> c(i) <= c(j)
    <2>1. c(i) \in Nat /\ c(j) \in Nat
      BY <1>1
    <2>2. <<i, j>> \in L => c(i) <= c(j)
      BY <1>3
    <2>3. <<i, j>> \notin L => c(j) < c(i)
      BY <1>4
    <2> HIDE DEF c
    <2> QED BY <2>1, <2>2, <2>3
  <1>6. \A k \in 1 .. n : \E i \in D : c(i) = k
    <2>1. \A i \in D : c(i) \in 1 .. n
      BY <1>0, <1>1, <1>2
    <2>2. \A i, j \in D : c(i) = c(j) => i = j
      BY <1>1, <1>5, Zenon DEF IsOrder
    <2> HIDE DEF c
    <2>3. place \in [D -> 1 .. n] /\ \A i, j \in D : place[i] = place[j] => i = j
      BY <2>1, <2>2
    <2>4. place \in Injection(D, 1 .. n)
      BY <2>3, OneToOne, Zenon
    <2>5. IsFiniteSet(1 .. n) /\ Cardinality(1 .. n) = Cardinality(D)
      BY <1>0, FS_Interval
    <2>6. place \in Surjection(D, 1 .. n)
      <3> HIDE DEF n, place
      <3> QED BY <1>0, <2>4, <2>5, FS_Injection, Zenon
    <2> QED BY <2>6, Zenon DEF Surjection
  <1>7. \A i \in D : c(i) \in 1 .. n
    BY <1>0, <1>1, <1>2
  <1> QED BY <1>5, <1>6, <1>7

\* InOrder lists a finite set of numbers in ascending order.
LEMMA InOrderSorts ==
  ASSUME NEW S, IsFiniteSet(S), S \subseteq Nat
  PROVE  /\ InOrder(S) \in Seq(S) /\ Len(InOrder(S)) = Cardinality(S)
         /\ IsAscending(InOrder(S)) /\ SetOf(InOrder(S)) = S
PROOF
  <1> DEFINE L == {e \in S \X S : e[1] <= e[2]}
             n == Cardinality(S)
             s == InOrder(S)
  <1>0. n \in Nat
    BY FS_CardinalityType
  <1>1. \A i, j \in S : <<i, j>> \in L <=> i <= j
    OBVIOUS
  <1>2. IsOrder(S, L)
    <2> HIDE DEF L
    <2> QED BY <1>1 DEF IsOrder
  <1>3. \A i \in S : Place(i, S) = Cardinality(Upto(S, L, i))
    <2> TAKE i \in S
    <2>1. {b \in S : b <= i} = Upto(S, L, i)
      BY <1>1 DEF Upto
    <2> QED BY <2>1 DEF Place
  <1> HIDE DEF L
  <1>4. /\ \A i \in S : Place(i, S) \in 1 .. n
        /\ \A i, j \in S : i <= j <=> Place(i, S) <= Place(j, S)
        /\ \A k \in 1 .. n : \E i \in S : Place(i, S) = k
    <2>1. /\ \A i \in S : Cardinality(Upto(S, L, i)) \in 1 .. Cardinality(S)
          /\ \A i, j \in S : <<i, j>> \in L <=>
               Cardinality(Upto(S, L, i)) <= Cardinality(Upto(S, L, j))
          /\ \A k \in 1 .. Cardinality(S) : \E i \in S : Cardinality(Upto(S, L, i)) = k
      BY <1>2, Ranking, Zenon
    <2>2. \A i \in S : Place(i, S) \in 1 .. n
      BY <1>3, <2>1
    <2>3. ASSUME NEW i \in S, NEW j \in S PROVE i <= j <=> Place(i, S) <= Place(j, S)
      <3>1. /\ Place(i, S) = Cardinality(Upto(S, L, i))
            /\ Place(j, S) = Cardinality(Upto(S, L, j))
        BY <1>3
      <3>2. i <= j <=> Cardinality(Upto(S, L, i)) <= Cardinality(Upto(S, L, j))
        BY <1>1, <2>1, Zenon
      <3> QED BY <3>1, <3>2, Zenon
    <2>4. \A k \in 1 .. n : \E i \in S : Place(i, S) = k
      BY <1>3, <2>1, Zenon
    <2> QED BY <2>2, <2>3, <2>4
  <1>5. s = [k \in 1 .. n |-> CHOOSE a \in S : Place(a, S) = k]
    BY DEF InOrder
  <1>6. \A k \in 1 .. n : s[k] \in S /\ Place(s[k], S) = k
    BY <1>4, <1>5
  <1>7. s \in [1 .. n -> S] /\ DOMAIN s = 1 .. n
    BY <1>5, <1>6
  <1> HIDE DEF s, n
  <1>8. s \in Seq(S) /\ Len(s) = n
    BY <1>0, <1>7
  <1>9. IsAscending(s)
    <2> SUFFICES ASSUME NEW i \in 1 .. n, NEW j \in 1 .. n, i < j PROVE s[i] < s[j]
      BY <1>7 DEF IsAscending
    <2>1. /\ s[i] \in S /\ s[j] \in S
          /\ Place(s[i], S) = i /\ Place(s[j], S) = j
      BY <1>6
    <2>2. ~(j <= i)
      BY <1>0
    <2>3. s[j] <= s[i] <=> Place(s[j], S) <= Place(s[i], S)
      BY <1>4, <2>1, Zenon
    <2>4. s[i] \in Nat /\ s[j] \in Nat
      BY <2>1, Zenon
    <2>5. ~(s[j] <= s[i])
      BY <2>1, <2>2, <2>3, Zenon
    <2> QED BY <2>4, <2>5
  <1>10. \A a \in S : \E k \in 1 .. n : s[k] = a
    <2> TAKE a \in S
    <2>1. Place(a, S) \in 1 .. n /\ s[Place(a, S)] \in S
      BY <1>4, <1>6
    <2>2. Place(s[Place(a, S)], S) = Place(a, S)
      BY <1>6, <2>1
    <2>3. PICK b \in S : b = s[Place(a, S)]
      BY <2>1, Zenon
    <2>4. Place(b, S) = Place(a, S) /\ Place(a, S) \in Nat
      BY <1>0, <2>1, <2>2, <2>3
    <2>5. b <= a /\ a <= b
      BY <1>4, <2>4
    <2>6. a \in Nat /\ b \in Nat
      OBVIOUS
    <2>7. a = b
      BY <2>5, <2>6
    <2> QED BY <2>1, <2>3, <2>7
  <1>11. SetOf(s) = S
    BY <1>6, <1>7, <1>10, Zenon DEF SetOf
  <1> QED BY <1>8, <1>9, <1>11 DEF s, n

\* sort_by_key keeps the elements of a list without repetition and puts them in
\* ascending order.
LEMMA AscendingSorts ==
  ASSUME NEW s \in Seq(Nat), Once(s)
  PROVE  /\ Ascending(s) \in Seq(Nat) /\ Len(Ascending(s)) = Len(s)
         /\ IsAscending(Ascending(s)) /\ SetOf(Ascending(s)) = SetOf(s)
PROOF
  <1> DEFINE n == Len(s)
             D == 1 .. n
             L == {e \in D \X D : s[e[1]] < s[e[2]] \/ (s[e[1]] = s[e[2]] /\ e[1] <= e[2])}
             c(i) == Cardinality(Upto(D, L, i))
             t == Ascending(s)
  <1>0. n \in Nat /\ DOMAIN s = D /\ \A i \in D : s[i] \in Nat /\ i \in Nat
    OBVIOUS
  <1>1. \A i, j \in D : <<i, j>> \in L <=> s[i] < s[j] \/ (s[i] = s[j] /\ i <= j)
    <2> HIDE DEF D
    <2> QED OBVIOUS
  <1>2. IsFiniteSet(D) /\ Cardinality(D) = n
    BY <1>0, FS_Interval
  <1>3. t = [k \in D |-> s[CHOOSE i \in D : c(i) = k]]
    <2>1. \A i \in D : {j \in D : s[j] < s[i] \/ (s[j] = s[i] /\ j <= i)} = Upto(D, L, i)
      <3> HIDE DEF L, D
      <3> QED BY <1>1 DEF Upto
    <2> DEFINE at(k) == CHOOSE i \in D :
             Cardinality({j \in D : s[j] < s[i] \/ (s[j] = s[i] /\ j <= i)}) = k
               by(k) == CHOOSE i \in D : c(i) = k
    <2>2. t = [k \in D |-> s[at(k)]]
      <3> HIDE DEF D
      <3> QED BY <1>0 DEF Ascending
    <2> HIDE DEF D, L, t
    <2>3. \A k \in D : at(k) = by(k)
      BY <2>1, Zenon
    <2>4. SUFFICES t = [k \in D |-> s[by(k)]]
      OBVIOUS
    <2> HIDE DEF at, by
    <2> QED BY <2>2, <2>3
  <1> HIDE DEF L, t
  <1>4. ASSUME NEW i \in D, NEW j \in D PROVE <<i, j>> \in L <=> s[i] <= s[j]
    <2> HIDE DEF D
    <2>1. s[i] \in Nat /\ s[j] \in Nat /\ (s[i] = s[j] => i = j) /\ i \in Nat /\ j \in Nat
      BY <1>0 DEF Once
    <2>2. s[i] < s[j] \/ (s[i] = s[j] /\ i <= j) <=> s[i] <= s[j]
      BY <2>1
    <2> QED BY <1>1, <2>2
  <1>5. IsOrder(D, L)
    <2> HIDE DEF D
    <2>1. \A i, j \in D : s[i] = s[j] => i = j
      BY <1>0 DEF Once
    <2>2. \A i, j \in D : s[i] <= s[j] \/ s[j] <= s[i]
      BY <1>0
    <2>3. \A i, j \in D : s[i] <= s[j] /\ s[j] <= s[i] => i = j
      BY <1>0, <2>1
    <2>4. \A i, j, k \in D : s[i] <= s[j] /\ s[j] <= s[k] => s[i] <= s[k]
      BY <1>0
    <2> QED BY <1>2, <1>4, <2>2, <2>3, <2>4, Zenon DEF IsOrder
  <1> HIDE DEF D
  <1>6. /\ \A i \in D : c(i) \in 1 .. n
        /\ \A i, j \in D : <<i, j>> \in L <=> c(i) <= c(j)
        /\ \A k \in 1 .. n : \E i \in D : c(i) = k
    <2>1. /\ \A i \in D : Cardinality(Upto(D, L, i)) \in 1 .. Cardinality(D)
          /\ \A i, j \in D : <<i, j>> \in L <=>
               Cardinality(Upto(D, L, i)) <= Cardinality(Upto(D, L, j))
          /\ \A k \in 1 .. Cardinality(D) : \E i \in D : Cardinality(Upto(D, L, i)) = k
      BY <1>5, Ranking
    <2> QED BY <1>2, <2>1
  <1> DEFINE p == [k \in D |-> CHOOSE i \in D : c(i) = k]
  <1> HIDE DEF c
  <1>7. D = 1 .. n
    BY DEF D
  <1>8. \A k \in D : p[k] \in D /\ c(p[k]) = k /\ t[k] = s[p[k]]
    BY <1>3, <1>6, <1>7
  <1> HIDE DEF p
  <1>9. DOMAIN t = D /\ t \in [D -> Nat]
    BY <1>0, <1>3, <1>8, Zenon
  <1>10. t \in Seq(Nat) /\ Len(t) = n
    <2> HIDE DEF n
    <2> QED BY <1>0, <1>7, <1>9
  <1>11. IsAscending(t)
    <2> SUFFICES ASSUME NEW i \in D, NEW j \in D, i < j PROVE t[i] < t[j]
      BY <1>9 DEF IsAscending
    <2>1. /\ p[i] \in D /\ p[j] \in D /\ c(p[i]) = i /\ c(p[j]) = j
          /\ t[i] = s[p[i]] /\ t[j] = s[p[j]]
      BY <1>8
    <2>2. ~(j <= i)
      BY <1>0
    <2>3. s[p[j]] <= s[p[i]] <=> c(p[j]) <= c(p[i])
      BY <1>4, <1>6, <2>1, Zenon
    <2>4. ~(s[p[j]] <= s[p[i]])
      BY <2>1, <2>2, <2>3, Zenon
    <2>5. s[p[i]] \in Nat /\ s[p[j]] \in Nat
      BY <1>0, <2>1
    <2> QED BY <2>1, <2>4, <2>5
  <1>12. \A k \in D : t[k] \in SetOf(s)
    BY <1>0, <1>8 DEF SetOf
  <1>13. ASSUME NEW i \in D PROVE s[i] \in SetOf(t)
    <2>1. c(i) \in D
      BY <1>6, <1>7
    <2>2. PICK j \in D : j = p[c(i)] /\ c(j) = c(i) /\ t[c(i)] = s[j]
      BY <1>8, <2>1
    <2>3. c(i) <= c(j) /\ c(j) <= c(i)
      BY <1>0, <1>7, <2>1, <2>2
    <2>4. s[i] <= s[j] /\ s[j] <= s[i]
      BY <1>4, <1>6, <2>3, Zenon
    <2>5. s[i] = s[j]
      BY <1>0, <2>4
    <2> QED BY <1>9, <2>1, <2>2, <2>5 DEF SetOf
  <1>14. SetOf(t) = SetOf(s)
    BY <1>0, <1>9, <1>12, <1>13 DEF SetOf
  <1> QED BY <1>10, <1>11, <1>14 DEF t, n
=============================================================================
