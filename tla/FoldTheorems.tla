---------------------------- MODULE FoldTheorems ----------------------------
(***************************************************************************)
(* What the operators of the folding mean, for every link and every table  *)
(* of redirects: canonical_atom ends where its chain of redirects ends,    *)
(* atoms with equal keys are the same code, the addresses of atoms that    *)
(* may be folded do not show, and Equivalent is the coarsest equivalence   *)
(* that folding may realise.                                               *)
(***************************************************************************)
EXTENDS Fold, DataTheorems


(* Chains of redirects. *)

Redirects == [Atoms -> Atoms \cup {NoAtom}]
Folded(red) == {a \in Atoms : red[a] # NoAtom}
Follow(red, a) == IF red[a] = NoAtom THEN a ELSE red[a]

\* Every redirect leads to a lesser depth, and an atom no redirect leaves has an
\* end: chains are shorter than there are folded atoms.
IsDepth(red, d) ==
  /\ d \in [Atoms -> Nat]
  /\ \A a \in Atoms : d[a] <= Cardinality(Folded(red))
  /\ \A a \in Folded(red) : d[red[a]] < d[a]
IsEnd(red, e) ==
  /\ e \in [Atoms -> Atoms]
  /\ \A a \in Atoms : e[a] = IF red[a] = NoAtom THEN a ELSE e[red[a]]
ChainsEnd(red) ==
  /\ red \in Redirects
  /\ \E d : IsDepth(red, d)
  /\ \E e : IsEnd(red, e)

\* Numbers of atoms.
LEMMA AtomsCounted ==
  /\ Cardinality(Atoms) \in Nat /\ IsFiniteSet(Atoms) /\ NoAtom \notin Atoms
  /\ \A S \in SUBSET Atoms :
       /\ IsFiniteSet(S) /\ Cardinality(S) \in Nat /\ Cardinality(S) <= Cardinality(Atoms)
       /\ S # {} => Cardinality(S) # 0
PROOF
  <1>1. IsFiniteSet(Atoms) /\ Atoms \subseteq Nat \ {0}
    BY DeadStripAssumption, Zenon
  <1>2. NoAtom \notin Atoms
    BY <1>1, Zenon DEF NoAtom
  <1>3. Cardinality(Atoms) \in Nat
    BY <1>1, FS_CardinalityType
  <1>4. ASSUME NEW S \in SUBSET Atoms
        PROVE  /\ IsFiniteSet(S) /\ Cardinality(S) \in Nat
               /\ Cardinality(S) <= Cardinality(Atoms)
               /\ S # {} => Cardinality(S) # 0
    <2>1. IsFiniteSet(S) /\ Cardinality(S) <= Cardinality(Atoms)
      BY <1>1, FS_Subset, Zenon
    <2> QED BY <2>1, FS_CardinalityType, FS_EmptySet
  <1> QED BY <1>1, <1>2, <1>3, <1>4

\* canonical_atom follows redirects as its recursive definition says.
LEMMA CanonicalFollows ==
  ASSUME NEW red \in Redirects, NEW a \in Atoms, NEW h \in Nat, h = Cardinality(Atoms)
  PROVE  \E w : /\ w \in [0 .. h -> Atoms] /\ w[0] = a
                /\ \A n \in 1 .. h : w[n] = Follow(red, w[n - 1])
                /\ CanonicalAtom(red, a) = w[h]
PROOF
  <1> DEFINE F == [i \in Nat |-> [c \in Atoms |-> Follow(red, c)]]
             Body(w) == [n \in 0 .. Cardinality(Atoms) |->
                           IF n = 0 THEN a
                           ELSE LET b == w[n - 1]
                                IN  IF red[b] = NoAtom THEN b ELSE red[b]]
  <1>1. \A c \in Atoms : Follow(red, c) \in Atoms
    BY Zenon DEF Redirects, Follow
  <1>2. F \in Steppers(Atoms)
    BY <1>1, Zenon DEF Steppers
  <1>3. PICK w : IsRun(Atoms, F, a, h, w)
    <2> HIDE DEF F
    <2> QED BY <1>2, IterationExists
  <1>4. /\ w \in [0 .. h -> Atoms] /\ w[0] = a
        /\ \A i \in 1 .. h : w[i] = Follow(red, w[i - 1])
    <2>1. /\ w \in [0 .. h -> Atoms] /\ w[0] = a
          /\ \A i \in 1 .. h : w[i] = F[i][w[i - 1]]
      <3> HIDE DEF F
      <3> QED BY <1>3, Zenon DEF IsRun
    <2>2. ASSUME NEW i \in 1 .. h PROVE w[i] = Follow(red, w[i - 1])
      <3>1. i \in Nat /\ w[i - 1] \in Atoms
        BY <2>1
      <3>2. F[i][w[i - 1]] = Follow(red, w[i - 1])
        BY <3>1, Zenon
      <3> QED BY <2>1, <3>2, Zenon
    <2> QED BY <2>1, <2>2, Zenon
  <1>5. w = Body(w)
    BY <1>4 DEF Follow
  <1> DEFINE v == CHOOSE v : v = Body(v)
  <1>6. CanonicalAtom(red, a) = v[h]
    BY Zenon DEF CanonicalAtom
  <1>7. v = Body(v)
    <2> HIDE DEF Body
    <2> QED BY <1>5, Zenon
  <1> HIDE DEF v
  <1>8. v[0] = a /\ \A n \in 1 .. h : v[n] = Follow(red, v[n - 1])
    BY <1>7 DEF Follow
  <1>9. \A i \in 0 .. h : v[i] \in Atoms
    BY <1>1, <1>8, IterationKeeps, Zenon
  <1>10. v = [i \in 0 .. h |-> v[i]]
    BY <1>7, Zenon
  <1>11. v \in [0 .. h -> Atoms]
    BY <1>9, <1>10, Zenon
  <1> QED BY <1>6, <1>8, <1>11

\* canonical_atom finds the end of a chain, in any table whose chains end.
LEMMA CanonicalIsEnd ==
  ASSUME NEW red \in Redirects, NEW d, IsDepth(red, d), NEW e, IsEnd(red, e), NEW a \in Atoms
  PROVE  CanonicalAtom(red, a) = e[a] /\ e[a] \in Atoms /\ red[e[a]] = NoAtom
PROOF
  <1> DEFINE h == Cardinality(Atoms)
             T(n) == {c \in Atoms : e[c] = e[a] /\ (red[c] = NoAtom \/ d[c] + n <= h)}
  <1>1. h \in Nat /\ \A c \in Atoms : d[c] \in Nat /\ d[c] <= h
    <2>1. Folded(red) \in SUBSET Atoms
      BY Zenon DEF Folded
    <2>2. Cardinality(Folded(red)) \in Nat /\ Cardinality(Folded(red)) <= h /\ h \in Nat
      BY <2>1, AtomsCounted, Zenon
    <2> HIDE DEF h
    <2> QED BY <2>2 DEF IsDepth
  <1> HIDE DEF h
  <1>2. PICK w : /\ w \in [0 .. h -> Atoms] /\ w[0] = a
                 /\ \A n \in 1 .. h : w[n] = Follow(red, w[n - 1])
                 /\ CanonicalAtom(red, a) = w[h]
    BY <1>1, CanonicalFollows DEF h
  <1>3. ASSUME NEW n \in 1 .. h, NEW c \in T(n - 1) PROVE Follow(red, c) \in T(n)
    <2>1. CASE red[c] = NoAtom
      BY <2>1, Zenon DEF Follow
    <2>2. CASE red[c] # NoAtom
      <3>1. Follow(red, c) = red[c] /\ red[c] \in Atoms
        BY <2>2, Zenon DEF Follow, Redirects
      <3>2. e[red[c]] = e[a]
        BY <2>2, Zenon DEF IsEnd
      <3>3. d[red[c]] < d[c] /\ d[c] + (n - 1) <= h /\ d[c] \in Nat /\ d[red[c]] \in Nat
        BY <1>1, <2>2, <3>1 DEF IsDepth, Folded
      <3>4. d[red[c]] + n <= h
        BY <1>1, <3>3
      <3> QED BY <3>1, <3>2, <3>4, Zenon
    <2> QED BY <2>1, <2>2, Zenon
  <1>4. a \in T(0)
    BY <1>1
  <1> DEFINE Good == {n \in Nat : n <= h => w[n] \in T(n)}
  <1>5. 0 \in Good
    BY <1>2, <1>4, Zenon
  <1>6. ASSUME NEW n \in Nat, n \in Good PROVE n + 1 \in Good
    <2> SUFFICES ASSUME n + 1 <= h PROVE w[n + 1] \in T(n + 1)
      OBVIOUS
    <2> HIDE DEF T
    <2>1. n + 1 \in 1 .. h /\ w[n] \in T(n) /\ (n + 1) - 1 = n
      BY <1>1, <1>6
    <2>2. w[n + 1] = Follow(red, w[n])
      BY <1>2, <2>1, Zenon
    <2> QED BY <1>3, <2>1, <2>2, Zenon
  <1> HIDE DEF Good
  <1>7. h \in Good
    BY <1>1, <1>5, <1>6, SetInduction, Zenon
  <1>8. w[h] \in T(h)
    BY <1>1, <1>7 DEF Good
  <1>9. red[w[h]] = NoAtom
    <2> SUFFICES ASSUME red[w[h]] # NoAtom PROVE FALSE
      BY Zenon
    <2>1. w[h] \in Atoms /\ red[w[h]] \in Atoms /\ d[red[w[h]]] < d[w[h]] /\ d[w[h]] + h <= h
      BY <1>8, Zenon DEF IsDepth, Folded, Redirects
    <2>2. d[w[h]] \in Nat /\ d[red[w[h]]] \in Nat
      BY <1>1, <2>1, Zenon
    <2> HIDE DEF T
    <2> QED BY <1>1, <2>1, <2>2
  <1>10. w[h] \in Atoms /\ e[w[h]] = e[a]
    BY <1>8
  <1>11. e[w[h]] = w[h]
    BY <1>9, <1>10, Zenon DEF IsEnd
  <1> QED BY <1>2, <1>9, <1>10, <1>11, Zenon

\* What canonical_atom finds: an atom that is not folded, the same one along a
\* chain.
LEMMA ChainFacts ==
  ASSUME NEW red, ChainsEnd(red), NEW a \in Atoms
  PROVE  /\ CanonicalAtom(red, a) \in Atoms /\ red[CanonicalAtom(red, a)] = NoAtom
         /\ red[a] = NoAtom => CanonicalAtom(red, a) = a
         /\ red[a] # NoAtom => /\ red[a] \in Atoms
                               /\ CanonicalAtom(red, a) = CanonicalAtom(red, red[a])
PROOF
  <1>1. red \in Redirects
    BY Zenon DEF ChainsEnd
  <1>2. PICK d : IsDepth(red, d)
    BY Zenon DEF ChainsEnd
  <1>3. PICK e : IsEnd(red, e)
    BY Zenon DEF ChainsEnd
  <1>4. \A b \in Atoms : /\ CanonicalAtom(red, b) = e[b] /\ e[b] \in Atoms
                         /\ red[e[b]] = NoAtom
    BY <1>1, <1>2, <1>3, CanonicalIsEnd
  <1>5. red[a] # NoAtom => red[a] \in Atoms
    BY <1>1, Zenon DEF Redirects
  <1>6. e[a] = IF red[a] = NoAtom THEN a ELSE e[red[a]]
    BY <1>3, Zenon DEF IsEnd
  <1> QED BY <1>4, <1>5, <1>6

\* No redirect, no chain.
LEMMA NoChains == ChainsEnd([a \in Atoms |-> NoAtom])
PROOF
  <1> DEFINE red == [a \in Atoms |-> NoAtom]
  <1>1. red \in Redirects /\ Folded(red) = {} /\ \A a \in Atoms : red[a] = NoAtom
    BY DEF Redirects, Folded
  <1> HIDE DEF red
  <1>2. IsDepth(red, [a \in Atoms |-> 0])
    BY <1>1, FS_EmptySet DEF IsDepth
  <1>3. IsEnd(red, [a \in Atoms |-> a])
    BY <1>1, Zenon DEF IsEnd
  <1> QED BY <1>1, <1>2, <1>3, Zenon DEF ChainsEnd, red

\* Folding a set of atoms into one: what led to one of them leads to the winner.
LEMMA ChainsGrow ==
  ASSUME NEW red, ChainsEnd(red), NEW L \in SUBSET Atoms, L # {}, NEW w \in Atoms \ L,
         \A a \in L \cup {w} : red[a] = NoAtom,
         NEW new, new = [a \in Atoms |-> IF a \in L THEN w ELSE red[a]]
  PROVE  /\ ChainsEnd(new)
         /\ \A a \in Atoms :
              CanonicalAtom(new, a) =
                IF CanonicalAtom(red, a) \in L THEN w ELSE CanonicalAtom(red, a)
PROOF
  <1>1. red \in Redirects
    BY Zenon DEF ChainsEnd
  <1>2. PICK d : IsDepth(red, d)
    BY Zenon DEF ChainsEnd
  <1>3. PICK e : IsEnd(red, e)
    BY Zenon DEF ChainsEnd
  <1>4. \A b \in Atoms : /\ CanonicalAtom(red, b) = e[b] /\ e[b] \in Atoms
                         /\ red[e[b]] = NoAtom
    BY <1>1, <1>2, <1>3, CanonicalIsEnd
  <1> DEFINE D == [a \in Atoms |-> IF a \in Folded(red) \cup L THEN d[a] + 1 ELSE 0]
             E == [a \in Atoms |-> IF e[a] \in L THEN w ELSE e[a]]
  <1>5. new \in Redirects
    BY <1>1, Zenon DEF Redirects
  <1>6. Folded(new) = Folded(red) \cup L /\ Folded(red) \cap L = {} /\ w \notin Folded(new)
    BY AtomsCounted DEF Folded
  <1>7. /\ Cardinality(Folded(red)) \in Nat /\ Cardinality(Folded(new)) \in Nat
        /\ Cardinality(Folded(red)) < Cardinality(Folded(new))
    <2>1. Folded(red) \in SUBSET Folded(new) /\ Folded(red) # Folded(new)
      BY <1>6, Zenon
    <2>2. Folded(red) \in SUBSET Atoms /\ Folded(new) \in SUBSET Atoms
      BY Zenon DEF Folded
    <2>3. /\ IsFiniteSet(Folded(new)) /\ Cardinality(Folded(red)) \in Nat
          /\ Cardinality(Folded(new)) \in Nat
      BY <2>2, AtomsCounted, Zenon
    <2>4. /\ Cardinality(Folded(red)) <= Cardinality(Folded(new))
          /\ Cardinality(Folded(red)) # Cardinality(Folded(new))
      BY <2>1, <2>3, FS_Subset, Zenon
    <2> QED BY <2>3, <2>4
  <1>8. IsDepth(new, D)
    <2>1. D \in [Atoms -> Nat]
      BY <1>2 DEF IsDepth
    <2>2. ASSUME NEW a \in Atoms PROVE D[a] <= Cardinality(Folded(new))
      <3>1. d[a] \in Nat /\ d[a] <= Cardinality(Folded(red))
        BY <1>2, Zenon DEF IsDepth
      <3>2. D[a] = d[a] + 1 \/ D[a] = 0
        BY Zenon
      <3> HIDE DEF D
      <3> QED BY <1>7, <3>1, <3>2
    <2>3. ASSUME NEW a \in Folded(new) PROVE D[new[a]] < D[a]
      <3>1. a \in Atoms /\ new[a] \in Atoms /\ D[a] = d[a] + 1 /\ d[a] \in Nat
        BY <1>2, <1>5, <1>6, Zenon DEF Folded, IsDepth, Redirects
      <3>2. CASE new[a] \in Folded(red) \cup L
        <4>1. new[a] = red[a] /\ a \in Folded(red)
          <5>1. a \notin L
            BY <1>6, <3>1, <3>2
          <5> QED BY <1>6, <3>1, <5>1, Zenon
        <4>2. D[new[a]] = d[red[a]] + 1 /\ d[red[a]] < d[a] /\ d[red[a]] \in Nat
          BY <1>2, <3>1, <3>2, <4>1, Zenon DEF IsDepth
        <4> HIDE DEF D
        <4> QED BY <3>1, <4>2
      <3>3. CASE new[a] \notin Folded(red) \cup L
        <4>1. D[new[a]] = 0
          BY <3>1, <3>3
        <4> HIDE DEF D
        <4> QED BY <3>1, <4>1
      <3> QED BY <3>2, <3>3, Zenon
    <2> HIDE DEF D
    <2> QED BY <2>1, <2>2, <2>3 DEF IsDepth
  <1>9. IsEnd(new, E)
    <2>1. E \in [Atoms -> Atoms]
      BY <1>4, Zenon
    <2>2. ASSUME NEW a \in Atoms PROVE E[a] = IF new[a] = NoAtom THEN a ELSE E[new[a]]
      <3>1. CASE a \in L
        <4>1. red[a] = NoAtom /\ red[w] = NoAtom
          BY <3>1, Zenon
        <4>2. e[a] = a /\ e[w] = w
          BY <1>3, <4>1 DEF IsEnd
        <4> QED BY <3>1, <4>2, AtomsCounted
      <3>2. CASE a \notin L /\ red[a] = NoAtom
        <4>1. e[a] = a
          BY <1>3, <3>2, Zenon DEF IsEnd
        <4> QED BY <3>2, <4>1
      <3>3. CASE a \notin L /\ red[a] # NoAtom
        <4>1. e[a] = e[red[a]] /\ red[a] \in Atoms /\ new[a] = red[a]
          BY <1>1, <1>3, <3>3 DEF IsEnd, Redirects
        <4> QED BY <3>3, <4>1
      <3> QED BY <3>1, <3>2, <3>3
    <2> HIDE DEF E
    <2> QED BY <2>1, <2>2, Zenon DEF IsEnd
  <1>10. \A a \in Atoms : CanonicalAtom(new, a) = E[a]
    <2> HIDE DEF D, E
    <2> QED BY <1>5, <1>8, <1>9, CanonicalIsEnd
  <1>11. ChainsEnd(new)
    <2> HIDE DEF D, E
    <2> QED BY <1>5, <1>8, <1>9, Zenon DEF ChainsEnd
  <1> QED BY <1>4, <1>10, <1>11
-----------------------------------------------------------------------------
(* Relocations of an atom, and what it is for two atoms to be the same. *)

\* relocs_for_atom yields a sequence of the atom's own relocations.
LEMMA RelocsShape ==
  ASSUME NEW l, IsFoldLink(l), NEW a
  PROVE  /\ Len(RelocsFor(l, a)) \in Nat
         /\ DOMAIN RelocsFor(l, a) = 1 .. Len(RelocsFor(l, a))
         /\ \A k \in DOMAIN RelocsFor(l, a) :
              \E i \in DOMAIN l.code : RelocsFor(l, a)[k] = l.code[i] /\ l.code[i].from = a
PROOF
  <1> DEFINE S == {i \in DOMAIN l.code : l.code[i].from = a}
             own == InOrder(S)
             p == [k \in DOMAIN own |-> l.code[own[k]]]
             n == Cardinality(S)
  <1>1. IsFiniteSet(S) /\ S \subseteq Nat /\ n \in Nat
    <2>1. Len(l.code) \in Nat /\ DOMAIN l.code = 1 .. Len(l.code)
      BY Zenon DEF IsFoldLink
    <2>2. IsFiniteSet(1 .. Len(l.code)) /\ S \in SUBSET (1 .. Len(l.code))
      BY <2>1, FS_Interval
    <2>3. IsFiniteSet(S)
      BY <2>2, FS_Subset
    <2> QED BY <2>1, <2>3, FS_CardinalityType
  <1>2. own \in Seq(S) /\ Len(own) = n
    <2> HIDE DEF S
    <2> QED BY <1>1, InOrderSorts, Zenon
  <1> HIDE DEF own, n
  <1>3. DOMAIN own = 1 .. n /\ \A k \in 1 .. n : own[k] \in S
    BY <1>1, <1>2
  <1>4. p \in Seq({l.code[i] : i \in S}) /\ Len(p) = n /\ DOMAIN p = 1 .. n
    BY <1>1, <1>3
  <1>5. RelocsFor(l, a) = p
    BY Zenon DEF RelocsFor, own
  <1>6. \A k \in 1 .. n : p[k] = l.code[own[k]]
    BY <1>3, Zenon
  <1> HIDE DEF p
  <1>7. \A k \in 1 .. n : own[k] \in DOMAIN l.code /\ l.code[own[k]].from = a
    BY <1>3
  <1> QED BY <1>1, <1>4, <1>5, <1>6, <1>7

IsEquivalence(R) ==
  /\ \A a \in Atoms : <<a, a>> \in R
  /\ \A a, b : <<a, b>> \in R => <<b, a>> \in R
  /\ \A a, b, c : <<a, b>> \in R /\ <<b, c>> \in R => <<a, c>> \in R

\* References that lead to the same, swapped, chained and under more folds.
LEMMA SameRefLaws ==
  ASSUME NEW l, NEW R, IsEquivalence(R), NEW r, NEW q, NEW x, NEW y, SameRef(l, R, r, q, x, y)
  PROVE  /\ SameRef(l, R, q, r, y, x)
         /\ \A o, z : SameRef(l, R, q, o, y, z) => SameRef(l, R, r, o, x, z)
         /\ \A T : R \subseteq T => SameRef(l, T, r, q, x, y)
PROOF
  <1> DEFINE u == Leads(l, r, x)
             v == Leads(l, q, y)
  <1>1. IF NoAtom \in {u.atom, v.atom} THEN u = v
        ELSE u.rest = v.rest /\ <<u.atom, v.atom>> \in R
    BY Zenon DEF SameRef
  <1>2. SameRef(l, R, q, r, y, x)
    <2>1. IF NoAtom \in {v.atom, u.atom} THEN v = u
          ELSE v.rest = u.rest /\ <<v.atom, u.atom>> \in R
      <3> HIDE DEF u, v
      <3> QED BY <1>1, Zenon DEF IsEquivalence
    <2> QED BY <2>1 DEF SameRef
  <1>3. ASSUME NEW o, NEW z, SameRef(l, R, q, o, y, z) PROVE SameRef(l, R, r, o, x, z)
    <2> DEFINE t == Leads(l, o, z)
    <2>1. IF NoAtom \in {v.atom, t.atom} THEN v = t
          ELSE v.rest = t.rest /\ <<v.atom, t.atom>> \in R
      BY <1>3 DEF SameRef
    <2>2. IF NoAtom \in {u.atom, t.atom} THEN u = t
          ELSE u.rest = t.rest /\ <<u.atom, t.atom>> \in R
      <3> HIDE DEF u, v, t
      <3> QED BY <1>1, <2>1 DEF IsEquivalence
    <2> QED BY <2>2, Zenon DEF SameRef
  <1>4. ASSUME NEW T, R \subseteq T PROVE SameRef(l, T, r, q, x, y)
    <2>1. IF NoAtom \in {u.atom, v.atom} THEN u = v
          ELSE u.rest = v.rest /\ <<u.atom, v.atom>> \in T
      <3> HIDE DEF u, v
      <3> QED BY <1>1, <1>4
    <2> QED BY <2>1, Zenon DEF SameRef
  <1> QED BY <1>2, <1>3, <1>4, Zenon

\* The k-th relocations of two atoms.
SameReloc(l, R, r, q) ==
  /\ r.slot = q.slot /\ r.kind = q.kind
  /\ r.addend = q.addend /\ r.implicit = q.implicit
  /\ SameRef(l, R, r, q, r.ref, q.ref)
  /\ SameRef(l, R, r, q, r.minus, q.minus)
Contents(l, a) == <<l.at[a].kind, l.at[a].out, l.at[a].body>>

\* SameCode, relocation by relocation.
LEMMA SameCodeIs ==
  ASSUME NEW l, NEW R, NEW a, NEW b
  PROVE  SameCode(l, R, a, b) <=>
           /\ Contents(l, a) = Contents(l, b)
           /\ Len(RelocsFor(l, a)) = Len(RelocsFor(l, b))
           /\ \A k \in DOMAIN RelocsFor(l, a) :
                SameReloc(l, R, RelocsFor(l, a)[k], RelocsFor(l, b)[k])
  BY Zenon DEF SameCode, SameReloc, Contents

\* The same for the contents of atoms.
LEMMA SameCodeLaws ==
  ASSUME NEW l, IsFoldLink(l), NEW R, IsEquivalence(R), NEW a, NEW b, SameCode(l, R, a, b)
  PROVE  /\ SameCode(l, R, b, a)
         /\ \A c : SameCode(l, R, b, c) => SameCode(l, R, a, c)
         /\ \A T : R \subseteq T => SameCode(l, T, a, b)
PROOF
  <1>1. ASSUME NEW c PROVE DOMAIN RelocsFor(l, c) = 1 .. Len(RelocsFor(l, c))
    BY RelocsShape
  <1>2. /\ Contents(l, a) = Contents(l, b)
        /\ Len(RelocsFor(l, a)) = Len(RelocsFor(l, b))
        /\ \A k \in DOMAIN RelocsFor(l, a) :
             SameReloc(l, R, RelocsFor(l, a)[k], RelocsFor(l, b)[k])
    BY SameCodeIs
  <1>3. ASSUME NEW r, NEW q, SameReloc(l, R, r, q)
        PROVE  /\ SameReloc(l, R, q, r)
               /\ \A o : SameReloc(l, R, q, o) => SameReloc(l, R, r, o)
               /\ \A T : R \subseteq T => SameReloc(l, T, r, q)
    <2>1. SameReloc(l, R, q, r)
      BY <1>3, SameRefLaws DEF SameReloc
    <2>2. ASSUME NEW o, SameReloc(l, R, q, o) PROVE SameReloc(l, R, r, o)
      <3>1. SameRef(l, R, r, o, r.ref, o.ref)
        BY <1>3, <2>2, SameRefLaws DEF SameReloc
      <3>2. SameRef(l, R, r, o, r.minus, o.minus)
        BY <1>3, <2>2, SameRefLaws DEF SameReloc
      <3> QED BY <1>3, <2>2, <3>1, <3>2 DEF SameReloc
    <2>3. ASSUME NEW T, R \subseteq T PROVE SameReloc(l, T, r, q)
      BY <1>3, <2>3, SameRefLaws DEF SameReloc
    <2> QED BY <2>1, <2>2, <2>3, Zenon
  <1>4. SameCode(l, R, b, a)
    <2>1. \A k \in DOMAIN RelocsFor(l, b) :
            SameReloc(l, R, RelocsFor(l, b)[k], RelocsFor(l, a)[k])
      BY <1>1, <1>2, <1>3
    <2> QED BY <1>2, <2>1, SameCodeIs, Zenon
  <1>5. ASSUME NEW c, SameCode(l, R, b, c) PROVE SameCode(l, R, a, c)
    <2>1. /\ Contents(l, b) = Contents(l, c)
          /\ Len(RelocsFor(l, b)) = Len(RelocsFor(l, c))
          /\ \A k \in DOMAIN RelocsFor(l, b) :
               SameReloc(l, R, RelocsFor(l, b)[k], RelocsFor(l, c)[k])
      BY <1>5, SameCodeIs
    <2>2. \A k \in DOMAIN RelocsFor(l, a) :
            SameReloc(l, R, RelocsFor(l, a)[k], RelocsFor(l, c)[k])
      BY <1>1, <1>2, <1>3, <2>1, Zenon
    <2> QED BY <1>2, <2>1, <2>2, SameCodeIs
  <1>6. ASSUME NEW T, R \subseteq T PROVE SameCode(l, T, a, b)
    <2>1. \A k \in DOMAIN RelocsFor(l, a) :
            SameReloc(l, T, RelocsFor(l, a)[k], RelocsFor(l, b)[k])
      BY <1>2, <1>3, <1>6
    <2> QED BY <1>2, <2>1, SameCodeIs
  <1> QED BY <1>4, <1>5, <1>6, Zenon
-----------------------------------------------------------------------------
(* What redirects say of the atoms and of the names. *)

\* Atoms that the same atom stands for.
Kernel == {e \in Atoms \X Atoms : Canonical(e[1]) = Canonical(e[2])}

\* A symbol is bound to its atom or to one with the same stand-in.
BoundTo ==
  /\ bound \in [Symbols -> Atoms \cup {NoAtom}]
  /\ \A s \in Symbols :
       /\ bound[s] = NoAtom <=> link.sym[s].atom = NoAtom
       /\ HasAtom(link, s) =>
            /\ Canonical(bound[s]) = Canonical(link.sym[s].atom)
            /\ stage = "folded" => bound[s] = Canonical(link.sym[s].atom)

-----------------------------------------------------------------------------
(* Equal keys. *)

Final(l, ref) == l.sym[ref.sym].final
BaseOf(r, ref) == IF r.kind = "difference" THEN ref.off ELSE TargetOffset(r, ref.off)
Inside(l, input, sec, base) ==
  {a \in SectionAtoms(l, input, sec) : l.at[a].off <= base /\ base < EndOf(l, a)}
LocalLead(l, input, sec, base) ==
  IF Inside(l, input, sec, base) # {}
    THEN LET a == CHOOSE a \in Inside(l, input, sec, base) : TRUE
         IN  [atom |-> a, rest |-> <<base - l.at[a].off>>]
    ELSE [atom |-> NoAtom, rest |-> <<"none", input, sec, base>>]

\* Where referents lead, sort by sort.
LEMMA LeadsOf ==
  ASSUME NEW l, NEW r, NEW x
  PROVE  /\ x.kind = "global" /\ HasAtom(l, Final(l, x)) =>
              Leads(l, r, x) = [atom |-> l.sym[Final(l, x)].atom, rest |-> <<0>>]
         /\ x.kind = "global" /\ l.sym[Final(l, x)].kind = "Absolute" =>
              Leads(l, r, x) = [atom |-> NoAtom, rest |-> <<l.value[Final(l, x)]>>]
         /\ x.kind = "global" /\ ~HasAtom(l, Final(l, x))
              /\ l.sym[Final(l, x)].kind # "Absolute" =>
              Leads(l, r, x) = [atom |-> NoAtom, rest |-> <<"symbol", Final(l, x)>>]
         /\ x.kind = "abs" => Leads(l, r, x) = [atom |-> NoAtom, rest |-> <<x.off>>]
         /\ x.kind \in {"local", "section"} =>
              Leads(l, r, x) = LocalLead(l, l.at[r.from].input, x.sec, BaseOf(r, x))
         /\ x.kind = "none" => Leads(l, r, x) = [atom |-> NoAtom, rest |-> <<>>]
PROOF
  <1>1. ASSUME x.kind = "global", HasAtom(l, Final(l, x))
        PROVE  Leads(l, r, x) = [atom |-> l.sym[Final(l, x)].atom, rest |-> <<0>>]
    BY <1>1 DEF Leads, Final, HasAtom
  <1>2. ASSUME x.kind = "global", l.sym[Final(l, x)].kind = "Absolute"
        PROVE  Leads(l, r, x) = [atom |-> NoAtom, rest |-> <<l.value[Final(l, x)]>>]
    BY <1>2 DEF Leads, Final, HasAtom
  <1>3. ASSUME x.kind = "global", ~HasAtom(l, Final(l, x)), l.sym[Final(l, x)].kind # "Absolute"
        PROVE  Leads(l, r, x) = [atom |-> NoAtom, rest |-> <<"symbol", Final(l, x)>>]
    BY <1>3, Zenon DEF Leads, Final
  <1>4. ASSUME x.kind = "abs" PROVE Leads(l, r, x) = [atom |-> NoAtom, rest |-> <<x.off>>]
    BY <1>4 DEF Leads
  <1>5. ASSUME x.kind = "none" PROVE Leads(l, r, x) = [atom |-> NoAtom, rest |-> <<>>]
    BY <1>5 DEF Leads
  <1>6. ASSUME x.kind \in {"local", "section"}
        PROVE  Leads(l, r, x) = LocalLead(l, l.at[r.from].input, x.sec, BaseOf(r, x))
    <2> DEFINE I == Inside(l, l.at[r.from].input, x.sec, BaseOf(r, x))
    <2>1. CASE I # {}
      BY <1>6, <2>1, Zenon DEF Leads, LocalLead, Inside, BaseOf
    <2>2. CASE I = {}
      BY <1>6, <2>2, Zenon DEF Leads, LocalLead, Inside, BaseOf
    <2> QED BY <2>1, <2>2, Zenon
  <1> QED BY <1>1, <1>2, <1>3, <1>4, <1>5, <1>6, Zenon

\* What normalize_referent makes of referents, sort by sort.
LEMMA NormalOf ==
  ASSUME IsLink(link), BoundTo, NEW i, NEW x, IsReferent(x)
  PROVE  /\ x.kind = "global" /\ HasAtom(link, Final(link, x)) =>
              NormalizeReferent(link, i, x) =
                <<"atom", Canonical(link.sym[Final(link, x)].atom)>>
         /\ x.kind = "global" /\ link.sym[Final(link, x)].kind = "Absolute" =>
              NormalizeReferent(link, i, x) = <<"abs", link.value[Final(link, x)]>>
         /\ x.kind = "global" /\ ~HasAtom(link, Final(link, x))
              /\ link.sym[Final(link, x)].kind # "Absolute" =>
              NormalizeReferent(link, i, x) = <<"symbol", Final(link, x)>>
         /\ x.kind = "abs" => NormalizeReferent(link, i, x) = <<"abs", x.off>>
         /\ x.kind = "local" => NormalizeReferent(link, i, x) = <<"local", i, x.id>>
         /\ x.kind = "section" => NormalizeReferent(link, i, x) = <<"section", i, x.sec>>
         /\ x.kind = "none" => NormalizeReferent(link, i, x) = <<"none">>
PROOF
  <1>1. x.kind = "global" => Final(link, x) \in Symbols
    BY DEF IsReferent, Final, IsLink, SymbolEntry
  <1>2. ASSUME x.kind = "global", HasAtom(link, Final(link, x))
        PROVE  NormalizeReferent(link, i, x) =
                 <<"atom", Canonical(link.sym[Final(link, x)].atom)>>
    <2>1. /\ bound[Final(link, x)] # NoAtom
          /\ Canonical(bound[Final(link, x)]) = Canonical(link.sym[Final(link, x)].atom)
      BY <1>1, <1>2, Zenon DEF BoundTo, HasAtom
    <2>2. NormalizeReferent(link, i, x) = <<"atom", Canonical(bound[Final(link, x)])>>
      BY <1>2, <2>1 DEF NormalizeReferent, Final, HasAtom, Canonical
    <2> QED BY <2>1, <2>2
  <1>3. ASSUME x.kind = "global", link.sym[Final(link, x)].kind = "Absolute"
        PROVE  NormalizeReferent(link, i, x) = <<"abs", link.value[Final(link, x)]>>
    BY <1>3 DEF NormalizeReferent, Final
  <1>4. ASSUME x.kind = "global", ~HasAtom(link, Final(link, x)),
               link.sym[Final(link, x)].kind # "Absolute"
        PROVE  NormalizeReferent(link, i, x) = <<"symbol", Final(link, x)>>
    <2>1. link.sym[Final(link, x)].kind = "Defined" => bound[Final(link, x)] = NoAtom
      BY <1>1, <1>4 DEF BoundTo, HasAtom
    <2> QED BY <1>4, <2>1, Zenon DEF NormalizeReferent, Final
  <1>5. x.kind = "abs" => NormalizeReferent(link, i, x) = <<"abs", x.off>>
    BY DEF NormalizeReferent
  <1>6. x.kind = "local" => NormalizeReferent(link, i, x) = <<"local", i, x.id>>
    BY Zenon DEF NormalizeReferent, LocalReferent
  <1>7. x.kind = "section" => NormalizeReferent(link, i, x) = <<"section", i, x.sec>>
    BY DEF NormalizeReferent, LocalReferent
  <1>8. x.kind = "none" => NormalizeReferent(link, i, x) = <<"none">>
    BY DEF NormalizeReferent
  <1> QED BY <1>2, <1>3, <1>4, <1>5, <1>6, <1>7, <1>8, Zenon

\* The sort of a referent: what stands first in its normal form.
SortOf(l, x) ==
  IF x.kind # "global" THEN x.kind
  ELSE IF HasAtom(l, Final(l, x)) THEN "atom"
  ELSE IF l.sym[Final(l, x)].kind = "Absolute" THEN "abs" ELSE "symbol"

\* The sort shows in the normal form.
LEMMA SortShows ==
  ASSUME IsLink(link), BoundTo, NEW i, NEW x, IsReferent(x), x.kind # "unknown"
  PROVE  /\ NormalizeReferent(link, i, x)[1] = SortOf(link, x)
         /\ SortOf(link, x) \in {"atom", "abs", "symbol", "local", "section", "none"}
PROOF
  <1>1. x.kind \in {"global", "local", "abs", "section", "none"}
    BY DEF IsReferent
  <1>2. CASE x.kind = "global"
    <2>1. CASE HasAtom(link, Final(link, x))
      BY <1>2, <2>1, NormalOf DEF SortOf
    <2>2. CASE ~HasAtom(link, Final(link, x)) /\ link.sym[Final(link, x)].kind = "Absolute"
      BY <1>2, <2>2, NormalOf DEF SortOf
    <2>3. CASE ~HasAtom(link, Final(link, x)) /\ link.sym[Final(link, x)].kind # "Absolute"
      BY <1>2, <2>3, NormalOf DEF SortOf
    <2> QED BY <2>1, <2>2, <2>3
  <1>3. CASE x.kind # "global"
    BY <1>1, <1>3, NormalOf DEF SortOf
  <1> QED BY <1>2, <1>3, Zenon

\* A name with an atom leads to its start and shows its stand-in.
LEMMA AtomSort ==
  ASSUME IsLink(link), BoundTo, NEW i, NEW r, NEW x, IsReferent(x), SortOf(link, x) = "atom"
  PROVE  /\ Leads(link, r, x).atom \in Atoms /\ Leads(link, r, x).rest = <<0>>
         /\ NormalizeReferent(link, i, x)[2] = Canonical(Leads(link, r, x).atom)
PROOF
  <1>1. x.kind \in {"global", "local", "abs", "section", "none", "unknown"}
    BY Zenon DEF IsReferent
  <1>2. x.kind = "global" /\ HasAtom(link, Final(link, x))
    BY <1>1 DEF SortOf
  <1>3. Final(link, x) \in Symbols
    BY <1>2 DEF IsReferent, Final, IsLink, SymbolEntry
  <1>4. link.sym[Final(link, x)].atom \in Atoms
    BY <1>2, <1>3, Zenon DEF IsLink, SymbolEntry, HasAtom
  <1>5. Leads(link, r, x) = [atom |-> link.sym[Final(link, x)].atom, rest |-> <<0>>]
    BY <1>2, LeadsOf
  <1>6. NormalizeReferent(link, i, x) = <<"atom", Canonical(link.sym[Final(link, x)].atom)>>
    BY <1>2, NormalOf, Zenon
  <1>7. NormalizeReferent(link, i, x)[2] = Canonical(link.sym[Final(link, x)].atom)
    BY <1>6
  <1>8. /\ Leads(link, r, x).atom = link.sym[Final(link, x)].atom
        /\ Leads(link, r, x).rest = <<0>>
    BY <1>5
  <1> QED BY <1>4, <1>7, <1>8, Zenon

\* An absolute name and a constant lead to the value they show.
LEMMA AbsSort ==
  ASSUME IsLink(link), BoundTo, NEW i, NEW r, NEW x, IsReferent(x), SortOf(link, x) = "abs"
  PROVE  Leads(link, r, x) =
           [atom |-> NoAtom, rest |-> <<NormalizeReferent(link, i, x)[2]>>]
PROOF
  <1>1. CASE x.kind = "abs"
    <2>1. Leads(link, r, x) = [atom |-> NoAtom, rest |-> <<x.off>>]
      BY <1>1, LeadsOf
    <2>2. NormalizeReferent(link, i, x) = <<"abs", x.off>>
      BY <1>1, NormalOf
    <2>3. NormalizeReferent(link, i, x)[2] = x.off
      BY <2>2
    <2> QED BY <2>1, <2>3, Zenon
  <1>2. CASE x.kind # "abs"
    <2>0. x.kind = "global" /\ link.sym[Final(link, x)].kind = "Absolute"
      BY <1>2, Zenon DEF SortOf
    <2>1. Leads(link, r, x) = [atom |-> NoAtom, rest |-> <<link.value[Final(link, x)]>>]
      BY <2>0, LeadsOf
    <2>2. NormalizeReferent(link, i, x) = <<"abs", link.value[Final(link, x)]>>
      BY <2>0, NormalOf
    <2>3. NormalizeReferent(link, i, x)[2] = link.value[Final(link, x)]
      BY <2>2
    <2> QED BY <2>1, <2>3, Zenon
  <1> QED BY <1>1, <1>2, Zenon

\* Any other name leads to itself.
LEMMA SymbolSort ==
  ASSUME IsLink(link), BoundTo, NEW i, NEW r, NEW x, IsReferent(x), SortOf(link, x) = "symbol"
  PROVE  Leads(link, r, x) =
           [atom |-> NoAtom, rest |-> <<"symbol", NormalizeReferent(link, i, x)[2]>>]
PROOF
  <1>1. x.kind \in {"global", "local", "abs", "section", "none", "unknown"}
    BY Zenon DEF IsReferent
  <1>2. /\ x.kind = "global" /\ ~HasAtom(link, Final(link, x))
        /\ link.sym[Final(link, x)].kind # "Absolute"
    BY <1>1 DEF SortOf
  <1>3. Leads(link, r, x) = [atom |-> NoAtom, rest |-> <<"symbol", Final(link, x)>>]
    BY <1>2, LeadsOf
  <1>4. NormalizeReferent(link, i, x) = <<"symbol", Final(link, x)>>
    BY <1>2, NormalOf, Zenon
  <1>5. NormalizeReferent(link, i, x)[2] = Final(link, x)
    BY <1>4
  <1> QED BY <1>3, <1>5, Zenon

\* A missing referent leads nowhere.
LEMMA NoneSort ==
  ASSUME NEW r, NEW x, SortOf(link, x) = "none"
  PROVE  Leads(link, r, x) = [atom |-> NoAtom, rest |-> <<>>]
PROOF
  <1>1. x.kind = "none"
    BY Zenon DEF SortOf
  <1> QED BY <1>1, LeadsOf

\* A local referent leads into an atom of its section or to no atom.
LEMMA LocalSort ==
  ASSUME IsLink(link), BoundTo, NEW r, NEW x, IsReferent(x),
         NEW m, m = link.at[r.from].input, SortOf(link, x) \in {"local", "section"}
  PROVE  /\ x.kind = SortOf(link, x)
         /\ NormalizeReferent(link, m, x)[2] = m
         /\ NormalizeReferent(link, m, x)[3] = IF x.kind = "local" THEN x.id ELSE x.sec
         /\ Leads(link, r, x) = LocalLead(link, m, x.sec, BaseOf(r, x))
         /\ Leads(link, r, x).atom \in Atoms \cup {NoAtom}
PROOF
  <1>1. x.kind = SortOf(link, x)
    BY DEF SortOf
  <1>2. Leads(link, r, x) = LocalLead(link, m, x.sec, BaseOf(r, x))
    BY <1>1, LeadsOf
  <1>3. /\ NormalizeReferent(link, m, x)[2] = m
        /\ NormalizeReferent(link, m, x)[3] = IF x.kind = "local" THEN x.id ELSE x.sec
    <2>1. CASE x.kind = "local"
      <3>1. NormalizeReferent(link, m, x) = <<"local", m, x.id>>
        BY <2>1, NormalOf
      <3> QED BY <2>1, <3>1
    <2>2. CASE x.kind = "section"
      <3>1. NormalizeReferent(link, m, x) = <<"section", m, x.sec>>
        BY <2>2, NormalOf, Zenon
      <3> QED BY <2>2, <3>1
    <2> QED BY <1>1, <2>1, <2>2, Zenon
  <1>4. Leads(link, r, x).atom \in Atoms \cup {NoAtom}
    <2> DEFINE b == BaseOf(r, x)
               I == Inside(link, m, x.sec, b)
               a == CHOOSE a \in I : TRUE
    <2>1. I \subseteq Atoms
      BY DEF Inside, SectionAtoms
    <2>2. I # {} => a \in I
      BY Zenon
    <2>3. I # {} => Leads(link, r, x) = [atom |-> a, rest |-> <<b - link.at[a].off>>]
      BY <1>2, Zenon DEF LocalLead
    <2>4. I = {} => Leads(link, r, x) =
                      [atom |-> NoAtom, rest |-> <<"none", m, x.sec, b>>]
      BY <1>2, Zenon DEF LocalLead
    <2> HIDE DEF I, a, b
    <2> QED BY <2>1, <2>2, <2>3, <2>4
  <1> QED BY <1>1, <1>2, <1>3, <1>4, Zenon

\* The same local symbol is the same place.
LocalPlace(m, n, x, y) ==
  x.kind = "local" /\ y.kind = "local" /\ m = n /\ x.id = y.id => x.sec = y.sec /\ x.off = y.off

\* Referents with the same normal form lead to the same up to the folds made.
LEMMA NormalsLead ==
  ASSUME IsLink(link), BoundTo, NEW r, NEW q, NEW x, NEW y, IsReferent(x), IsReferent(y),
         x.kind # "unknown", y.kind # "unknown",
         NormalizeReferent(link, link.at[r.from].input, x) =
           NormalizeReferent(link, link.at[q.from].input, y),
         LocalPlace(link.at[r.from].input, link.at[q.from].input, x, y),
         x.off = y.off => BaseOf(r, x) = BaseOf(q, y)
  PROVE  SameRef(link, Kernel, r, q, x, y)
PROOF
  <1> DEFINE m == link.at[r.from].input
             n == link.at[q.from].input
             u == Leads(link, r, x)
             v == Leads(link, q, y)
             X == NormalizeReferent(link, m, x)
             Y == NormalizeReferent(link, n, y)
  <1>1. /\ SortOf(link, x) = SortOf(link, y)
        /\ SortOf(link, x) \in {"atom", "abs", "symbol", "local", "section", "none"}
    <2>1. X[1] = SortOf(link, x) /\ Y[1] = SortOf(link, y)
      BY SortShows
    <2>2. SortOf(link, x) \in {"atom", "abs", "symbol", "local", "section", "none"}
      BY SortShows
    <2> QED BY <2>1, <2>2, Zenon
  <1> SUFFICES \/ u = v /\ u.atom \in Atoms \cup {NoAtom}
               \/ u.rest = v.rest /\ <<u.atom, v.atom>> \in Kernel
    <2> HIDE DEF u, v
    <2>1. IF NoAtom \in {u.atom, v.atom} THEN u = v
          ELSE u.rest = v.rest /\ <<u.atom, v.atom>> \in Kernel
      BY AtomsCounted DEF Kernel
    <2> QED BY <2>1, Zenon DEF SameRef, u, v
  <1>2. CASE SortOf(link, x) = "atom"
    <2>0. SortOf(link, y) = "atom"
      BY <1>1, <1>2, Zenon
    <2>1. u.atom \in Atoms /\ u.rest = <<0>> /\ X[2] = Canonical(u.atom)
      BY <1>2, AtomSort
    <2>2. v.atom \in Atoms /\ v.rest = <<0>> /\ Y[2] = Canonical(v.atom)
      BY <2>0, AtomSort
    <2>3. Canonical(u.atom) = Canonical(v.atom)
      BY <2>1, <2>2, Zenon
    <2> HIDE DEF u, v
    <2>4. <<u.atom, v.atom>> \in Kernel
      BY <2>1, <2>2, <2>3, Zenon DEF Kernel
    <2> QED BY <2>1, <2>2, <2>4, Zenon DEF u, v
  <1>3. CASE SortOf(link, x) = "abs"
    <2>0. SortOf(link, y) = "abs"
      BY <1>1, <1>3, Zenon
    <2>1. u = [atom |-> NoAtom, rest |-> <<X[2]>>]
      BY <1>3, AbsSort, Zenon
    <2>2. v = [atom |-> NoAtom, rest |-> <<Y[2]>>]
      BY <2>0, AbsSort, Zenon
    <2>3. u = v
      BY <2>1, <2>2, Zenon
    <2> QED BY <2>1, <2>3
  <1>4. CASE SortOf(link, x) = "symbol"
    <2>0. SortOf(link, y) = "symbol"
      BY <1>1, <1>4, Zenon
    <2>1. u = [atom |-> NoAtom, rest |-> <<"symbol", X[2]>>]
      BY <1>4, SymbolSort, Zenon
    <2>2. v = [atom |-> NoAtom, rest |-> <<"symbol", Y[2]>>]
      BY <2>0, SymbolSort, Zenon
    <2>3. u = v
      BY <2>1, <2>2, Zenon
    <2> QED BY <2>1, <2>3
  <1>5. CASE SortOf(link, x) = "none"
    <2>0. SortOf(link, y) = "none"
      BY <1>1, <1>5
    <2>1. u = [atom |-> NoAtom, rest |-> <<>>]
      BY <1>5, NoneSort, Zenon
    <2>2. v = [atom |-> NoAtom, rest |-> <<>>]
      BY <2>0, NoneSort, Zenon
    <2> QED BY <2>1, <2>2
  <1>6. CASE SortOf(link, x) \in {"local", "section"}
    <2>0. SortOf(link, y) \in {"local", "section"}
      BY <1>1, <1>6
    <2>1. /\ x.kind = SortOf(link, x) /\ u = LocalLead(link, m, x.sec, BaseOf(r, x))
          /\ X[2] = m /\ X[3] = IF x.kind = "local" THEN x.id ELSE x.sec
          /\ u.atom \in Atoms \cup {NoAtom}
      BY <1>6, LocalSort
    <2>2. /\ y.kind = SortOf(link, y) /\ v = LocalLead(link, n, y.sec, BaseOf(q, y))
          /\ Y[2] = n /\ Y[3] = IF y.kind = "local" THEN y.id ELSE y.sec
      BY <2>0, LocalSort
    <2>3. /\ m = n /\ y.kind = x.kind
          /\ IF x.kind = "local" THEN x.id = y.id ELSE x.sec = y.sec
      BY <1>1, <2>1, <2>2, Zenon
    <2>4. x.sec = y.sec /\ x.off = y.off
      <3>1. CASE x.kind = "local"
        BY <2>3, <3>1, Zenon DEF LocalPlace
      <3>2. CASE x.kind = "section"
        BY <2>3, <3>2 DEF IsReferent
      <3> QED BY <1>6, <2>1, <3>1, <3>2
    <2> QED BY <2>1, <2>2, <2>3, <2>4, Zenon
  <1> QED BY <1>1, <1>2, <1>3, <1>4, <1>5, <1>6

\* The same for the referents of two relocations that are alike otherwise.
LEMMA EqualNormals ==
  ASSUME IsLink(link), IsFoldLink(link), BoundTo,
         NEW i \in DOMAIN link.code, NEW j \in DOMAIN link.code, NEW r, NEW q, NEW x, NEW y,
         r = link.code[i], q = link.code[j],
         x \in {r.ref, r.minus}, y \in {q.ref, q.minus},
         x.kind # "unknown", y.kind # "unknown",
         r.kind = q.kind, r.addend = q.addend, r.implicit = q.implicit,
         NormalizeReferent(link, link.at[r.from].input, x) =
           NormalizeReferent(link, link.at[q.from].input, y)
  PROVE  SameRef(link, Kernel, r, q, x, y)
PROOF
  <1> DEFINE m == link.at[r.from].input
             n == link.at[q.from].input
  <1>1. IsReferent(x) /\ IsReferent(y)
    BY DEF IsFoldLink
  <1>2. LocalsAgree(link, r, q)
    BY DEF IsFoldLink
  <1>3. LocalPlace(m, n, x, y)
    BY <1>2, Zenon DEF LocalsAgree, LocalPlace
  <1>4. x.off = y.off => BaseOf(r, x) = BaseOf(q, y)
    BY DEF BaseOf, TargetOffset
  <1> QED BY <1>1, <1>3, <1>4, NormalsLead, Zenon

Implicits(l, a) == [k \in DOMAIN RelocsFor(l, a) |-> RelocsFor(l, a)[k].implicit]

\* An entry of a signature.
Signed(input, r) ==
  [slot |-> r.slot, kind |-> r.kind, addend |-> r.addend,
   ref |-> NormalizeReferent(link, input, r.ref),
   minus |-> NormalizeReferent(link, input, r.minus)]

\* What is the same in two entries that are.
LEMMA SignedAlike ==
  ASSUME NEW i, NEW j, NEW r, NEW q
  PROVE  Signed(i, r) = Signed(j, q) <=>
           /\ r.slot = q.slot /\ r.kind = q.kind /\ r.addend = q.addend
           /\ NormalizeReferent(link, i, r.ref) = NormalizeReferent(link, j, q.ref)
           /\ NormalizeReferent(link, i, r.minus) = NormalizeReferent(link, j, q.minus)
PROOF
  <1>1. /\ Signed(i, r).slot = r.slot /\ Signed(i, r).kind = r.kind
        /\ Signed(i, r).addend = r.addend
        /\ Signed(i, r).ref = NormalizeReferent(link, i, r.ref)
        /\ Signed(i, r).minus = NormalizeReferent(link, i, r.minus)
    BY DEF Signed
  <1>2. /\ Signed(j, q).slot = q.slot /\ Signed(j, q).kind = q.kind
        /\ Signed(j, q).addend = q.addend
        /\ Signed(j, q).ref = NormalizeReferent(link, j, q.ref)
        /\ Signed(j, q).minus = NormalizeReferent(link, j, q.minus)
    BY DEF Signed
  <1>3. ASSUME r.slot = q.slot, r.kind = q.kind, r.addend = q.addend,
               NormalizeReferent(link, i, r.ref) = NormalizeReferent(link, j, q.ref),
               NormalizeReferent(link, i, r.minus) = NormalizeReferent(link, j, q.minus)
        PROVE  Signed(i, r) = Signed(j, q)
    BY <1>3, Zenon DEF Signed
  <1> QED BY <1>1, <1>2, <1>3, Zenon

\* What is the same in two atoms with the same key.
LEMMA KeysAlike ==
  ASSUME NEW a, NEW b
  PROVE  FoldKey(link, a) = FoldKey(link, b) <=>
           /\ Contents(link, a) = Contents(link, b)
           /\ Implicits(link, a) = Implicits(link, b)
           /\ RelocSignature(link, a) = RelocSignature(link, b)
PROOF
  <1>1. ASSUME NEW c
        PROVE  FoldKey(link, c) =
                 [kind |-> link.at[c].kind, out |-> link.at[c].out, body |-> link.at[c].body,
                  implicit |-> Implicits(link, c), relocs |-> RelocSignature(link, c)]
    BY Zenon DEF FoldKey, Implicits
  <1>2. ASSUME NEW c
        PROVE  /\ FoldKey(link, c).kind = link.at[c].kind
               /\ FoldKey(link, c).out = link.at[c].out
               /\ FoldKey(link, c).body = link.at[c].body
               /\ FoldKey(link, c).implicit = Implicits(link, c)
               /\ FoldKey(link, c).relocs = RelocSignature(link, c)
    BY <1>1
  <1>3. Contents(link, a) = Contents(link, b) <=>
          /\ link.at[a].kind = link.at[b].kind /\ link.at[a].out = link.at[b].out
          /\ link.at[a].body = link.at[b].body
    BY DEF Contents
  <1>4. ASSUME FoldKey(link, a) = FoldKey(link, b)
        PROVE  /\ link.at[a].kind = link.at[b].kind /\ link.at[a].out = link.at[b].out
               /\ link.at[a].body = link.at[b].body
               /\ Implicits(link, a) = Implicits(link, b)
               /\ RelocSignature(link, a) = RelocSignature(link, b)
    BY <1>2, <1>4
  <1>5. ASSUME link.at[a].kind = link.at[b].kind, link.at[a].out = link.at[b].out,
               link.at[a].body = link.at[b].body,
               Implicits(link, a) = Implicits(link, b),
               RelocSignature(link, a) = RelocSignature(link, b)
        PROVE  FoldKey(link, a) = FoldKey(link, b)
    BY <1>1, <1>5, Zenon
  <1> QED BY <1>3, <1>4, <1>5

\* Atoms of one bucket are the same up to the folds made.
LEMMA EqualKeys ==
  ASSUME IsLink(link), IsFoldLink(link), BoundTo, NEW a, NEW b,
         Foldable(link, a), Foldable(link, b), FoldKey(link, a) = FoldKey(link, b)
  PROVE  SameCode(link, Kernel, a, b)
PROOF
  <1> DEFINE p == RelocsFor(link, a)
             q == RelocsFor(link, b)
             m == link.at[a].input
             n == link.at[b].input
  <1>1. /\ Contents(link, a) = Contents(link, b)
        /\ [k \in DOMAIN p |-> p[k].implicit] = [k \in DOMAIN q |-> q[k].implicit]
        /\ [k \in DOMAIN p |-> Signed(m, p[k])] = [k \in DOMAIN q |-> Signed(n, q[k])]
    <2>1. /\ Contents(link, a) = Contents(link, b) /\ Implicits(link, a) = Implicits(link, b)
          /\ RelocSignature(link, a) = RelocSignature(link, b)
      BY KeysAlike
    <2>2. /\ RelocSignature(link, a) = [k \in DOMAIN p |-> Signed(m, p[k])]
          /\ RelocSignature(link, b) = [k \in DOMAIN q |-> Signed(n, q[k])]
      BY Zenon DEF RelocSignature, Signed
    <2>3. [k \in DOMAIN p |-> p[k].implicit] = [k \in DOMAIN q |-> q[k].implicit]
      BY <2>1 DEF Implicits
    <2> QED BY <2>1, <2>2, <2>3, Zenon
  <1>2. /\ DOMAIN p = 1 .. Len(p) /\ DOMAIN q = 1 .. Len(q) /\ Len(p) \in Nat /\ Len(q) \in Nat
        /\ \A k \in DOMAIN p : \E i \in DOMAIN link.code :
             p[k] = link.code[i] /\ link.code[i].from = a
        /\ \A k \in DOMAIN q : \E i \in DOMAIN link.code :
             q[k] = link.code[i] /\ link.code[i].from = b
    BY RelocsShape
  <1> HIDE DEF p, q, m, n
  <1>3. DOMAIN p = DOMAIN q /\ \A k \in DOMAIN p : p[k].implicit = q[k].implicit
    BY <1>1, Zenon
  <1>4. ASSUME NEW k \in DOMAIN p
        PROVE  /\ p[k].slot = q[k].slot /\ p[k].kind = q[k].kind /\ p[k].addend = q[k].addend
               /\ NormalizeReferent(link, m, p[k].ref) = NormalizeReferent(link, n, q[k].ref)
               /\ NormalizeReferent(link, m, p[k].minus) = NormalizeReferent(link, n, q[k].minus)
    <2>1. Signed(m, p[k]) = Signed(n, q[k])
      BY <1>1, <1>3, Zenon
    <2> QED BY <2>1, SignedAlike
  <1>5. ASSUME NEW k \in DOMAIN p PROVE SameReloc(link, Kernel, p[k], q[k])
    <2>1. PICK i \in DOMAIN link.code : p[k] = link.code[i] /\ link.code[i].from = a
      BY <1>2, Zenon
    <2>2. PICK j \in DOMAIN link.code : q[k] = link.code[j] /\ link.code[j].from = b
      BY <1>2, <1>3, Zenon
    <2>3. /\ p[k].ref.kind # "unknown" /\ p[k].minus.kind # "unknown"
          /\ q[k].ref.kind # "unknown" /\ q[k].minus.kind # "unknown"
      BY <2>1, <2>2, Zenon DEF Foldable
    <2>4. link.at[p[k].from].input = m /\ link.at[q[k].from].input = n
      BY <2>1, <2>2 DEF m, n
    <2>5. SameRef(link, Kernel, p[k], q[k], p[k].ref, q[k].ref)
      BY <1>3, <1>4, <2>1, <2>2, <2>3, <2>4, EqualNormals, Zenon
    <2>6. SameRef(link, Kernel, p[k], q[k], p[k].minus, q[k].minus)
      BY <1>3, <1>4, <2>1, <2>2, <2>3, <2>4, EqualNormals
    <2> QED BY <1>3, <1>4, <2>5, <2>6 DEF SameReloc
  <1>6. Len(p) = Len(q)
    <2>1. \A i, j \in Nat : 1 .. i = 1 .. j => i = j
      OBVIOUS
    <2> QED BY <1>2, <1>3, <2>1, Zenon
  <1> QED BY <1>1, <1>5, <1>6, SameCodeIs, Zenon DEF p, q

\* Where a referent by name leads tells its normal form.
LEMMA NamedLead ==
  ASSUME IsLink(link), BoundTo, NEW m, NEW r, NEW x, IsReferent(x), x.kind \in {"global", "none"},
         NEW u, u = Leads(link, r, x), NEW X, X = NormalizeReferent(link, m, x)
  PROVE  \/ u.atom \in Atoms /\ X = <<"atom", Canonical(u.atom)>>
         \/ u.atom = NoAtom /\ Len(u.rest) = 1 /\ X = <<"abs", u.rest[1]>>
         \/ u.atom = NoAtom /\ Len(u.rest) = 2 /\ X = <<"symbol", u.rest[2]>>
         \/ u.atom = NoAtom /\ Len(u.rest) = 0 /\ X = <<"none">>
PROOF
  <1> DEFINE s == Final(link, x)
  <1>1. CASE x.kind = "global" /\ HasAtom(link, s)
    <2>1. s \in Symbols
      BY <1>1 DEF IsReferent, Final, IsLink, SymbolEntry
    <2>2. link.sym[s].atom \in Atoms
      BY <1>1, <2>1 DEF IsLink, SymbolEntry, HasAtom
    <2>3. u = [atom |-> link.sym[s].atom, rest |-> <<0>>]
      BY <1>1, LeadsOf, Zenon
    <2>4. X = <<"atom", Canonical(link.sym[s].atom)>>
      BY <1>1, NormalOf
    <2>5. u.atom = link.sym[s].atom
      BY <2>3
    <2> QED BY <2>2, <2>4, <2>5, Zenon
  <1>2. CASE x.kind = "global" /\ link.sym[s].kind = "Absolute"
    <2>1. u = [atom |-> NoAtom, rest |-> <<link.value[s]>>]
      BY <1>2, LeadsOf
    <2>2. X = <<"abs", link.value[s]>>
      BY <1>2, NormalOf
    <2>3. u.atom = NoAtom /\ Len(u.rest) = 1 /\ u.rest[1] = link.value[s]
      BY <2>1
    <2> QED BY <2>2, <2>3, Zenon
  <1>3. CASE x.kind = "global" /\ ~HasAtom(link, s) /\ link.sym[s].kind # "Absolute"
    <2>1. u = [atom |-> NoAtom, rest |-> <<"symbol", s>>]
      BY <1>3, LeadsOf, Zenon
    <2>2. X = <<"symbol", s>>
      BY <1>3, NormalOf
    <2>3. u.atom = NoAtom /\ Len(u.rest) = 2 /\ u.rest[2] = s
      BY <2>1
    <2> QED BY <2>2, <2>3, Zenon
  <1>4. CASE x.kind = "none"
    <2>1. u = [atom |-> NoAtom, rest |-> <<>>]
      BY <1>4, LeadsOf, Zenon
    <2>2. X = <<"none">>
      BY <1>4, NormalOf
    <2>3. u.atom = NoAtom /\ Len(u.rest) = 0
      BY <2>1
    <2> QED BY <2>2, <2>3, Zenon
  <1> QED BY <1>1, <1>2, <1>3, <1>4, Zenon

\* Referents by name that lead to the same up to the folds made have the same
\* normal form.
LEMMA NamedNormals ==
  ASSUME IsLink(link), IsFoldLink(link), BoundTo,
         NEW r, NEW q, NEW x, NEW y, IsReferent(x), IsReferent(y),
         x.kind \in {"global", "none"}, y.kind \in {"global", "none"},
         SameRef(link, Kernel, r, q, x, y), NEW m, NEW n
  PROVE  NormalizeReferent(link, m, x) = NormalizeReferent(link, n, y)
PROOF
  <1> DEFINE u == Leads(link, r, x)
             v == Leads(link, q, y)
             X == NormalizeReferent(link, m, x)
             Y == NormalizeReferent(link, n, y)
  <1>1. IF NoAtom \in {u.atom, v.atom} THEN u = v
        ELSE u.rest = v.rest /\ <<u.atom, v.atom>> \in Kernel
    BY Zenon DEF SameRef
  <1>2. \/ u.atom \in Atoms /\ X = <<"atom", Canonical(u.atom)>>
        \/ u.atom = NoAtom /\ Len(u.rest) = 1 /\ X = <<"abs", u.rest[1]>>
        \/ u.atom = NoAtom /\ Len(u.rest) = 2 /\ X = <<"symbol", u.rest[2]>>
        \/ u.atom = NoAtom /\ Len(u.rest) = 0 /\ X = <<"none">>
    BY NamedLead, Zenon
  <1>3. \/ v.atom \in Atoms /\ Y = <<"atom", Canonical(v.atom)>>
        \/ v.atom = NoAtom /\ Len(v.rest) = 1 /\ Y = <<"abs", v.rest[1]>>
        \/ v.atom = NoAtom /\ Len(v.rest) = 2 /\ Y = <<"symbol", v.rest[2]>>
        \/ v.atom = NoAtom /\ Len(v.rest) = 0 /\ Y = <<"none">>
    BY NamedLead, Zenon
  <1> HIDE DEF u, v, X, Y
  <1> SUFFICES X = Y
    BY DEF X, Y
  <1>4. CASE NoAtom \in {u.atom, v.atom}
    <2>1. u = v /\ u.atom = NoAtom
      BY <1>1, <1>4
    <2>2. NoAtom \notin Atoms
      BY AtomsCounted
    <2>3. Len(u.rest) = 1 => X = Y
      <3>1. Len(u.rest) = 1 => X = <<"abs", u.rest[1]>> /\ Y = <<"abs", u.rest[1]>>
        BY <1>2, <1>3, <2>1, <2>2
      <3> QED BY <3>1, Zenon
    <2>4. Len(u.rest) = 2 => X = Y
      <3>1. Len(u.rest) = 2 => X = <<"symbol", u.rest[2]>> /\ Y = <<"symbol", u.rest[2]>>
        BY <1>2, <1>3, <2>1, <2>2
      <3> QED BY <3>1, Zenon
    <2>5. Len(u.rest) = 0 => X = Y
      <3>1. Len(u.rest) = 0 => X = <<"none">> /\ Y = <<"none">>
        BY <1>2, <1>3, <2>1, <2>2
      <3> QED BY <3>1, Zenon
    <2>6. Len(u.rest) = 0 \/ Len(u.rest) = 1 \/ Len(u.rest) = 2
      BY <1>2, <2>1, <2>2, Zenon
    <2> QED BY <2>3, <2>4, <2>5, <2>6, Zenon
  <1>5. CASE NoAtom \notin {u.atom, v.atom}
    <2>1. Canonical(u.atom) = Canonical(v.atom)
      BY <1>1, <1>5, Zenon DEF Kernel
    <2>2. X = <<"atom", Canonical(u.atom)>> /\ Y = <<"atom", Canonical(v.atom)>>
      BY <1>2, <1>3, <1>5, Zenon
    <2> QED BY <2>1, <2>2, Zenon
  <1> QED BY <1>4, <1>5, Zenon

\* Atoms that are the same up to the folds made and could be merged have the
\* same key.
LEMMA MergeableKeys ==
  ASSUME IsLink(link), IsFoldLink(link), BoundTo, NEW a, NEW b,
         Mergeable(link, a), Mergeable(link, b), SameCode(link, Kernel, a, b)
  PROVE  FoldKey(link, a) = FoldKey(link, b)
PROOF
  <1> DEFINE p == RelocsFor(link, a)
             q == RelocsFor(link, b)
             m == link.at[a].input
             n == link.at[b].input
  <1>1. /\ Contents(link, a) = Contents(link, b) /\ Len(p) = Len(q)
        /\ \A k \in DOMAIN p : SameReloc(link, Kernel, p[k], q[k])
    BY SameCodeIs
  <1>2. /\ DOMAIN p = 1 .. Len(p) /\ DOMAIN q = 1 .. Len(q)
        /\ \A k \in DOMAIN p : \E i \in DOMAIN link.code :
             p[k] = link.code[i] /\ link.code[i].from = a
        /\ \A k \in DOMAIN q : \E i \in DOMAIN link.code :
             q[k] = link.code[i] /\ link.code[i].from = b
    BY RelocsShape
  <1> HIDE DEF p, q
  <1>3. DOMAIN p = DOMAIN q
    BY <1>1, <1>2, Zenon
  <1>4. ASSUME NEW k \in DOMAIN p
        PROVE  Signed(m, p[k]) = Signed(n, q[k]) /\ p[k].implicit = q[k].implicit
    <2>1. PICK i \in DOMAIN link.code : p[k] = link.code[i] /\ link.code[i].from = a
      BY <1>2
    <2>2. PICK j \in DOMAIN link.code : q[k] = link.code[j] /\ link.code[j].from = b
      BY <1>2, <1>3
    <2>3. /\ {p[k].ref.kind, p[k].minus.kind} \subseteq {"global", "none"}
          /\ {q[k].ref.kind, q[k].minus.kind} \subseteq {"global", "none"}
      BY <2>1, <2>2 DEF Mergeable, OnlyNames
    <2>4. /\ IsReferent(p[k].ref) /\ IsReferent(p[k].minus)
          /\ IsReferent(q[k].ref) /\ IsReferent(q[k].minus)
      BY <2>1, <2>2 DEF IsFoldLink
    <2>5. SameReloc(link, Kernel, p[k], q[k])
      BY <1>1, Zenon
    <2>6. NormalizeReferent(link, m, p[k].ref) = NormalizeReferent(link, n, q[k].ref)
      BY <2>3, <2>4, <2>5, NamedNormals DEF SameReloc
    <2>7. NormalizeReferent(link, m, p[k].minus) = NormalizeReferent(link, n, q[k].minus)
      BY <2>3, <2>4, <2>5, NamedNormals DEF SameReloc
    <2> QED BY <2>5, <2>6, <2>7, SignedAlike DEF SameReloc
  <1>5. /\ [k \in DOMAIN p |-> p[k].implicit] = [k \in DOMAIN q |-> q[k].implicit]
        /\ [k \in DOMAIN p |-> Signed(m, p[k])] = [k \in DOMAIN q |-> Signed(n, q[k])]
    BY <1>3, <1>4, Zenon
  <1>6. RelocSignature(link, a) = RelocSignature(link, b)
    BY <1>5, Zenon DEF RelocSignature, Signed, p, q
  <1>7. Implicits(link, a) = Implicits(link, b)
    BY <1>5, Zenon DEF Implicits, p, q
  <1> QED BY <1>1, <1>6, <1>7, KeysAlike, Zenon
-----------------------------------------------------------------------------
(* Addresses that show. *)

\* target_or_all finds the atom around an offset.
LEMMA TargetHolds ==
  ASSUME NEW l, IsFoldLink(l), NEW input, NEW sec, NEW off \in Int,
         NEW a \in Inside(l, input, sec, off)
  PROVE  a \in TargetOrAll(l, input, sec, off)
PROOF
  <1> DEFINE S == SectionAtoms(l, input, sec)
             started == {b \in S : l.at[b].off <= off}
             last == {c \in started : \A b \in started : b = c \/ IndexBefore(l, b, c)}
             around == {b \in IF NonOverlapping(l, S) THEN last ELSE S : Encloses(l, b, off)}
  <1>1. a \in S /\ S \subseteq Atoms /\ l.at[a].off <= off /\ off < EndOf(l, a)
    BY DEF Inside, SectionAtoms
  <1>2. Encloses(l, a, off)
    BY <1>1 DEF Encloses
  <1>3. \A b \in S : /\ l.at[b].off \in Nat /\ EndOf(l, b) \in Nat
                     /\ l.at[b].off <= EndOf(l, b)
    <2>1. \A b \in Atoms : l.at[b].off \in Nat /\ l.at[b].size \in Nat
      BY Zenon DEF IsFoldLink
    <2> QED BY <1>1, <2>1 DEF EndOf
  <1>4. NonOverlapping(l, S) => a \in last
    <2>1. ASSUME NonOverlapping(l, S), NEW b \in started, b # a PROVE IndexBefore(l, b, a)
      <3>1. EndOf(l, b) <= l.at[a].off \/ EndOf(l, a) <= l.at[b].off
        BY <1>1, <2>1, Zenon DEF NonOverlapping
      <3>2. b \in S /\ l.at[b].off <= off
        OBVIOUS
      <3>3. EndOf(l, b) <= l.at[a].off
        BY <1>1, <1>3, <3>1, <3>2
      <3> QED BY <1>1, <1>3, <3>2, <3>3 DEF IndexBefore
    <2> QED BY <1>1, <2>1
  <1>5. a \in around
    BY <1>1, <1>2, <1>4, Zenon
  <1>6. TargetOrAll(l, input, sec, off) = around
    BY <1>5 DEF TargetOrAll
  <1> QED BY <1>5, <1>6

\* An atom an address is formed from is one that mark_address_taken finds.
LEMMA LeadsTaken ==
  ASSUME NEW l, IsFoldLink(l), NEW i \in DOMAIN l.code, NEW r, r = l.code[i],
         NEW x, x \in {r.ref, r.minus}, NEW a \in Atoms, Leads(l, r, x).atom = a
  PROVE  a \in TakenBy(l, r, x)
PROOF
  <1> DEFINE input == l.at[r.from].input
             base == BaseOf(r, x)
             I == Inside(l, input, x.sec, base)
  <1>1. /\ IsReferent(x) /\ r.addend \in Int /\ r.implicit \in Int /\ a # NoAtom
    BY AtomsCounted DEF IsFoldLink
  <1>2. CASE x.kind = "global"
    <2>1. HasAtom(l, Final(l, x))
      <3>1. ~HasAtom(l, Final(l, x)) => Leads(l, r, x).atom = NoAtom
        BY <1>2, LeadsOf
      <3> QED BY <1>1, <3>1
    <2>2. l.sym[Final(l, x)].atom = a
      BY <1>2, <2>1, LeadsOf
    <2>3. TakenBy(l, r, x) =
            {l.sym[s].atom : s \in {s \in {l.sym[x.sym].final} : HasAtom(l, s)}}
      BY <1>2, Zenon DEF TakenBy
    <2> QED BY <2>1, <2>2, <2>3 DEF Final
  <1>3. CASE x.kind \in {"local", "section"}
    <2>1. a \in I
      <3> DEFINE v == LocalLead(l, input, x.sec, base)
      <3>0. Leads(l, r, x) = v
        BY <1>3, LeadsOf
      <3>1. I = {} => v.atom = NoAtom
        BY DEF LocalLead
      <3>2. I # {} => v.atom = CHOOSE b \in I : TRUE
        BY Zenon DEF LocalLead
      <3> HIDE DEF I, v
      <3> QED BY <1>1, <3>0, <3>1, <3>2
    <2>2. base \in Int /\ ~(base < 0)
      <3>1. x.off \in Int
        BY <1>1, <1>3 DEF IsReferent
      <3>2. base \in Int
        BY <1>1, <3>1 DEF BaseOf, TargetOffset
      <3>3. l.at[a].off \in Nat /\ l.at[a].off <= base
        BY <2>1, Zenon DEF Inside, IsFoldLink
      <3> QED BY <3>2, <3>3
    <2>3. a \in TargetOrAll(l, input, x.sec, base) /\ a \in SectionAtoms(l, input, x.sec)
      BY <2>1, <2>2, TargetHolds DEF Inside
    <2>4. CASE r.kind = "difference"
      <3>1. CASE x.kind = "local"
        <4>1. base = x.off
          BY <2>4 DEF BaseOf
        <4>2. TakenBy(l, r, x) = IF x.off < 0 THEN SectionAtoms(l, input, x.sec)
                                 ELSE TargetOrAll(l, input, x.sec, x.off)
          BY <2>4, <3>1 DEF TakenBy
        <4> QED BY <2>2, <2>3, <4>1, <4>2, Zenon
      <3>2. CASE x.kind = "section"
        <4>1. TakenBy(l, r, x) = SectionAtoms(l, input, x.sec)
          BY <2>4, <3>2 DEF TakenBy
        <4> QED BY <2>3, <4>1, Zenon
      <3> QED BY <1>3, <3>1, <3>2
    <2>5. CASE r.kind # "difference"
      <3>1. CASE x.kind = "local"
        <4>1. base = TargetOffset(r, x.off)
          BY <2>5 DEF BaseOf
        <4>2. TakenBy(l, r, x) = IF TargetOffset(r, x.off) < 0 THEN SectionAtoms(l, input, x.sec)
                                 ELSE TargetOrAll(l, input, x.sec, TargetOffset(r, x.off))
          BY <2>5, <3>1 DEF TakenBy
        <4> QED BY <2>2, <2>3, <4>1, <4>2, Zenon
      <3>2. CASE x.kind = "section"
        <4>1. base = TargetOffset(r, 0)
          BY <1>1, <2>5, <3>2 DEF BaseOf, IsReferent
        <4>2. TakenBy(l, r, x) = IF TargetOffset(r, 0) < 0 THEN SectionAtoms(l, input, x.sec)
                                 ELSE TargetOrAll(l, input, x.sec, TargetOffset(r, 0))
          BY <2>5, <3>2, Zenon DEF TakenBy
        <4> QED BY <2>2, <2>3, <4>1, <4>2, Zenon
      <3> QED BY <1>3, <3>1, <3>2
    <2> QED BY <2>4, <2>5
  <1>4. CASE x.kind = "abs" \/ x.kind = "none"
    BY <1>1, <1>4, LeadsOf
  <1>5. CASE x.kind = "unknown"
    <2>1. Leads(l, r, x).atom = NoAtom
      BY <1>5 DEF Leads
    <2> QED BY <1>1, <2>1, Zenon
  <1> QED BY <1>1, <1>2, <1>3, <1>4, <1>5 DEF IsReferent

\* No atom that is_foldable_atom accepts has an address that shows.
LEMMA FoldableHidden ==
  ASSUME NEW l, IsFoldLink(l), NEW a \in Atoms, Foldable(l, a)
  PROVE  ~Observable(l, a)
PROOF
  <1>1. ASSUME NEW i \in DOMAIN l.code, l.code[i].kind # "branch",
               a \in {Leads(l, l.code[i], l.code[i].ref).atom,
                      Leads(l, l.code[i], l.code[i].minus).atom}
        PROVE  FALSE
    <2>1. l.code[i].kind \in TakesAddress
      BY <1>1 DEF IsFoldLink, TakesAddress
    <2>2. a \in TakenBy(l, l.code[i], l.code[i].ref) \cup TakenBy(l, l.code[i], l.code[i].minus)
      BY <1>1, LeadsTaken, Zenon
    <2>3. a \in AddressTaken(l)
      BY <2>1, <2>2 DEF AddressTaken
    <2> QED BY <2>3 DEF Foldable
  <1>2. ASSUME NEW s \in Symbols, Stands(l, s, a), s \notin l.private
        PROVE  FALSE
    BY <1>2 DEF Foldable, Stands, HasAtom
  <1> QED BY <1>1, <1>2, Zenon DEF Observable

\* An atom that could be merged is one is_foldable_atom accepts.
LEMMA MergeableFoldable ==
  ASSUME NEW l, IsFoldLink(l), NEW a \in Atoms, Mergeable(l, a)
  PROVE  Foldable(l, a)
PROOF
  <1>1. a # NoAtom
    BY AtomsCounted
  <1>2. ASSUME NEW i \in DOMAIN l.code, l.code[i].kind \in TakesAddress,
               NEW x \in {l.code[i].ref, l.code[i].minus}, a \in TakenBy(l, l.code[i], x)
        PROVE  FALSE
    <2> DEFINE r == l.code[i]
    <2>1. r.kind # "branch"
      BY <1>2, Zenon DEF TakesAddress
    <2>2. x.kind \in {"global", "none"}
      BY <2>1 DEF Mergeable, OnlyNames
    <2>3. x.kind = "global"
      BY <1>2, <2>2 DEF TakenBy
    <2>4. TakenBy(l, r, x) =
            {l.sym[s].atom : s \in {s \in {l.sym[x.sym].final} : HasAtom(l, s)}}
      BY <2>3 DEF TakenBy
    <2>5. HasAtom(l, Final(l, x)) /\ l.sym[Final(l, x)].atom = a
      BY <1>2, <2>4 DEF Final
    <2>6. Leads(l, r, x).atom = a
      BY <2>3, <2>5, LeadsOf
    <2>7. Observable(l, a)
      BY <2>1, <2>6, Zenon DEF Observable
    <2> QED BY <2>7 DEF Mergeable
  <1>3. a \notin AddressTaken(l)
    BY <1>2 DEF AddressTaken
  <1>4. ASSUME NEW s \in Symbols, HasAtom(l, s), l.sym[s].atom = a PROVE s \in l.private
    BY <1>1, <1>4 DEF Mergeable, Observable, Stands, HasAtom
  <1>5. ASSUME NEW i \in DOMAIN l.code, l.code[i].from = a
        PROVE  "unknown" \notin {l.code[i].ref.kind, l.code[i].minus.kind}
    BY <1>5 DEF Mergeable, OnlyNames
  <1> QED BY <1>3, <1>4, <1>5, Zenon DEF Foldable, Mergeable
-----------------------------------------------------------------------------
(* The order of the command line. *)

\* fold_order_key, compared part by part.
LEMMA FoldOrderIs ==
  ASSUME NEW l, NEW a, NEW b
  PROVE  FoldOrder(l, a, b) <=>
           \/ l.at[a].order[1] < l.at[b].order[1]
           \/ /\ l.at[a].order[1] = l.at[b].order[1]
              /\ l.at[a].order[2] < l.at[b].order[2]
           \/ /\ l.at[a].order[1] = l.at[b].order[1]
              /\ l.at[a].order[2] = l.at[b].order[2]
              /\ l.at[a].off < l.at[b].off
           \/ /\ l.at[a].order[1] = l.at[b].order[1]
              /\ l.at[a].order[2] = l.at[b].order[2]
              /\ l.at[a].off = l.at[b].off /\ a < b
PROOF
  <1> DEFINE key(x) == <<l.at[x].order[1], l.at[x].order[2], l.at[x].off, x>>
             Less(i) == /\ key(a)[i] < key(b)[i]
                        /\ \A j \in 1 .. i - 1 : key(a)[j] = key(b)[j]
  <1>1. FoldOrder(l, a, b) <=> \E i \in 1 .. 4 : Less(i)
    BY Zenon DEF FoldOrder
  <1>2. 1 .. 4 = {1, 2, 3, 4}
    OBVIOUS
  <1>3. ASSUME NEW x
        PROVE  /\ key(x)[1] = l.at[x].order[1] /\ key(x)[2] = l.at[x].order[2]
               /\ key(x)[3] = l.at[x].off /\ key(x)[4] = x
    OBVIOUS
  <1> HIDE DEF key
  <1>4. 1 .. 1 - 1 = {} /\ 1 .. 2 - 1 = {1} /\ 1 .. 3 - 1 = {1, 2} /\ 1 .. 4 - 1 = {1, 2, 3}
    OBVIOUS
  <1>5. /\ Less(1) <=> key(a)[1] < key(b)[1]
        /\ Less(2) <=> key(a)[2] < key(b)[2] /\ key(a)[1] = key(b)[1]
        /\ Less(3) <=> key(a)[3] < key(b)[3] /\ key(a)[1] = key(b)[1] /\ key(a)[2] = key(b)[2]
        /\ Less(4) <=> /\ key(a)[4] < key(b)[4] /\ key(a)[1] = key(b)[1]
                       /\ key(a)[2] = key(b)[2] /\ key(a)[3] = key(b)[3]
    BY <1>4
  <1>6. FoldOrder(l, a, b) <=> Less(1) \/ Less(2) \/ Less(3) \/ Less(4)
    <2> HIDE DEF Less
    <2> QED BY <1>1, <1>2, Zenon
  <1> HIDE DEF Less
  <1> QED BY <1>3, <1>5, <1>6

\* fold_order_key orders the atoms.
LEMMA FoldOrderLaws ==
  ASSUME NEW l, IsFoldLink(l), NEW a \in Atoms, NEW b \in Atoms
  PROVE  /\ a # b => FoldOrder(l, a, b) \/ FoldOrder(l, b, a)
         /\ FoldOrder(l, a, b) => a # b /\ ~FoldOrder(l, b, a) /\ ~Earlier(l, b, a)
         /\ \A c \in Atoms : FoldOrder(l, a, b) /\ FoldOrder(l, b, c) => FoldOrder(l, a, c)
PROOF
  <1>1. ASSUME NEW c \in Atoms
        PROVE  /\ l.at[c].order[1] \in Nat /\ l.at[c].order[2] \in Nat
               /\ l.at[c].off \in Nat /\ c \in Nat
    BY DeadStripAssumption, Zenon DEF IsFoldLink
  <1>2. a # b => FoldOrder(l, a, b) \/ FoldOrder(l, b, a)
    BY <1>1, FoldOrderIs
  <1>3. FoldOrder(l, a, b) => a # b /\ ~FoldOrder(l, b, a)
    BY <1>1, FoldOrderIs
  <1>4. FoldOrder(l, a, b) => ~Earlier(l, b, a)
    <2>1. l.at[b].order = l.at[a].order =>
            l.at[b].order[1] = l.at[a].order[1] /\ l.at[b].order[2] = l.at[a].order[2]
      OBVIOUS
    <2> QED BY <1>1, <2>1, FoldOrderIs DEF Earlier
  <1>5. ASSUME NEW c \in Atoms, FoldOrder(l, a, b), FoldOrder(l, b, c)
        PROVE  FoldOrder(l, a, c)
    BY <1>1, <1>5, FoldOrderIs
  <1> QED BY <1>2, <1>3, <1>4, <1>5

\* Every bucket has a winner, the first of its atoms.
LEMMA FirstExists ==
  ASSUME NEW l, IsFoldLink(l), NEW B \in SUBSET Atoms, B # {}
  PROVE  /\ FirstOf(l, B) \in B
         /\ \A b \in B : b = FirstOf(l, B) \/ FoldOrder(l, FirstOf(l, B), b)
PROOF
  <1> DEFINE L == {e \in B \X B : e[1] = e[2] \/ FoldOrder(l, e[1], e[2])}
             n == Cardinality(B)
             c(i) == Cardinality(Upto(B, L, i))
  <1>1. IsFiniteSet(B) /\ n \in Nat /\ n # 0
    BY AtomsCounted
  <1>2. \A i, j \in B : <<i, j>> \in L <=> i = j \/ FoldOrder(l, i, j)
    OBVIOUS
  <1> HIDE DEF L
  <1>3. IsOrder(B, L)
    <2>1. \A i, j \in B : <<i, j>> \in L \/ <<j, i>> \in L
      BY <1>2, FoldOrderLaws, Zenon
    <2>2. \A i, j \in B : <<i, j>> \in L /\ <<j, i>> \in L => i = j
      BY <1>2, FoldOrderLaws
    <2>3. ASSUME NEW i \in B, NEW j \in B, NEW k \in B, <<i, j>> \in L, <<j, k>> \in L
          PROVE  <<i, k>> \in L
      BY <1>2, <2>3, FoldOrderLaws, Zenon
    <2> QED BY <1>1, <2>1, <2>2, <2>3, Zenon DEF IsOrder
  <1>4. /\ \A i \in B : c(i) \in 1 .. n
        /\ \A i, j \in B : <<i, j>> \in L <=> c(i) <= c(j)
        /\ \A k \in 1 .. n : \E i \in B : c(i) = k
    BY <1>3, Ranking
  <1> HIDE DEF c, n
  <1>5. PICK i \in B : c(i) = 1
    BY <1>1, <1>4
  <1>6. \A j \in B : <<i, j>> \in L
    BY <1>1, <1>4, <1>5
  <1>7. \A j \in B : j = i \/ FoldOrder(l, i, j)
    BY <1>2, <1>6, Zenon
  <1> QED BY <1>7, Zenon DEF FirstOf
-----------------------------------------------------------------------------
(* The coarsest equivalence. *)

Refine(l, R) == {e \in R : e[1] = e[2] \/ SameCode(l, R, e[1], e[2])}

\* A relation whose pairs have the same contents up to the relation itself is
\* part of the coarsest such relation.
LEMMA EquivalentHolds ==
  ASSUME NEW l, IsFoldLink(l), NEW R, R \subseteq Atoms \X Atoms, IsEquivalence(R),
         \A e \in R : e[1] = e[2] \/ SameCode(l, R, e[1], e[2])
  PROVE  R \subseteq Equivalent(l)
PROOF
  <1> DEFINE h == Cardinality(Atoms)
             All == SUBSET (Atoms \X Atoms)
             F == [i \in Nat |-> [T \in All |-> Refine(l, T)]]
             Body(w) == [n \in 0 .. Cardinality(Atoms) |->
                           IF n = 0 THEN Atoms \X Atoms
                           ELSE LET T == w[n - 1]
                                IN  {e \in T : e[1] = e[2] \/ SameCode(l, T, e[1], e[2])}]
  <1>1. h \in Nat
    BY AtomsCounted
  <1>2. \A T \in All : Refine(l, T) \in All
    BY DEF Refine
  <1>3. F \in Steppers(All) /\ Atoms \X Atoms \in All
    <2> HIDE DEF All
    <2>1. F \in Steppers(All)
      BY <1>2, Zenon DEF Steppers
    <2> QED BY <2>1 DEF All
  <1>4. PICK w : IsRun(All, F, Atoms \X Atoms, h, w)
    <2> HIDE DEF F, All, h
    <2> QED BY <1>1, <1>3, IterationExists
  <1>5. /\ w \in [0 .. h -> All] /\ w[0] = Atoms \X Atoms
        /\ \A i \in 1 .. h : w[i] = Refine(l, w[i - 1])
    <2>1. /\ w \in [0 .. h -> All] /\ w[0] = Atoms \X Atoms
          /\ \A i \in 1 .. h : w[i] = F[i][w[i - 1]]
      <3> HIDE DEF F, All, h
      <3> QED BY <1>4 DEF IsRun
    <2>2. ASSUME NEW i \in 1 .. h PROVE w[i] = Refine(l, w[i - 1])
      <3> HIDE DEF All
      <3>1. i \in Nat /\ w[i - 1] \in All
        <4> HIDE DEF h
        <4> QED BY <1>1, <2>1
      <3>2. F[i][w[i - 1]] = Refine(l, w[i - 1])
        BY <3>1
      <3> QED BY <2>1, <3>2, Zenon
    <2> QED BY <2>1, <2>2
  <1>6. w = Body(w)
    <2> HIDE DEF All
    <2> QED BY <1>5 DEF Refine
  <1> DEFINE v == CHOOSE v : v = Body(v)
  <1>7. Equivalent(l) = v[h]
    BY Zenon DEF Equivalent
  <1>8. v = Body(v)
    <2> HIDE DEF Body
    <2> QED BY <1>6, Zenon
  <1> HIDE DEF v, All, F
  <1>9. v[0] = Atoms \X Atoms /\ \A n \in 1 .. h : v[n] = Refine(l, v[n - 1])
    <2>1. 0 \in 0 .. h /\ \A n \in 1 .. h : n \in 0 .. h /\ n # 0
      <3> HIDE DEF h
      <3> QED BY <1>1
    <2>2. v[0] = Atoms \X Atoms
      BY <1>8, <2>1, Zenon
    <2>3. ASSUME NEW n \in 1 .. h PROVE v[n] = Refine(l, v[n - 1])
      BY <1>8, <2>1, Zenon DEF Refine
    <2> QED BY <2>2, <2>3
  <1> DEFINE Above == {T \in SUBSET (Atoms \X Atoms) : R \subseteq T}
  <1>10. \A T \in Above : Refine(l, T) \in Above
    <2> SUFFICES ASSUME NEW T \in Above PROVE R \subseteq Refine(l, T) /\ Refine(l, T) \subseteq T
      OBVIOUS
    <2>1. ASSUME NEW e \in R PROVE e[1] = e[2] \/ SameCode(l, T, e[1], e[2])
      <3>1. CASE SameCode(l, R, e[1], e[2])
        BY <3>1, SameCodeLaws
      <3> QED BY <3>1, Zenon
    <2> QED BY <2>1 DEF Refine
  <1>11. \A i \in 0 .. h : v[i] \in Above
    <2>1. v[0] \in Above
      BY <1>9
    <2> HIDE DEF h, Above
    <2>2. \A i \in 1 .. h : v[i - 1] \in Above => v[i] \in Above
      BY <1>9, <1>10
    <2> QED BY <1>1, <2>1, <2>2, IterationKeeps
  <1>12. v[h] \in Above
    <2> HIDE DEF h, Above
    <2> QED BY <1>1, <1>11
  <1> QED BY <1>7, <1>12
=============================================================================
