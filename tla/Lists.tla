-------------------------------- MODULE Lists --------------------------------
(***************************************************************************)
(* Vectors as sequences: what they hold, and the orders that sort_by_key   *)
(* puts load orders and atom ids in.                                       *)
(***************************************************************************)
EXTENDS Naturals, Sequences, FiniteSets

SetOf(seq) == {seq[i] : i \in DOMAIN seq}

\* The numbers of a set in ascending order.
Place(a, S) == Cardinality({b \in S : b <= a})
InOrder(S) == [i \in 1 .. Cardinality(S) |-> CHOOSE a \in S : Place(a, S) = i]

\* sort_by_key: a sequence in ascending order, equal elements as they were.
Ascending(s) ==
  LET before(i) == {j \in DOMAIN s : s[j] < s[i] \/ (s[j] = s[i] /\ j <= i)}
  IN  [n \in DOMAIN s |-> s[CHOOSE i \in DOMAIN s : Cardinality(before(i)) = n]]
=============================================================================
