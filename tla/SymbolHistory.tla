--------------------------- MODULE SymbolHistory ---------------------------
(***************************************************************************)
(* The symbol table with the history of its inserts.  The table keeps one  *)
(* symbol per name; what that symbol must be is said here from the history *)
(* alone, so that the matrix of `insert` can be held against it.           *)
(***************************************************************************)
EXTENDS SymbolTable, Sequences

CONSTANT Watched    \* the names whose inserts are recorded

ASSUME WatchedAssumption == Watched \subseteq Names

VARIABLE log        \* the symbols offered for a watched name, in order

hvars == <<table, errors, log>>

HistoryInit == TableInit /\ log = [n \in Watched |-> <<>>]

\* An insert and its record.  An alias that would close a cycle is refused
\* before the matrix is consulted and has no say in what follows.
Record(n, s) ==
  /\ Insert(n, s)
  /\ log' = IF n \in Watched /\ Verdict(table, n, s) # "AliasCycle"
              THEN [log EXCEPT ![n] = Append(@, s)] ELSE log

HistoryNext == \E n \in Names, s \in Symbol : Record(n, s)

HistorySpec == HistoryInit /\ [][HistoryNext]_hvars
-----------------------------------------------------------------------------
\* The i-th symbol is the first of the highest rank.
Leads(h, i) ==
  \A j \in DOMAIN h : Rank(h[j]) <= Rank(h[i]) /\ (j < i => Rank(h[j]) < Rank(h[i]))

\* The common declarations compete by size, the later one winning a tie.
LargestCommon(h, k) ==
  /\ h[k].kind = "Common"
  /\ \A j \in DOMAIN h : h[j].kind = "Common" =>
       h[j].size <= h[k].size /\ (k < j => h[j].size < h[k].size)

\* Two kinds of lazy entry displace each other; within a kind the first stays.
LatestLazy(h, k) ==
  LET lazy == {j \in DOMAIN h : Rank(h[j]) = 2}
  IN  /\ k \in lazy
      /\ \A j \in lazy : k < j => h[j].kind = h[k].kind
      /\ \A j \in lazy : j < k /\ (\A m \in lazy : m <= j \/ k <= m) => h[j].kind # h[k].kind

\* An import is weak if its provider is, or if it settled references that were
\* all weak.  A lazy entry in between has forgotten the references.
SettlesWeakly(h, i) == i > 1 /\ \A j \in 1 .. i - 1 : h[j].kind = "Undefined" /\ h[j].weak

\* What the history h makes of a name.
Wins(h, s) ==
  \/ h = <<>> /\ s = Vacant
  \/ \E i \in DOMAIN h :
       /\ Leads(h, i)
       /\ \/ Rank(h[i]) >= 4 /\ s = h[i]
          \/ h[i].kind = "Common" /\ \E k \in DOMAIN h : LargestCommon(h, k) /\ s = h[k]
          \/ h[i].kind = "DylibImport" /\ s = [h[i] EXCEPT !.weak = h[i].weak \/ SettlesWeakly(h, i)]
          \/ Rank(h[i]) = 2 /\ \E k \in DOMAIN h : LatestLazy(h, k) /\ s = h[k]
          \/ h[i].kind = "Undefined" /\ s = [h[i] EXCEPT !.weak = \A j \in DOMAIN h : h[j].weak]

\* Two of the symbols are strong definitions or aliases.
Clash(h) ==
  \E i, j \in DOMAIN h : i # j /\ IsStrongDefinition(h[i]) /\ IsStrongDefinition(h[j])

\* What a slot holds is decided by the history of inserts through a fixed
\* precedence: first strong definition or alias, first weak definition, then
\* whichever of common and import came first (commons merged by size), then
\* the lazy entry, then the merged reference.  DuplicateStrong is reported for
\* exactly the names that were given two strong definitions, aliases included,
\* in whatever order they arrived.
SlotIsWinner ==
  \A n \in Watched :
    /\ Wins(log[n], table[n])
    /\ (\E e \in errors : e.why = "DuplicateStrong" /\ e.name = n) <=> Clash(log[n])
=============================================================================
