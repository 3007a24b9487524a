--------------------------- MODULE DemandLoading ---------------------------
(***************************************************************************)
(* What archive resolution promises, without symbol slots, fetch queues or *)
(* speculative parsing.  Inputs are met from left to right.  While an      *)
(* archive is current, a member may be loaded only because a name that is  *)
(* needed now is indexed to it (or because the archive is forced), at most *)
(* once, and the archive may be left only when it has nothing more to give.*)
(***************************************************************************)
EXTENDS LinkInputs

CONSTANTS Names, Files

VARIABLES prog, pos,
          need,     \* names referenced and not yet provided
          settled,  \* names some input provides
          loaded,   \* archive members that are part of the link
          status    \* "run", "done" or "failed"

vars == <<prog, pos, need, settled, loaded, status>>

Current == Line(prog)[pos]
InLine == pos \in 1 .. Len(Line(prog))

Init ==
  /\ pos = 1   \* and prog is any link
  /\ need = {} /\ settled = {} /\ loaded = {}
  /\ status = "run"

\* Wanted(m): the current input calls for member m.
Wanted(m) ==
  /\ InLine
  /\ \/ IsForced(prog, pos) /\ m \in SetOf(prog.members[Current.id])
     \/ IsDemandArchive(prog, pos)
          /\ \E e \in SetOf(prog.index[Current.id]) : e.member = m /\ e.name \in need

\* Loading m also answers for the names the current index gave to it.
Load(m) ==
  /\ status = "run" /\ Wanted(m) /\ m \notin loaded /\ m \notin prog.bad
  /\ loaded' = loaded \cup {m}
  /\ \E given \in SUBSET {n \in need : [name |-> n, member |-> m]
                                        \in SetOf(prog.index[Current.id])} :
       need' = need \ given /\ settled' = settled \cup given
  /\ UNCHANGED <<prog, pos, status>>

\* A symbol of an input is taken in: a settled name stays settled.
Bind(n) ==
  /\ status = "run" /\ InLine /\ n \notin settled
  /\ \/ need' = need \cup {n} /\ settled' = settled
     \/ need' = need \ {n} /\ settled' = settled \cup {n}
  /\ UNCHANGED <<prog, pos, loaded, status>>

\* Nothing that is needed could still come from the current input.
Exhausted ==
  /\ IsForced(prog, pos) => SetOf(prog.members[Current.id]) \subseteq loaded
  /\ IsDemandArchive(prog, pos) =>
       \A e \in SetOf(prog.index[Current.id]) : e.name \notin need

Advance ==
  /\ status = "run" /\ InLine /\ Exhausted
  /\ pos' = pos + 1
  /\ UNCHANGED <<prog, need, settled, loaded, status>>

\* A member that is called for cannot be loaded.
LoadFails ==
  /\ status = "run" /\ \E m \in prog.bad : Wanted(m) /\ m \notin loaded
  /\ status' = "failed"
  /\ UNCHANGED <<prog, pos, need, settled, loaded>>

\* Duplicate or undefined symbols, or a legacy archive that is not an input.
Reject ==
  /\ status = "run" /\ pos > Len(prog.line)
  /\ status' = "failed"
  /\ UNCHANGED <<prog, pos, need, settled, loaded>>

\* The -undefined policy settles what is left.
Finish ==
  /\ status = "run" /\ ~InLine
  /\ status' = "done"
  /\ \E promoted \in SUBSET need :
       /\ promoted # {} => prog.treatment # "Error"
       /\ need' = need \ promoted /\ settled' = settled \cup promoted
  /\ UNCHANGED <<prog, pos, loaded>>

Next ==
  \/ \E m \in Files : Load(m)
  \/ \E n \in Names : Bind(n)
  \/ Advance
  \/ LoadFails
  \/ Reject
  \/ Finish

Spec == Init /\ [][Next]_vars
=============================================================================
