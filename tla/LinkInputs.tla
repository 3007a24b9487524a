----------------------------- MODULE LinkInputs -----------------------------
(***************************************************************************)
(* What the linker is given, as one record per link ("program"):           *)
(*   line      the top-level inputs in load order, each with its type      *)
(*             (OrderedInput) and the file, archive or dylib it names      *)
(*   syms      for every object file, archive members included, its global *)
(*             symbols in symbol-table order                               *)
(*   index     for every archive, its symbol index in index order          *)
(*   members   for every archive, its object members in member order       *)
(*   exports   for every dylib, its exports                                *)
(*   bad       members that do not load or parse                           *)
(*   allLoad   -all_load                                                   *)
(*   legacy    -force_load archives applied after the ordered pass         *)
(*   treatment the -undefined policy                                       *)
(***************************************************************************)
EXTENDS Lists

Treatments == {"Error", "Warning", "Suppress", "DynamicLookup"}

\* -force_load given through the legacy option list is a forced archive after
\* the last top-level input.
Line(p) ==
  p.line \o [i \in DOMAIN p.legacy |->
               [type |-> "ForceLoadArchive", id |-> p.legacy[i]]]

IsForced(p, i) ==
  \/ Line(p)[i].type = "ForceLoadArchive"
  \/ Line(p)[i].type = "Archive" /\ p.allLoad

IsDemandArchive(p, i) == Line(p)[i].type = "Archive" /\ ~p.allLoad

\* Is some archive entry of the first i inputs the archive a?
OnLine(p, a) ==
  \E i \in DOMAIN p.line :
    p.line[i].type \in {"Archive", "ForceLoadArchive"} /\ p.line[i].id = a

Defines(p, f, n) ==
  \E r \in SetOf(p.syms[f]) : r.name = n /\ r.type # "undef"

\* Every entry of the symbol index names a member that defines the symbol.
HonestIndex(p, a) ==
  \A e \in SetOf(p.index[a]) : Defines(p, e.member, e.name)
=============================================================================
