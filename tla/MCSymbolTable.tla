--------------------------- MODULE MCSymbolTable ---------------------------
(***************************************************************************)
(* The symbol table fed with any sequence of symbols.  A scene says which  *)
(* names, files and kinds the inputs mention and how many inserts of the   *)
(* watched name are made.  The scene without a watched name visits every   *)
(* table that its inserts can lead to, in however many steps.              *)
(***************************************************************************)
EXTENDS SymbolHistory

CONSTANTS x, y, z, w, v, f, g, \* names and files
          Scenes               \* the scenes to consider

VARIABLE scene

mcvars == <<table, errors, log, scene>>

\* The watched name, two files, all kinds, up to four inserts.
Precedence ==
  [offered |-> {v}, targets |-> {v, x}, files |-> {f, g}, inserts |-> 4,
   weak |-> BOOLEAN,
   kinds |-> {"Undefined", "Defined", "Common", "DylibImport", "LazyArchive",
              "LazyObject", "Alias"}]

\* Every way to name one symbol after another, among four names.  What else is
\* offered is weak: it leaves the way open to an alias.
AliasGraph ==
  [offered |-> {x, y, z, w}, targets |-> {x, y, z, w}, files |-> {f}, inserts |-> 0,
   weak |-> {TRUE},
   kinds |-> {"Undefined", "Defined", "Alias"}]

BothScenes == {Precedence, AliasGraph}

\* The symbols a scene's inputs may carry.
Offers ==
  [c \in {Precedence, AliasGraph} |->
    {s \in Symbol :
       /\ s.kind \in c.kinds
       /\ s.kind \in {"Undefined", "Defined", "DylibImport"} => s.weak \in c.weak
       /\ s.kind = "DylibImport" => s.origin # FlatLookup
       /\ s.kind \in {"Undefined", "Defined", "Common", "LazyObject", "Alias"} =>
            s.origin \in c.files
       /\ s.kind = "LazyArchive" => s.member \in c.files
       /\ s.kind = "Alias" => s.to \in c.targets}]

\* Files are told apart only by which comes first: the first symbol of a watched
\* name is not offered by g.
InFileOrder(n, s) ==
  n \in Watched /\ log[n] = <<>> =>
    IF s.kind = "LazyArchive" THEN s.member # g ELSE s.origin # g

MCInit == HistoryInit /\ scene \in Scenes

MCNext ==
  /\ \A n \in scene.offered \cap Watched : Len(log[n]) < scene.inserts
  /\ \E n \in scene.offered, s \in Offers[scene] : InFileOrder(n, s) /\ Record(n, s)
  /\ UNCHANGED scene

MCSpec == MCInit /\ [][MCNext]_mcvars
=============================================================================
