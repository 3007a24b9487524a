------------------------------ MODULE MCAtomize ------------------------------
(***************************************************************************)
(* Families of small links for Atomize.                                    *)
(***************************************************************************)
EXTENDS Atomize

Section(kind, addr, size, align) ==
  [kind |-> kind, addr |-> addr, size |-> size, align |-> align, keep |-> FALSE, live |-> FALSE,
   common |-> FALSE, nuls |-> {}, width |-> 2, recs |-> <<>>, raws |-> <<>>, implicit |-> <<>>,
   describes |-> <<>>]
Sym(name, k, value, ext, alt) ==
  [name |-> name, sect |-> k, value |-> value, ext |-> ext, alt |-> alt, keep |-> FALSE,
   weak |-> FALSE, size |-> 0]
Common(name, size) == [Sym(name, 0, 0, TRUE, FALSE) EXCEPT !.size = size]
Object(subsections, sects, symbols) ==
  [subsections |-> subsections, sects |-> sects, syms |-> symbols]

\* The table resolution leaves: one slot per global name, in order of first sight;
\* a strong definition, else the first weak one, else a tentative one holds it.
SlotsOf(os) ==
  LET sights == FlattenSeq([o \in DOMAIN os |->
                  SelectSeq([i \in DOMAIN os[o].syms |-> [o |-> o, i |-> i]],
                            LAMBDA at : os[at.o].syms[at.i].ext)])
      At(n) == os[sights[n].o].syms[sights[n].i]
      new == {n \in DOMAIN sights : \A m \in 1 .. n - 1 : At(m).name # At(n).name}
      Rank(n) == IF At(n).sect = 0 THEN 2 ELSE IF At(n).weak THEN 1 ELSE 0
      Winner(name) ==
        CHOOSE n \in DOMAIN sights :
          /\ At(n).name = name
          /\ \A m \in DOMAIN sights \ {n} : At(m).name = name =>
               Rank(n) < Rank(m) \/ (Rank(n) = Rank(m) /\ n < m)
      order == InOrder(new)
  IN  [s \in DOMAIN order |->
         LET w == Winner(At(order[s]).name)
         IN  [name |-> At(w).name, kind |-> IF At(w).sect = 0 THEN "common" ELSE "defined",
              origin |-> sights[w].o, atom |-> 0, value |-> 0, size |-> At(w).size, align |-> 1]]
Link(os) == [objs |-> os, syms |-> SlotsOf(os)]

\* One section, split by up to three symbols in any order, with and without
\* subsections. The section does not start at address 0.
Labels(name, offs) ==
  {Sym(name, 1, 8 + off, TRUE, FALSE) : off \in offs}
    \cup {[Sym(name, 1, 8 + off, TRUE, FALSE) EXCEPT !.keep = TRUE] : off \in offs \ {0}}
    \cup {Sym(name, 1, 8 + off, FALSE, FALSE) : off \in offs}
    \cup {Sym(name, 1, 8 + off, TRUE, TRUE) : off \in offs \ {4}}
Texts ==
  {Link(<<Object(flag, <<Section("text", 8, 4, 2)>>, <<a, b, c>>)>>) :
     flag \in BOOLEAN, a \in Labels(1, {0, 1, 4}), b \in Labels(2, {1, 2}), c \in Labels(3, {0, 2, 3})}
    \cup {Link(<<Object(TRUE, <<Section("text", 8, 4, 2)>>, <<>>)>>)}

\* Two objects that define one name weakly and another strongly.
Weak(sym) == [sym EXCEPT !.weak = TRUE]
Weaks ==
  {Link(<<Object(TRUE, <<Section("text", 0, 2, 1), Section("text", 2, 2, 1)>>,
                 <<Weak(Sym(1, x, 2 * x - 2, TRUE, FALSE)), Sym(2, 1, 1, TRUE, alt)>>),
          Object(TRUE, <<Section("text", 0, 4, 2)>>,
                 <<Sym(9, 1, 0, FALSE, FALSE), Sym(3, 1, y, TRUE, FALSE),
                   [Sym(1, 1, z, TRUE, FALSE) EXCEPT !.weak = w]>>)>>) :
     x \in {1, 2}, alt \in BOOLEAN, y \in {0, 2}, z \in {0, 2, 3}, w \in BOOLEAN}

\* Sections split by content.
Contents ==
  {Link(<<Object(flag, <<[Section("cstring", 0, 5, 0) EXCEPT !.nuls = nuls],
                         Section("literal", 8, 4, 1), Section("zerofill", 12, 4, 2)>>,
                 <<Sym(1, 1, 0, TRUE, FALSE), Sym(2, 2, 10, TRUE, FALSE),
                   Sym(3, 3, 12, TRUE, FALSE), Sym(4, 3, 12 + z, TRUE, alt)>>)>>) :
     flag \in BOOLEAN, nuls \in SUBSET {1, 2, 4}, z \in 1 .. 3, alt \in BOOLEAN}
    \cup {Link(<<Object(TRUE, <<Section("zerofill", 0, 2, 0)>>, <<>>)>>)}

\* Unwind records, whose function field may be spelt in several ways, and FDEs.
Raw(addr, type, ext, num) ==
  [addr |-> addr, type |-> type, ext |-> ext, num |-> num, len |-> 3, pcrel |-> FALSE]
FuncOff == <<0, 2, 3>>
\* Spellings of function f by the records of section k at addr: relocations and implicit addend.
Spellings(addr, f) ==
  {[raws |-> <<Raw(addr, "UNSIGNED", TRUE, f)>>, implicit |-> 0],
   [raws |-> <<Raw(addr, "UNSIGNED", FALSE, 1)>>, implicit |-> FuncOff[f]],
   [raws |-> <<Raw(addr, "ADDEND", FALSE, FuncOff[f]), Raw(addr, "UNSIGNED", FALSE, 1)>>, implicit |-> 0]}
\* An FDE names its function as a difference from a label at the section's start.
Difference(addr, f, field) ==
  [raws |-> <<Raw(addr, "SUBTRACTOR", TRUE, 4), Raw(addr, "UNSIGNED", TRUE, f)>>, implicit |-> 0 - field]
MetaLink(flag, f, x, y, h, ext, alt) ==
  LET unwind == [Section("unwind", 20, 4, 0) EXCEPT
                   !.raws = x.raws \o y.raws, !.implicit = 0 :> x.implicit @@ 2 :> y.implicit,
                   !.describes = 0 :> [sect |-> 1, off |-> FuncOff[f]]
                                   @@ 2 :> [sect |-> 1, off |-> FuncOff[2]]]
      fde == Difference(3, h, 3)
      eh == [Section("ehframe", 40, 7, 3) EXCEPT
               !.recs = 0 :> [size |-> 2, fde |-> FALSE] @@ 2 :> [size |-> 4, fde |-> TRUE]
                          @@ 6 :> [size |-> 1, fde |-> FALSE],
               !.raws = fde.raws, !.implicit = 3 :> fde.implicit,
               !.describes = 2 :> [sect |-> 1, off |-> FuncOff[h]]]
  IN  Link(<<Object(flag, <<Section("text", 0, 4, 2), unwind, eh>>,
                    <<Sym(1, 1, 0, TRUE, FALSE), Sym(2, 1, 2, ext, FALSE), Sym(3, 1, 3, ext, alt),
                      Sym(4, 3, 40, FALSE, FALSE)>>)>>)
Metas ==
  UNION {{MetaLink(flag, f, x, y, h, ext, alt) :
            flag \in BOOLEAN, h \in {1, 3}, ext \in BOOLEAN, alt \in BOOLEAN,
            x \in Spellings(0, f), y \in Spellings(2, 2)} : f \in 1 .. 3}

\* A record whose length cannot be read, and records without relocations.
Broken ==
  {Link(<<Object(TRUE, <<Section("text", 0, 2, 1),
                         [Section("ehframe", 8, 5, 0) EXCEPT !.recs = 0 :> [size |-> 2, fde |-> FALSE]
                                                             @@ 2 :> [size |-> 0, fde |-> FALSE]],
                         [Section("unwind", 16, 3, 0) EXCEPT !.raws = raws]>>,
                 <<Sym(1, 1, 0, TRUE, FALSE)>>)>>) :
     raws \in {<<>>, <<Raw(0, "ADDEND", FALSE, 1)>>, <<Raw(0, "UNSIGNED", TRUE, 7)>>,
               <<Raw(0, "UNSIGNED", FALSE, 2)>>}}

\* Every stream of up to three entries from a small alphabet.
Alphabet ==
  {Raw(0, "ADDEND", FALSE, 1), Raw(0, "ADDEND", FALSE, 7), Raw(0, "ADDEND", FALSE, 0),
   Raw(0, "ADDEND", TRUE, 1), Raw(0, "SUBTRACTOR", TRUE, 1), Raw(0, "SUBTRACTOR", FALSE, 9),
   [Raw(0, "SUBTRACTOR", TRUE, 1) EXCEPT !.len = 2], Raw(0, "UNSIGNED", TRUE, 1),
   Raw(0, "UNSIGNED", FALSE, 0), Raw(1, "UNSIGNED", FALSE, 1), [Raw(0, "BRANCH26", TRUE, 1) EXCEPT !.pcrel = TRUE],
   Raw(0, "UNKNOWN", TRUE, 1)}
Streams ==
  {Link(<<Object(TRUE, <<[Section("data", 0, 2, 0) EXCEPT !.raws = raws]>>, <<>>)>>) :
     raws \in UNION {[1 .. n -> Alphabet] : n \in 0 .. 3}}

\* Tentative definitions, next to a definition, to each other, and too large.
Commons_ ==
  {Link(<<Object(TRUE, <<[Section(kind, 0, 2, 0) EXCEPT !.common = TRUE]>>, <<Sym(1, 1, 0, TRUE, FALSE), Common(2, size)>>),
          Object(TRUE, <<>>, <<Common(3, 4)>> \o more)>>) :
     kind \in {"zerofill", "data"}, size \in {1, 8, 9}, more \in {<<>>, <<Common(1, 2)>>}}

MCAtomLinks == Texts \cup Weaks \cup Contents \cup Metas \cup Broken \cup Streams \cup Commons_

\* An alias whose definition lost to a weak one of an earlier object.
Entries ==
  {Link(<<Object(TRUE, <<Section("text", 0, 4, 2)>>, <<Weak(Sym(1, 1, 0, TRUE, FALSE)), Sym(2, 1, 2, TRUE, FALSE)>>),
          Object(TRUE, <<Section("text", 0, 4, 2)>>,
                 <<Sym(9, 1, 2, FALSE, FALSE), Weak(Sym(1, 1, y, TRUE, FALSE)), Sym(3, 1, 0, TRUE, FALSE)>>)>>) :
     y \in {0, 2}}
=============================================================================
