------------------------------ MODULE MCFixups ------------------------------
(***************************************************************************)
(* Families of small links for Fixups.                                     *)
(***************************************************************************)
EXTENDS Fixups

Bootstrap == 1
Alias == 2
Abs == 3
F == 4
Main == 5
P == 6
Q == 7
X == 8
XInit == 9
Loc == 10
Binder == 11
Header == 12
Private == 13
Temp == 14
Y == 15
YInit == 16

Span(obj, s, off, size) == [obj |-> obj, sect |-> s, off |-> off, size |-> size]
Undef(n) == [name |-> n, ext |-> TRUE, priv |-> FALSE, kind |-> "undef", sect |-> 0, off |-> 0]
Sect(n, ext, s, off) == [name |-> n, ext |-> ext, priv |-> FALSE, kind |-> "sect", sect |-> s, off |-> off]
Value(n, v) == [name |-> n, ext |-> FALSE, priv |-> FALSE, kind |-> "abs", sect |-> 0, off |-> v]

Slot(kind, atom, value, weak, ordinal, target) ==
  [kind |-> kind, atom |-> atom, value |-> value, weak |-> weak, priv |-> FALSE,
   ordinal |-> ordinal, target |-> target]
Import(ordinal, weak) == Slot("DylibImport", 0, 0, weak, ordinal, NoName)
Defined(atom, value) == Slot("Defined", atom, value, FALSE, 0, NoName)

Rel(obj, s, off, kind, ref) ==
  [obj |-> obj, sect |-> s, off |-> off, kind |-> kind, ref |-> ref, sub |-> NoRef,
   addend |-> 0, implicit |-> 0, len |-> "Word", pcrel |-> FALSE]
SymRef(i) == [sym |-> i, sect |-> 0]
Quad(obj, s, off, i, addend) ==
  [Rel(obj, s, off, "Unsigned", SymRef(i)) EXCEPT !.len = "Quad", !.implicit = addend]
Branch(obj, off, i) == <<[Rel(obj, Text, off, "Branch26", SymRef(i)) EXCEPT !.pcrel = TRUE]>>
Pair(obj, off, hi, lo, insn, i) ==
  <<[Rel(obj, Text, off, hi, SymRef(i)) EXCEPT !.pcrel = TRUE],
    [Rel(obj, Text, off + 4, lo, SymRef(i)) EXCEPT !.implicit = insn]>>
Got(i) == Pair(1, 4, "GotLoadPage21", "GotLoadPageOff12", "ldr", i)
Tlvp(i) == Pair(1, 4, "TlvpLoadPage21", "TlvpLoadPageOff12", "ldr", i)
Direct(i, insn) == Pair(1, 4, "Page21", "PageOff12", insn, i)

\* The symbols of the first object: what it imports or takes from the second, its
\* own local data, a thread variable with its template.
Syms1 ==
  <<Undef(P), Undef(Q), Undef(F), Undef(Alias), Undef(Abs), Sect(Main, TRUE, Text, 0),
    Sect(Loc, FALSE, Data, 16), Sect(Temp, FALSE, Data, 0), Sect(X, TRUE, ThreadVars, 0),
    Sect(XInit, FALSE, ThreadData, 8), Undef(Bootstrap)>>
IP == 1
IQ == 2
IF_ == 3
IAlias == 4
IAbs == 5
IMain == 6
ILoc == 7
IX == 9
IXInit == 10
IBootstrap == 11

\* The second object defines F, a local of its own called Loc, and imports P.
Syms2 == <<Sect(F, TRUE, Text, 0), Undef(P), Sect(Loc, FALSE, Data, 0), Value(Y, 100), Undef(Q)>>

Table ==
  (Alias :> Slot("Alias", 0, 0, FALSE, 0, F)) @@ (Abs :> Slot("Absolute", 0, 100, FALSE, 0, NoName))
  @@ (F :> Defined(2, 0)) @@ (Main :> Defined(1, 0)) @@ (P :> Import(1, FALSE)) @@ (Q :> Import(20, TRUE))
  @@ (X :> Defined(6, 0))

Descriptor1 ==
  <<Quad(1, ThreadVars, 0, IBootstrap, 0), Quad(1, ThreadVars, 16, IXInit, 0)>>

Base ==
  [atoms |-> <<Span(1, Text, 0, 16), Span(2, Text, 0, 8), Span(1, Data, 0, 16), Span(1, Data, 16, 16),
               Span(2, Data, 0, 16), Span(1, ThreadVars, 0, 24), Span(1, ThreadData, 0, 8),
               Span(1, ThreadData, 8, 8), Span(2, CompactUnwind, 0, 32)>>,
   live |-> 1 .. 9, relocs |-> <<>>, syms |-> <<Syms1, Syms2>>, table |-> Table,
   libSystem |-> 1, hidden |-> {}, strip |-> FALSE, kind |-> "exe", initOf |-> X :> XInit @@ Y :> YInit]

\* Without thread variables.
Plain ==
  [Base EXCEPT !.atoms = SubSeq(@, 1, 5), !.live = 1 .. 5,
               !.table = [n \in DOMAIN @ \ {X} |-> @[n]],
               !.syms = <<SubSeq(Syms1, 1, 8), Syms2>>]

\* Calls and instruction pairs of all kinds.
Code ==
  {[Plain EXCEPT !.relocs = Branch(1, 0, c) \o p \o Branch(2, 0, d),
                 !.table[Alias].target = a, !.table[Q].ordinal = q] :
     c \in {IP, IQ, IF_, IAlias, IMain},
     p \in {Got(i) : i \in {IP, IQ, IF_, IAbs, ILoc, IAlias}}
           \cup {Direct(IF_, "add"), Direct(ILoc, "add"), Direct(ILoc, "ldr")},
     d \in {2, 5}, a \in {F, P}, q \in {20, 65534}}

Minus(i, j) == [Quad(1, Data, 8, i, 4) EXCEPT !.kind = "Subtractor", !.sub = SymRef(j)]
ToGot(i, pcrel) ==
  [Rel(1, Data, 8, "PointerToGot", SymRef(i)) EXCEPT !.pcrel = pcrel, !.len = IF pcrel THEN "Word" ELSE "Quad"]
Word(i) == Rel(1, Data, 8, "Unsigned", SymRef(i))

\* Data that points anywhere, next to and in front of more pointers.
Pointing ==
  {[Plain EXCEPT !.relocs = <<Quad(1, Data, 0, w, k), v, Quad(1, Data, 16, u, 8), Quad(2, Data, 0, 2, 8),
                              Quad(2, Data, 8, z, 0)>>,
                 !.live = 1 .. 5 \ dead] :
     w \in {IP, IQ, IF_, IAlias, ILoc, IAbs}, k \in {0, 8},
     v \in {Minus(IF_, IMain), ToGot(IF_, TRUE), ToGot(IP, TRUE), Word(IAbs)}
           \cup {Quad(1, Data, 8, i, 8) : i \in {IP, ILoc}},
     u \in {IP, IMain}, z \in {1, 2}, dead \in {{}, {4}, {3}}}

\* Relocations that cannot be applied: what they need was stripped or does not fit.
Failing ==
  {[Plain EXCEPT !.relocs = <<Quad(1, Data, 0, w, 0), v, Quad(2, Data, 0, z, 0)>> \o t,
                 !.live = (1 .. 5 \ dead) \cup {3, 5}, !.libSystem = s] :
     w \in {IF_, ILoc, IP}, v \in {Word(IAbs), Word(IMain), Word(IP)}, z \in {1, 3},
     t \in {<<>>, Branch(1, 0, IP), Branch(1, 0, IF_)}, dead \in {{}, {2}, {4}}, s \in {0, 1}}

\* Thread variables, personalities, and what the symbol table shows of it all.
Threads ==
  {[Base EXCEPT !.relocs = t \o Descriptor1 \o
                  (IF p[1] = 0 THEN <<>> ELSE <<Quad(2, CompactUnwind, p[2], p[1], 0)>>),
                !.hidden = h, !.strip = s, !.kind = k, !.live = 1 .. 9 \ dead,
                !.table[F].priv = v, !.syms[2][1].priv = v, !.initOf = i] :
     t \in {Tlvp(IX), Branch(1, 0, IQ), Got(IX)}, p \in {<<0, 0>>, <<5, 16>>, <<2, 16>>, <<5, 24>>}, h \in {{}, {F}, {Alias, Main, Header}},
     s \in BOOLEAN, k \in {"exe", "dylib"}, dead \in {{}, {7}}, v \in BOOLEAN,
     i \in {X :> XInit, Y :> YInit}}

MCLinks == Code \cup Pointing \cup Failing \cup Threads

MCWordRange == -512 .. 1023
=============================================================================
