---------------------------- MODULE OutputSymbols ---------------------------
(***************************************************************************)
(* The symbol table of the image, its exports and its indirect symbols,    *)
(* and the blocks of __LINKEDIT (src/src/macho/writer.rs).                 *)
(*                                                                         *)
(* An entry is [sym, name, type, sect, value, weak, target]: sym is the    *)
(* name it has in the symbol table, NoName for entries made from an        *)
(* object's own symbols; target is what an indirect entry re-exports.      *)
(* Types: "local", "pext" (private extern), "ext", "abs", "indr", "undf".  *)
(***************************************************************************)
EXTENDS Relocate

CONSTANTS HeaderName,       \* __mh_execute_header
          PrivateName,      \* __dyld_private
          Temporaries       \* the names of assembler temporaries

IndirectLocal == -1   \* INDIRECT_SYMBOL_LOCAL

Entry(sym, name, type, sect, value, weak, target) ==
  [sym |-> sym, name |-> name, type |-> type, sect |-> sect, value |-> value,
   weak |-> weak, target |-> target]

\* collect_imports: all that any of the synthetic tables names, sorted by name.
Imports(table, p) ==
  LET named == Range(p.stubs) \cup Range(p.got) \cup Range(p.lazy)
               \cup {p.direct[i].name : i \in DOMAIN p.direct}
               \cup (IF p.bootstrap THEN {BootstrapName} ELSE {})
  IN  Ascending({n \in named : table[n].kind = "DylibImport"})

\* collect_local_symbols: what the object keeps to itself, private externs among it.
LocalEntries(l, p, obj) ==
  {LET s == l.syms[obj][i]
       at == InputSymbolAddr(l, p, obj, s)
   IN  Entry(NoName, s.name, IF s.ext THEN "pext" ELSE "local",
             IF s.kind = "abs" THEN 0 ELSE s.sect, at.v, FALSE, NoName) :
     i \in {i \in DOMAIN l.syms[obj] :
              LET s == l.syms[obj][i] IN
              /\ s.ext => s.priv
              /\ s.name \notin Temporaries
              /\ \/ s.kind = "abs"
                 \/ s.kind = "sect" /\ InputSymbolAddr(l, p, obj, s).ok}}

\* collect_synthetic_local_symbols
PrivateEntry(l, p) ==
  IF p.binder THEN {Entry(NoName, PrivateName, "local", Data, PrivateAddr(l), FALSE, NoName)} ELSE {}

\* private_extern || visibility.hides
Hidden(l, table, name) == table[name].priv \/ name \in l.hidden

\* The entry of __mh_execute_header, of an executable only.
HeaderEntry(l) ==
  IF l.kind = "exe"
    THEN {Entry(NoName, HeaderName, IF HeaderName \in l.hidden THEN "pext" ELSE "ext",
                Text, TextBase, FALSE, NoName)}
    ELSE {}

\* The body of the loop of build_output_symbols_profiled over the symbol table: no
\* entry for what is imported, unresolved, stripped, or private to an object, unless
\* it is an alias; an alias of what is imported is re-exported.
TableEntries(l, p, table, name) ==
  LET s == table[name]
      final == AliasTarget(table, name)
      t == table[final]
      alias == s.kind = "Alias"
      hidden == Hidden(l, table, name)
  IN  CASE alias /\ t.kind = "DylibImport" ->
             IF hidden THEN {} ELSE {Entry(name, name, "indr", 0, 0, t.weak, final)}
        [] t.kind \in {"Defined", "Absolute"} /\ (alias \/ s.kind = t.kind) ->
             IF \/ s.priv /\ ~alias
                \/ t.kind = "Defined" /\ t.atom \notin l.live
             THEN {}
             ELSE {Entry(name, name,
                         CASE hidden -> "pext" [] ~hidden /\ t.kind = "Absolute" -> "abs" [] OTHER -> "ext",
                         IF t.kind = "Absolute" THEN 0 ELSE l.atoms[t.atom].sect,
                         GlobalAddr(l, p, table, final).v, t.weak, NoName)}
        [] OTHER -> {}

\* sort_local_symbols: by section, value, type and name.
LocalsBefore(x, y) ==
  LET rank(e) == IF e.type = "local" THEN 0 ELSE 1
      key(e) == <<e.sect, e.value, rank(e), e.name>>
      differ == {i \in 1 .. 4 : key(x)[i] # key(y)[i]}
  IN  \E i \in differ : key(x)[i] < key(y)[i] /\ \A j \in differ : i <= j

RECURSIVE SortLocals(_)
SortLocals(S) ==
  IF S = {} THEN <<>>
  ELSE LET m == CHOOSE x \in S : \A y \in S \ {x} : ~LocalsBefore(y, x)
       IN  <<m>> \o SortLocals(S \ {m})

ByName(S) ==
  LET names == Ascending({e.name : e \in S}) IN
  [i \in DOMAIN names |-> CHOOSE e \in S : e.name = names[i]]

\* build_output_symbols_profiled
BuildOutputSymbols(l, p, table) ==
  LET undef(n) == Entry(n, n, "undf", table[n].ordinal, 0, table[n].weak, NoName)
      parts(locals, externs, imports) ==
        [symbols |-> locals \o externs \o [i \in DOMAIN imports |-> undef(imports[i])],
         nlocal |-> Len(locals), nextdef |-> Len(externs), nundef |-> Len(imports),
         exports |-> externs]
      sorted(made) ==
        parts(IF l.strip THEN <<>> ELSE SortLocals({e \in made : e.type \in {"local", "pext"}}),
              ByName({e \in made : e.type \notin {"local", "pext"}}), Imports(table, p))
  IN  sorted(HeaderEntry(l) \cup PrivateEntry(l, p)
             \cup UNION {LocalEntries(l, p, o) : o \in DOMAIN l.syms}
             \cup UNION {TableEntries(l, p, table, n) : n \in DOMAIN table})

\* symbol_indices: the last entry of a symbol, counted from 0.
SymbolIndex(plan, name) ==
  CHOOSE i \in 0 .. Len(plan.symbols) - 1 :
    /\ plan.symbols[i + 1].sym = name
    /\ \A j \in i + 2 .. Len(plan.symbols) : plan.symbols[j].sym # name

\* indirect_symbol_index
IndirectIndex(table, plan, name) ==
  IF table[name].kind = "DylibImport" THEN SymbolIndex(plan, name) ELSE IndirectLocal

\* Mutant: the slots of the GOT are listed before the stubs.
GotBeforeStubs(table, p, plan) ==
  LET section(slots) == [i \in DOMAIN slots |-> IndirectIndex(table, plan, slots[i])] IN
  [table |-> section(p.got) \o section(p.stubs) \o section(p.lazy),
   stubs |-> 0, got |-> Len(p.stubs), lazy |-> Len(p.stubs) + Len(p.got)]

\* push_indirect_section, for the stubs, the GOT and the lazy pointers; where each
\* section starts goes into its reserved1 (apply_indirect_starts).
IndirectSymbols(table, p, plan) ==
  LET section(slots) == [i \in DOMAIN slots |-> IndirectIndex(table, plan, slots[i])] IN
  [table |-> section(p.stubs) \o section(p.got) \o section(p.lazy),
   stubs |-> 0, got |-> Len(p.stubs), lazy |-> Len(p.stubs) + Len(p.got)]
-----------------------------------------------------------------------------
(* The blocks of __LINKEDIT, in the order of build_linkedit_plan_profiled. *)

AlignUp(n, align) == ((n + align - 1) \div align) * align

Optional == {"rebase", "bind", "lazy", "export", "loh", "indirect"}

\* place_optional_block, place_required_block and place_linkedit_data_block
PlaceBlock(placed, block) ==
  LET cursor == IF placed = <<>> THEN 0 ELSE Last(placed).off + Last(placed).size IN
  IF block.name \in Optional /\ block.size = 0 THEN placed
  ELSE Append(placed, [name |-> block.name, off |-> AlignUp(cursor, 8), size |-> block.size])

\* pad_dyld_info_stream
Padded(ops) == AlignUp(Len(ops), 8)

NlistSize == 16

PlaceBlocks(sizes) == FoldLeft(PlaceBlock, <<>>, sizes)
=============================================================================
