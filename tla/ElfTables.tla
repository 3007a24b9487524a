----------------------------- MODULE ElfTables -----------------------------
(***************************************************************************)
(* What the references of an ELF link are bound to, and the tables that    *)
(* carry the bindings (src/src/elf.rs): GOT slots, IFUNC and import stubs, *)
(* the imports and exports of a dynamic executable, their versions, hash   *)
(* and dynamic symbol table.                                               *)
(*                                                                         *)
(* A library is [soname, exports, undefs, complete...] as in ElfInputs,    *)
(* but exports maps a name to [func, ver], ver "" for none.  A target of a *)
(* reference is [kind, def, name, import]: a definition, a symbol of the   *)
(* linker, an import, nothing (an unsatisfied weak reference), or an       *)
(* error.                                                                  *)
(***************************************************************************)
EXTENDS ElfSections

CONSTANTS TlsGetAddr,  \* __tls_get_addr
          ElfHash      \* elf_hash, of every name

Target(kind, def, name, import) ==
  [kind |-> kind, def |-> def, name |-> name, import |-> import]
ToDef(d) == Target("def", d, NoName, 0)
ToLinker(n) == Target("linker", NoDef, n, 0)
ToImport(i, n) == Target("import", NoDef, n, i)
ToNothing(n) == Target("nothing", NoDef, n, 0)
Unknown == Target("unknown", NoDef, NoName, 0)

GlobalOf(globals, n) == IF n \in Names THEN globals[n] ELSE NoDef

\* resolve_def of a static link.
StaticTarget(objs, globals, o, si) ==
  LET s == objs[o].syms[si] IN
  CASE s.shndx # "UNDEF" -> ToDef(DefinedIdentity(objs, globals, <<o, si>>))
    [] s.shndx = "UNDEF" /\ GlobalOf(globals, s.name) # NoDef -> ToDef(globals[s.name])
    [] s.shndx = "UNDEF" /\ GlobalOf(globals, s.name) = NoDef ->
         CASE s.name \in LinkerSyms -> ToLinker(s.name)
           [] s.name \notin LinkerSyms /\ s.bind = "WEAK" -> ToNothing(NoName)
           [] OTHER -> Unknown

ImportIndex(imports, n) == IF n \in DOMAIN imports.index THEN imports.index[n] ELSE 0

\* What an undefined name that nothing in the image answers is bound to.
Elsewhere(imports, s) ==
  CASE ImportIndex(imports, s.name) # 0 -> ToImport(imports.index[s.name], s.name)
    [] ImportIndex(imports, s.name) = 0 /\ s.bind = "WEAK" -> ToNothing(s.name)
    [] OTHER -> Unknown

\* got_key: what a GOT load of a dynamic executable is bound to.
GotTarget(objs, globals, imports, o, si) ==
  LET t == StaticTarget(objs, globals, o, si) IN
  IF t.kind \in {"def", "linker"} THEN t ELSE Elsewhere(imports, objs[o].syms[si])

\* sym_vaddr of a dynamic executable: symbols of the linker come first.
DirectTarget(objs, globals, imports, o, si) ==
  LET s == objs[o].syms[si] IN
  IF s.shndx = "UNDEF" /\ s.name \in LinkerSyms THEN ToLinker(s.name)
  ELSE GotTarget(objs, globals, imports, o, si)

\* tls_def of a dynamic executable: only a definition will do.
TlsTarget(objs, globals, o, si) ==
  LET t == StaticTarget(objs, globals, o, si) IN IF t.kind = "def" THEN t ELSE Unknown
-----------------------------------------------------------------------------
(* Imports: [list, index, err]; an import is [name, lib, ver, func], and    *)
(* index maps the names objects use to imports.                            *)

NoImports == [list |-> <<>>, index |-> <<>>, err |-> ""]

\* Are two uses imports of the same symbol of the same library?
SameImport(a, b) == a.lib = b.lib /\ a.name = b.name /\ a.ver = b.ver

AddImport(objs, globals, libs, acc, s) ==
  LET exporting == {l \in DOMAIN libs : s.name \in DOMAIN libs[l].exports}
      lib == Min(exporting)
      export == libs[lib].exports[s.name]
      base == IF export.ver # "" /\ s.name \in DOMAIN BaseOf THEN BaseOf[s.name] ELSE s.name
      import == [name |-> base, lib |-> lib, ver |-> export.ver, func |-> export.func]
      known == {i \in DOMAIN acc.list : SameImport(acc.list[i], import)}
  IN  CASE \/ acc.err # "" \/ ~IsStrongReference(s)
           \/ s.name \in LinkerSyms \cup {TlsGetAddr} \cup DOMAIN acc.index
           \/ globals[s.name] # NoDef -> acc
        [] OTHER ->
             CASE exporting = {} -> [acc EXCEPT !.err = "Undefined"]
               [] exporting # {} /\ known # {} ->
                    [acc EXCEPT !.index = (s.name :> Min(known)) @@ @]
               [] OTHER ->
                    [acc EXCEPT !.list = Append(@, import),
                                !.index = (s.name :> Len(acc.list) + 1) @@ @]

Imports(objs, globals, libs) ==
  FoldLeft(LAMBDA acc, s : AddImport(objs, globals, libs, acc, s),
           NoImports, AllSymbols(objs))

\* validate_nondefault_undefineds
HiddenUndefined(objs, globals) ==
  \E s \in ToSet(AllSymbols(objs)) :
    IsStrongReference(s) /\ s.vis # "DEFAULT" /\ s.name \notin LinkerSyms
      /\ globals[s.name] = NoDef

\* Exports: the names libraries leave undefined that the executable, or the
\* linker, defines, in the libraries' order.
Exports(globals, libs) ==
  LET wanted == FlattenSeq([l \in DOMAIN libs |-> libs[l].undefs])
      names == Distinct(SelectSeq(wanted, LAMBDA n :
                                    globals[n] # NoDef \/ n \in RuntimeSyms))
  IN  [i \in DOMAIN names |->
         [name |-> names[i],
          target |-> IF globals[names[i]] # NoDef THEN ToDef(globals[names[i]])
                     ELSE ToLinker(names[i])]]

\* Mutant: only a full pointer counts as taking the address.
TakesAddressByPointer(r) == r.type = "64"

\* A relocation other than a call takes the address of a function.
TakesAddress(r) == r.type # "PLT32"

\* addr_taken
AddressTaken(objs, imports, i) ==
  /\ imports.list[i].func
  /\ \E q \in ToSet(RelaPositions(objs)) :
       LET r == RelaAt(objs, q)
           s == objs[q[1]].syms[r.sym]
       IN  TakesAddress(r) /\ s.shndx = "UNDEF" /\ ImportIndex(imports, s.name) = i
-----------------------------------------------------------------------------
(* GOT slots [kind, target], kind "addr" or "tpoff", and IFUNC stubs, each  *)
(* in the order of first reference.                                        *)

GotSlots(objs, globals, imports, dynamic) ==
  LET relas == SelectSeq(RelaPositions(objs), LAMBDA q :
                 RelaAt(objs, q).type \in {"GOTPCREL", "GOTTPOFF"})
      target(q, r) ==
        CASE ~dynamic -> StaticTarget(objs, globals, q[1], r.sym)
          [] dynamic /\ r.type = "GOTPCREL" ->
               GotTarget(objs, globals, imports, q[1], r.sym)
          [] OTHER -> TlsTarget(objs, globals, q[1], r.sym)
      slot(q) == LET r == RelaAt(objs, q) IN
                 [kind |-> IF r.type = "GOTPCREL" THEN "addr" ELSE "tpoff",
                  target |-> target(q, r)]
  IN  Distinct([i \in DOMAIN relas |-> slot(relas[i])])

IsIfunc(objs, t) == t.kind = "def" /\ SymbolAt(objs, t.def).typ = "IFUNC"

IfuncStubs(objs, globals, exports) ==
  LET ps == RelaPositions(objs)
      targets == [i \in DOMAIN ps |->
                    StaticTarget(objs, globals, ps[i][1], RelaAt(objs, ps[i]).sym)]
      exported == [i \in DOMAIN exports |-> exports[i].target]
  IN  Distinct(SelectSeq(targets \o exported, LAMBDA t : IsIfunc(objs, t)))
-----------------------------------------------------------------------------
(* Dynamic symbols: imports, then exports.                                 *)

\* Version requirements <<library, version>>; requirement k has index k + 1.
Requirements(imports) ==
  LET versioned == SelectSeq(imports.list, LAMBDA i : i.ver # "")
  IN  Distinct([i \in DOMAIN versioned |-> <<versioned[i].lib, versioned[i].ver>>])

GlobalVersion == 1

VersionIndex(imports, import) ==
  LET reqs == Requirements(imports) IN
  IF import.ver = "" THEN GlobalVersion
  ELSE 1 + CHOOSE k \in DOMAIN reqs : reqs[k] = <<import.lib, import.ver>>

\* VERNEED: one record per library that is asked for versions.
VersionNeeds(imports) ==
  LET reqs == Requirements(imports)
      libs == Distinct([k \in DOMAIN reqs |-> reqs[k][1]])
      aux(l) == SelectSeq([k \in DOMAIN reqs |-> k], LAMBDA k : reqs[k][1] = l)
  IN  [n \in DOMAIN libs |->
         [lib |-> libs[n],
          aux |-> [j \in DOMAIN aux(libs[n]) |->
                     [ver |-> reqs[aux(libs[n])[j]][2], index |-> aux(libs[n])[j] + 1]]]]

DynamicSymbols(objs, imports, exports) ==
  [i \in DOMAIN imports.list |->
     [name |-> imports.list[i].name, shndx |-> "UND", value |-> 0,
      ver |-> VersionIndex(imports, imports.list[i])]]
  \o
  [j \in DOMAIN exports |->
     [name |-> exports[j].name, value |-> 0, ver |-> GlobalVersion,
      shndx |-> IF IsIfunc(objs, exports[j].target) THEN "PLT" ELSE "ABS"]]

\* The bucket of a name among n.
Bucket(n, name) == ElfHash[name] % n

\* .hash: buckets and chains over every entry; entry 0 is the null symbol.
HashTable(dynsym) ==
  LET n == Len(dynsym) + 1
      step(h, i) ==
        LET b == Bucket(n, dynsym[i].name)
        IN  [buckets |-> [h.buckets EXCEPT ![b] = i],
             chain |-> [h.chain EXCEPT ![i] = h.buckets[b]]]
      zero == [k \in 0 .. n - 1 |-> 0]
  IN  FoldLeft(step, [buckets |-> zero, chain |-> zero], [i \in DOMAIN dynsym |-> i])
=============================================================================
