-------------------------------- MODULE Goobj --------------------------------
(***************************************************************************)
(* internal/goobj: a Go object file under construction (Link), its symbol  *)
(* numbering and blocks as written, the reader, and the semantic diff.     *)
(*                                                                         *)
(* A symbol is identified by its key [name, abi]; name is the tuple of the *)
(* dot-separated parts.  A symbol the code creates without a name (a       *)
(* pc-value table, a FuncInfo, a DWARF fragment) has a key that starts     *)
(* with "#" and is written with an empty name.  The facts of a Go release  *)
(* are a record m: asmArgs, inlFileRefs, sortRelocs, startLine, dwarf5     *)
(* (booleans), builtins (a sequence of keys) and quantum.  Blocks are the  *)
(* fields of a record; the byte offsets at which they start are left out.  *)
(***************************************************************************)
EXTENDS PcTab, Integers, Sequences, SequencesExt, FiniteSets, TLC

ABI0 == 0
ABIInternal == 1
Key(name, abi) == [name |-> name, abi |-> abi]
NilKey == Key(<<>>, ABI0)
Nameless(k) == k.name # <<>> /\ k.name[1] = "#"
Part(k, what) == Key(<<"#", what>> \o k.name, k.abi)

\* Indices of the FUNCDATA and PCDATA kinds (the same in every release).
ArgsPointerMaps == 0
LocalsPointerMaps == 1
ArgInfo == 5
UnsafePoint == 0
StackMapIndex == 1

NoFunc == [has |-> FALSE, args |-> 0, locals |-> 0, start |-> 0, progs |-> FALSE,
           funcdata |-> <<>>, pcsp |-> NilKey, pcfile |-> NilKey, pcline |-> NilKey,
           pcinline |-> NilKey, pcdata |-> <<>>, files |-> {}, inl |-> <<>>,
           dwarf |-> <<>>]
NewSym == [kind |-> "Sxxx", p |-> <<>>, size |-> 0, rels |-> <<>>, dupok |-> FALSE,
           nosplit |-> FALSE, onList |-> FALSE, fn |-> NoFunc]

NewLink == [text |-> <<>>, data |-> <<>>, files |-> <<>>, syms |-> <<>>, err |-> "ok"]

\* Lookup creates what it does not find; a symbol that is only referred to
\* stays as it was created.
Sym(l, k) == IF k \in DOMAIN l.syms THEN l.syms[k] ELSE NewSym
SetSym(l, k, s) == [l EXCEPT !.syms = (k :> s) @@ @]
Fail(l, why) == IF l.err = "ok" THEN [l EXCEPT !.err = why] ELSE l

FileIdx(l, f) == CHOOSE i \in DOMAIN l.files : l.files[i] = f
AddFile(l, f) == IF f \in Range(l.files) THEN l ELSE [l EXCEPT !.files = Append(@, f)]

Globl(l, k, size, flags) ==
    LET s == Sym(l, k)
        kind == CASE "RODATA" \in flags -> "SRODATA"
                  [] s.kind = "SDATA" -> "SNOPTRDATA"
                  [] OTHER -> "SNOPTRBSS"
    IN  IF s.onList THEN Fail(l, "redeclared")
        ELSE [SetSym(l, k, [s EXCEPT !.onList = TRUE, !.size = size, !.kind = kind,
                                     !.dupok = @ \/ "DUPOK" \in flags])
                EXCEPT !.data = Append(@, k)]

\* WriteBytes and WriteInt store at off, extending the contents with zeros
\* (prepwrite); a symbol written to is no longer BSS.
Write(l, k, off, b) ==
    LET s == Sym(l, k)
        n == off + Len(b)
        old == s.p \o [i \in 1..(n - Len(s.p)) |-> 0]
    IN  IF b = <<>> THEN l
        ELSE SetSym(l, k, [s EXCEPT
               !.kind = CASE @ \in {"Sxxx", "SBSS"} -> "SDATA"
                          [] @ = "SNOPTRBSS" -> "SNOPTRDATA" [] OTHER -> @,
               !.p = SubSeq(old, 1, off) \o b \o SubSeq(old, n + 1, Len(old)),
               !.size = IF n > @ THEN n ELSE @])

AddRel(l, k, r) == SetSym(l, k, [Sym(l, k) EXCEPT !.rels = Append(@, r)])

InitText(l, k, nosplit, dupok) ==
    LET s == Sym(l, k)
    IN  IF s.onList THEN Fail(l, "redeclared")
        ELSE [SetSym(l, k, [s EXCEPT !.onList = TRUE, !.kind = "STEXT", !.dupok = dupok,
                              !.nosplit = nosplit, !.fn = [NoFunc EXCEPT !.has = TRUE, !.start = 1]])
                EXCEPT !.text = Append(@, k)]

\* A funcdata slot: the vector grows, the gaps are nil.
Put(seq, i, k) ==
    [j \in 1..(IF i + 1 > Len(seq) THEN i + 1 ELSE Len(seq)) |->
        IF j = i + 1 THEN k ELSE IF j <= Len(seq) THEN seq[j] ELSE NilKey]
Funcdata(l, k, i, d) == SetSym(l, k, [Sym(l, k) EXCEPT !.fn.funcdata = Put(@, i, d)])
PCDATA(l, k) == SetSym(l, k, [Sym(l, k) EXCEPT !.fn.progs = TRUE])

\* Pctab makes a new content-addressable symbol for one slot of a function.
Pctab(l, k, slot, tab) ==
    SetSym(l, Part(k, slot), [NewSym EXCEPT !.kind = "SRODATA", !.p = tab, !.size = Len(tab)])

\* dwarf: the info and line fragments refer to the function they describe,
\* whose size is still 0; the ranges fragment is empty and never written.
dwarf(m, l, k) ==
    LET info == IF m.dwarf5 THEN <<[off |-> 2, siz |-> 1, type |-> "R_DWTXTADDR", add |-> 0, sym |-> k]>>
                ELSE <<[off |-> 2, siz |-> 8, type |-> "R_ADDR", add |-> 0, sym |-> k],
                       [off |-> 10, siz |-> 8, type |-> "R_ADDR", add |-> Sym(l, k).size, sym |-> k]>>
        line == <<[off |-> 3, siz |-> 8, type |-> "R_ADDR", add |-> 0, sym |-> k]>>
        l1 == SetSym(l, Part(k, "DwarfInfo"), [NewSym EXCEPT !.kind = "SDWARFFCN",
                 !.p = <<"abbrev">> \o k.name, !.size = 1 + Len(k.name), !.rels = info])
        l2 == SetSym(l1, Part(k, "DwarfLines"), [NewSym EXCEPT !.kind = "SDWARFLINES",
                 !.p = <<"set_address">>, !.size = 1, !.rels = line])
    IN  SetSym(l2, k, [Sym(l2, k) EXCEPT
            !.fn.dwarf = <<Part(k, "DwarfLines"), Part(k, "DwarfInfo")>>])

\* Flush: the argument maps of ABI0 functions of the package refer to
\* symbols the compiler of the Go side makes, unless a FUNCDATA is there.
FlushOne(m, pkg, l, k) ==
    LET s == Sym(l, k)
        Nil(fd, i) == Len(fd) < i + 1 \/ fd[i + 1] = NilKey
        own == m.asmArgs /\ k.name[1] = pkg /\ k.abi = ABI0
        fd1 == IF own /\ Nil(s.fn.funcdata, ArgsPointerMaps)
               THEN Put(s.fn.funcdata, ArgsPointerMaps, Key(Append(k.name, "args_stackmap"), ABI0))
               ELSE s.fn.funcdata
        fd2 == IF own /\ Nil(fd1, ArgInfo)
               THEN Put(fd1, ArgInfo, Key(Append(k.name, "arginfo0"), ABI0)) ELSE fd1
        l1 == Pctab(l, k, "Pcinline", <<0, 0, 0>>)
    IN  dwarf(m, SetSym(l1, k, [s EXCEPT !.fn.funcdata = fd2,
                !.fn.files = IF s.fn.progs \/ s.fn.funcdata # <<>> THEN {0} ELSE {},
                !.fn.pcinline = Part(k, "Pcinline")]), k)
Flush(m, pkg, l) == FoldLeft(LAMBDA a, k : FlushOne(m, pkg, a, k), l, l.text)

---------------------------------------------------------------------------
(* Numbering. *)

NotNil(seq) == SelectSeq(seq, LAMBDA k : k # NilKey)
CatMap(Op(_), seq) ==
    LET parts == SelectSeq([i \in DOMAIN seq |-> Op(seq[i])], LAMBDA part : part # <<>>)
        cat[i, j \in DOMAIN parts] ==
            IF i = j THEN parts[i]
            ELSE LET mid == (i + j) \div 2 IN cat[i, mid] \o cat[mid + 1, j]
    IN  IF parts = <<>> THEN <<>> ELSE cat[1, Len(parts)]
Firsts(seq) ==
    LET new == SelectSeq([i \in DOMAIN seq |-> i], LAMBDA i : \A j \in 1..(i - 1) : seq[j] # seq[i])
    IN  [k \in DOMAIN new |-> seq[new[k]]]
SortedFiles(set) ==
    IF set = {} THEN <<>>
    ELSE SelectSeq([i \in 1..(Max(set) + 1) |-> i - 1], LAMBDA x : x \in set)
Targets(l, k) == [i \in DOMAIN Sym(l, k).rels |-> Sym(l, k).rels[i].sym]

\* traverseFuncAux with travRefs set: file names and inlined functions are
\* symbols too.
FuncAux(m, l, k) ==
    LET f == Sym(l, k).fn
        FileSym(i) == Key(l.files[i + 1], ABI0)
    IN  NotNil(f.funcdata)
        \o [i \in DOMAIN SortedFiles(f.files) |-> FileSym(SortedFiles(f.files)[i])]
        \o CatMap(LAMBDA n : <<n.func>> \o (IF m.inlFileRefs THEN <<FileSym(n.file)>> ELSE <<>>), f.inl)
        \o CatMap(LAMBDA a : <<a>> \o Targets(l, a), f.dwarf)
FuncPcdata(l, k) ==
    LET f == Sym(l, k).fn
    IN  NotNil(<<f.pcsp, f.pcfile, f.pcline, f.pcinline>> \o f.pcdata)

\* traverse, for the two passes of number.
TraverseDefs(l) ==
    CatMap(LAMBDA k : <<k>> \o (IF Sym(l, k).fn.has THEN FuncPcdata(l, k) ELSE <<>>),
           l.text \o l.data)
TraverseRefs(m, l) ==
    CatMap(LAMBDA k : Targets(l, k) \o (IF Sym(l, k).fn.has THEN FuncAux(m, l, k) ELSE <<>>),
           l.text \o l.data)

\* builtinIdx: the last entry of a name, if its ABI is the reference's.
builtinIdx(m, k) ==
    LET at == {i \in DOMAIN m.builtins : m.builtins[i].name = k.name}
    IN  IF at = {} THEN -1
        ELSE LET i == CHOOSE i \in at : \A j \in at : j <= i
             IN  IF m.builtins[i].abi = k.abi THEN i - 1 ELSE -1

\* number, then funcInfoSyms.  Every content-addressable symbol is a
\* pc-value table, so none is short-hashed; the DWARF fragments take a place
\* among the references first and are renumbered as definitions.
number(m, l) ==
    LET defs   == TraverseDefs(l)
        refs   == SelectSeq(TraverseRefs(m, l),
                            LAMBDA k : k \notin Range(defs) /\ builtinIdx(m, k) < 0)
    IN  [hashed     |-> SelectSeq(defs, Nameless),
         nonpkgdefs |-> SelectSeq(defs, LAMBDA k : ~Nameless(k)),
         nonpkgrefs |-> Firsts(refs),
         defs       |-> CatMap(LAMBDA k : <<Part(k, "FuncInfo")>> \o Sym(l, k).fn.dwarf, l.text)]

IndexIn(seq, k) == (CHOOSE i \in DOMAIN seq : seq[i] = k) - 1
symRef(m, n, k) ==
    CASE k = NilKey -> [pkg |-> "Invalid", idx |-> 0]
      [] k \in Range(n.defs) -> [pkg |-> "Self", idx |-> IndexIn(n.defs, k)]
      [] k \in Range(n.hashed) -> [pkg |-> "Hashed", idx |-> IndexIn(n.hashed, k)]
      [] k \in Range(n.nonpkgdefs) -> [pkg |-> "None", idx |-> IndexIn(n.nonpkgdefs, k)]
      [] builtinIdx(m, k) >= 0 -> [pkg |-> "Builtin", idx |-> builtinIdx(m, k)]
      [] OTHER -> [pkg |-> "None", idx |-> Len(n.nonpkgdefs) + IndexIn(n.nonpkgrefs, k)]

\* The contents of a FuncInfo symbol.
FuncInfoBytes(m, n, f) ==
    <<f.args, f.locals>> \o (IF m.startLine THEN <<f.start>> ELSE <<>>)
    \o <<Cardinality(f.files)>> \o SortedFiles(f.files) \o <<Len(f.inl)>>
    \o CatMap(LAMBDA x : <<x.parent, x.file, x.line, symRef(m, n, x.func), x.ppc>>, f.inl)

\* aux: what a function's record points at, in order; empty tables are left
\* out, except among the PCDATA.
aux(l, k) ==
    LET f == Sym(l, k).fn
        nz(t, a) == IF a = NilKey \/ Sym(l, a).size = 0 THEN <<>> ELSE <<[type |-> t, sym |-> a]>>
    IN  IF ~f.has THEN <<>>
        ELSE <<[type |-> "FuncInfo", sym |-> Part(k, "FuncInfo")]>>
             \o [i \in DOMAIN f.funcdata |-> [type |-> "Funcdata", sym |-> f.funcdata[i]]]
             \o (IF f.dwarf = <<>> THEN <<>>
                 ELSE nz("DwarfInfo", f.dwarf[2]) \o nz("DwarfLines", f.dwarf[1]))
             \o nz("Pcsp", f.pcsp) \o nz("Pcfile", f.pcfile) \o nz("Pcline", f.pcline)
             \o nz("Pcinline", f.pcinline)
             \o [i \in DOMAIN f.pcdata |-> [type |-> "Pcdata", sym |-> f.pcdata[i]]]

---------------------------------------------------------------------------
(* Writing and reading. *)

\* The prefix sums of some lengths, with the total.
PrefixSums(lens) ==
    LET Before(i) == UNION {{j} \X (1..lens[j]) : j \in 1..i}
    IN  [i \in 1..(Len(lens) + 1) |-> Cardinality(Before(i - 1))]

writeSym(l, k) ==
    LET s == Sym(l, k)
    IN  [name |-> IF Nameless(k) THEN <<>> ELSE k.name, abi |-> k.abi, kind |-> s.kind,
         dupok |-> s.dupok, nosplit |-> s.nosplit, size |-> s.size]

\* The blocks, with the symbols numbered by n: the symbol blocks, the three
\* index blocks over the defined symbols in block order, then relocations (by
\* offset where the release sorts them, a stable sort), aux entries and data.
Blocks(m, n, l) ==
    LET all == n.defs \o n.hashed \o n.nonpkgdefs
        Rels(k) == IF m.sortRelocs
                   THEN CatMap(LAMBDA o : SelectSeq(Sym(l, k).rels, LAMBDA r : r.off = o),
                               SortedFiles({r.off : r \in Range(Sym(l, k).rels)}))
                   ELSE Sym(l, k).rels
        Recs(seq) == [i \in DOMAIN seq |-> writeSym(l, seq[i])]
        Ref(k) == symRef(m, n, k)
        Map(seq, Op(_)) == [i \in DOMAIN seq |-> Op(seq[i])]
    IN  [symdef |-> Recs(n.defs), hasheddef |-> Recs(n.hashed),
         nonpkgdef |-> Recs(n.nonpkgdefs), nonpkgref |-> Recs(n.nonpkgrefs),
         relocIdx |-> PrefixSums(Map(all, LAMBDA k : Len(Sym(l, k).rels))),
         auxIdx |-> PrefixSums(Map(all, LAMBDA k : Len(aux(l, k)))),
         dataIdx |-> PrefixSums(Map(all, LAMBDA k : Len(Sym(l, k).p))),
         reloc |-> CatMap(LAMBDA k : Map(Rels(k), LAMBDA r :
                     [off |-> r.off, siz |-> r.siz, type |-> r.type,
                      add |-> r.add, ref |-> Ref(r.sym)]), all),
         aux |-> CatMap(LAMBDA k : Map(aux(l, k), LAMBDA a :
                     [type |-> a.type, ref |-> Ref(a.sym)]), all),
         data |-> CatMap(LAMBDA k : Sym(l, k).p, all),
         files |-> l.files, quantum |-> m.quantum]

\* funcInfoSyms: a FuncInfo symbol for every function.
FuncInfoSyms(m, n, l) ==
    FoldLeft(LAMBDA a, k : SetSym(a, Part(k, "FuncInfo"), [NewSym EXCEPT !.kind = "SDATA",
                !.p = FuncInfoBytes(m, n, Sym(l, k).fn), !.size = 1]), l, l.text)

\* Write: number, funcInfoSyms, then the blocks.
WriteNumbered(m, n, l) == Blocks(m, n, FuncInfoSyms(m, n, l))
WriteObj(m, l) == WriteNumbered(m, number(m, l), l)

\* Reader: symbol i (from 0) through all the blocks, and what it owns.
NDef(o) == Len(o.symdef) + Len(o.hasheddef) + Len(o.nonpkgdef)
RSym(o, i) == (o.symdef \o o.hasheddef \o o.nonpkgdef \o o.nonpkgref)[i + 1]
Span(idx, block, i) == SubSeq(block, idx[i + 1] + 1, idx[i + 2])
Relocs(o, i) == Span(o.relocIdx, o.reloc, i)
Auxs(o, i) == Span(o.auxIdx, o.aux, i)
Data(o, i) == Span(o.dataIdx, o.data, i)

\* The symbol a reference names, as Go's loader finds it: -1 for none, and
\* for a builtin.
Resolve(o, ref) ==
    LET nonpkg == Len(o.symdef) + Len(o.hasheddef)
    IN  CASE ref.pkg = "None" -> nonpkg + ref.idx
          [] ref.pkg = "Self" -> ref.idx
          [] ref.pkg = "Hashed" -> Len(o.symdef) + ref.idx
          [] OTHER -> -1
\* The defined symbol of a key, and one of its aux entries' data.
Defined(o, k) == {i \in 0..(NDef(o) - 1) : RSym(o, i).name = k.name /\ RSym(o, i).abi = k.abi}
AuxData(o, i, type, nth) ==
    LET mine == SelectSeq(Auxs(o, i), LAMBDA a : a.type = type)
    IN  Data(o, Resolve(o, mine[nth].ref))

---------------------------------------------------------------------------
(* Diff. *)

\* The name a symbol is compared by: a nameless one goes by its content.
nameOf(o, i) ==
    IF RSym(o, i).name = <<>> /\ i < NDef(o)
    THEN <<"hashed", RSym(o, i).kind, ToString(Data(o, i))>>
    ELSE RSym(o, i).name
\* Mutant: the target is not compared.
resolveNone(o, ref) == <<>>
\* resolve: the name of a relocation's target, without its ABI.
resolve(o, ref) ==
    IF ref.pkg = "Builtin" THEN <<"builtin", ToString(ref.idx)>> ELSE nameOf(o, Resolve(o, ref))

\* How an aux entry is rendered: tables by what they mean, the rest by
\* content; funcdata and pcdata by their place among their kind.
Rendered(o, as, j) ==
    LET a == as[j]
        i == Resolve(o, a.ref)
        data == IF i >= 0 /\ i < NDef(o) THEN Data(o, i) ELSE <<>>
        nth == Cardinality({h \in 1..j : as[h].type = a.type})
    IN  [kind |-> a.type, nth |-> nth,
         is |-> IF a.type \in {"Pcsp", "Pcfile", "Pcline", "Pcinline", "Pcdata"}
                THEN ToString(Spans(o.quantum, data)) ELSE ToString(data)]

\* diffLoad: by name and ABI, the last symbol of several.
DiffLoad(o) ==
    LET K(i) == <<nameOf(o, i), RSym(o, i).abi>>
        Rel(r) == [off |-> r.off, siz |-> r.siz, type |-> r.type, target |-> resolve(o, r.ref), add |-> r.add]
        D(i) == [attrs |-> <<RSym(o, i).kind, RSym(o, i).dupok, RSym(o, i).nosplit, RSym(o, i).size>>,
                 data |-> ToString(Data(o, i)),
                 rels |-> {Rel(r) : r \in Range(Relocs(o, i))},
                 aux |-> {Rendered(o, Auxs(o, i), j) : j \in DOMAIN Auxs(o, i)}]
        ids == 0..(NDef(o) - 1)
        Latest(k) == CHOOSE i \in ids : K(i) = k /\ \A j \in ids : K(j) = k => j <= i
    IN  [k \in {K(i) : i \in ids} |-> D(Latest(k))]

\* diffCompare: the symbols that only one object has or that differ.
Diff(a, b) ==
    LET x == DiffLoad(a)
        y == DiffLoad(b)
    IN  {k \in DOMAIN x \cup DOMAIN y :
           k \notin DOMAIN x \/ k \notin DOMAIN y \/ x[k] # y[k]}
=============================================================================
