------------------------------ MODULE MCConvert ------------------------------
(***************************************************************************)
(* Programs of one or two C units, compiled and converted; what the Go     *)
(* linker and the Go runtime then see.                                     *)
(***************************************************************************)
EXTENDS Convert

---------------------------------------------------------------------------
(* Units. *)

It(kind, to, off) == [kind |-> kind, to |-> to, off |-> off]
Call(to) == It("call", to, 0)
Fn(name, elig, static, items, tabs) ==
    [name |-> name, elig |-> elig, static |-> static, items |-> items, tabs |-> tabs]
E(pc, v) == [pc |-> pc, val |-> v]
Pcv(kind, ents) == [kind |-> kind, ents |-> ents]
NoTabs == [pcv |-> <<>>, inl |-> <<>>, args |-> <<{0}>>, locals |-> <<{}>>]
\* Line tables with a repeated value and a row replaced at the same pc, an
\* inlined static that has no body and one that has.
Node(parent, line, func, ppc) ==
    [parent |-> parent, file |-> 1, line |-> line, func |-> func, ppc |-> ppc, sline |-> 3]
Tabs == [pcv |-> <<Pcv(PCFile, <<E(0, 0), E(8, 1), E(16, 1), E(20, 0)>>),
                   Pcv(PCLine, <<E(0, 3), E(8, 9), E(8, 7), E(12, 7), E(20, 5)>>),
                   Pcv(PCInlIndex, <<E(0, -1), E(8, 0), E(12, 1), E(20, -1)>>)>>,
         inl |-> <<Node(-1, 7, <<"tiny">>, 8), Node(0, 7, <<"g">>, 12)>>,
         args |-> <<{0}, {1}, {0}>>, locals |-> <<{0}, {0}, {1}, {0}>>]

U(id, arch, file, bss, fns, decls, data, rodata) ==
    [id |-> id, arch |-> arch, pkg |-> "p", file |-> <<file>>, libcalls |-> {"memcpy"}, abi0 |-> FALSE,
     fns |-> fns, decls |-> decls, data |-> data, rodata |-> rodata, bss |-> bss]
Decl(name, elig) == [name |-> name, elig |-> elig]
Ro(size) == [size |-> size, tables |-> <<>>]
Datum(name, static, words) == [name |-> name, static |-> static, words |-> words]
Num == It("int", NoName, 0)

\* f calls a static, the other unit's h and variadic v; the other unit has a
\* static of the same name.  Pointers to all of them in data.
UnitA(arch, file) ==
    U(1, arch, file, <<"bufa">>,
      <<Fn(<<"f">>, TRUE, FALSE, <<Call(<<"g">>), Call(<<"h">>), Call(<<"v">>), It("str", NoName, 3),
            It("addr", <<"s">>, 8), It("got", <<"x">>, 0), Call(<<"h">>), It("addr", <<"bufa">>, 0)>>, Tabs),
        Fn(<<"g">>, TRUE, TRUE, <<It("lib", <<"memcpy">>, 0), It("call", <<"fmt", "Println", "goabi">>, 0)>>, NoTabs)>>,
      <<Decl(<<"h">>, TRUE), Decl(<<"v">>, FALSE), Decl(<<"x">>, FALSE)>>,
      <<Datum(<<"s">>, TRUE, <<Num, It("addr", <<"g">>, 0)>>),
        Datum(<<"d">>, FALSE, <<It("addr", <<"h">>, 0), It("str", NoName, 5), It("addr", <<"s">>, 8)>>)>>,
      Ro(8))
UnitB(arch, file) ==
    U(2, arch, file, <<"bufb">>,
      <<Fn(<<"h">>, TRUE, FALSE, <<Call(<<"f">>), Call(<<"g">>), It("split", <<"x">>, 8)>>, NoTabs),
        Fn(<<"v">>, FALSE, FALSE, <<It("str", NoName, 0), It("addr", <<"d">>, 16)>>, NoTabs),
        Fn(<<"g">>, TRUE, TRUE, <<>>, NoTabs),
        Fn(<<"memcpy">>, TRUE, FALSE, <<It("lib", <<"memcpy">>, 0)>>, NoTabs)>>,
      <<Decl(<<"f">>, TRUE), Decl(<<"d">>, FALSE)>>,
      <<Datum(<<"x">>, FALSE, <<Num, It("addr", <<"v">>, 0)>>),
        Datum(<<"s">>, TRUE, <<It("addr", <<"memcpy">>, 0)>>)>>,
      Ro(8))
\* The other relocation types: loads of every width, absolute addresses, the
\* other GOT loads, a tail call, and a 32-bit word of data.
UnitR(arch) ==
    LET To(kind, off) == It(kind, <<"d">>, off)
    IN  U(1, arch, "a.c", <<"bufa">>,
          <<Fn(<<"f">>, TRUE, FALSE,
               <<To("ld8", 3), To("ld16", 2), To("ld32", 4), To("ld64", 8), To("ld128", 0), To("abs", 8),
                 To("sabs", 1), To("gotx", 0), To("goto", 0), Call(<<"k">>), It("tail", <<"k">>, 0)>>, NoTabs),
            Fn(<<"k">>, FALSE, FALSE, <<>>, NoTabs)>>,
          <<>>, <<Datum(<<"d">>, FALSE, <<It("half", <<"k">>, 0), It("half", <<"d">>, 8)>>)>>, Ro(8))
\* Two switches, with their tables one after the other in .rodata.
UnitJ ==
    U(1, "amd64", "j.c", <<"bufa">>,
      <<Fn(<<"f">>, TRUE, FALSE, <<It("table", NoName, 4), Call(<<"k">>)>>, Tabs),
        Fn(<<"k">>, FALSE, FALSE, <<It("str", NoName, 0), It("table", NoName, 12)>>, NoTabs)>>,
      <<>>, <<>>,
      [size |-> 24, tables |-> <<[off |-> 4, fn |-> 1, cases |-> <<20, 17>>],
                                 [off |-> 12, fn |-> 2, cases |-> <<25, 8, 9>>]>>])

---------------------------------------------------------------------------
(* Releases, and what may be different in the tables of the first unit.    *)

Meta(old, quantum) ==
    [asmArgs |-> ~old, inlFileRefs |-> ~old, sortRelocs |-> old, startLine |-> TRUE, dwarf5 |-> ~old,
     builtins |-> <<Key(<<"runtime", "abort">>, 0), Key(<<"runtime", "newobject">>, 1)>>,
     quantum |-> quantum, adjustsFP |-> TRUE]
Quantum(arch) == IF arch = "arm64" THEN 4 ELSE 1

F1(bd, f) == [bd EXCEPT !.funcs[1] = f]
Edited(bd) ==
    LET f == bd.funcs[1]
        Pc(k, ents) == F1(bd, [f EXCEPT !.pcv[k].ents = ents])
    IN  {bd,
         [bd EXCEPT !.profile = <<"go1", "99">>], [bd EXCEPT !.flags = {}],
         F1(bd, [f EXCEPT !.size = @ + 1]), F1(bd, [f EXCEPT !.frame = 0]),
         F1(bd, [f EXCEPT !.gc.sps[1].pc = @ + 4]), F1(bd, [f EXCEPT !.gc.sps[2].pc = f.gc.sps[1].pc]),
         F1(bd, [f EXCEPT !.gc.nlocals = 9]), F1(bd, [f EXCEPT !.gc = NoGC]),
         F1(bd, [f EXCEPT !.gc.sps[1].locals = {}]),
         Pc(1, <<E(0, 0), E(4, 8), E(4, 24)>>), Pc(1, <<E(0, 0), E(12, 8), E(8, 24)>>),
         Pc(1, <<E(0, 0), E(4, 8), E(200, 16)>>), Pc(1, <<E(0, 0), E(4, 0), E(8, 16), E(12, 16)>>),
         Pc(2, <<>>), Pc(2, <<E(0, -2), E(4, -1), E(8, -2), E(12, -1)>>),
         Pc(3, <<E(0, 0), E(8, 2)>>), Pc(3, <<E(4, 1)>>), Pc(5, <<E(0, -1), E(8, 2)>>),
         Pc(4, <<E(0, 3), E(8, -1), E(8, 7), E(12, 0)>>),
         F1(bd, [f EXCEPT !.inl[1].parent = 1]), F1(bd, [f EXCEPT !.inl = <<>>]),
         F1(bd, [f EXCEPT !.pcv = SubSeq(@, 1, 2)]), F1(bd, [f EXCEPT !.line = 0]),
         [bd EXCEPT !.relocs[1].off = @ + 1], [bd EXCEPT !.relocs[1].target = <<"nosuch">>],
         [bd EXCEPT !.funcs = Append(@, f)], [bd EXCEPT !.minor = 0], [bd EXCEPT !.minor = 1]}

P(arch, meta, units, bds, twins) ==
    [arch |-> arch, meta |-> meta, units |-> units, bds |-> bds, twins |-> twins]
Two(arch, old, bd1) ==
    LET us == <<UnitA(arch, "a.c"), UnitB(arch, "b.c")>>
    IN  P(arch, Meta(old, Quantum(arch)), us, <<bd1, Builder(us[2])>>, FALSE)
\* Unit 1 twice; the second time the source or its tables are different.
Again(u, v, bd) == P(u.arch, Meta(TRUE, Quantum(u.arch)), <<u, v>>, <<Builder(u), bd>>, TRUE)

Arches == {"amd64", "arm64"}
MCPrograms ==
    {Two(arch, old, Builder(UnitA(arch, "a.c"))) : arch \in Arches, old \in BOOLEAN}
    \cup UNION {{Two(arch, FALSE, bd) : bd \in Edited(Builder(UnitA(arch, "a.c")))} : arch \in Arches}
    \cup {P("amd64", Meta(old, 1), <<UnitJ>>, <<bd>>, FALSE) : old \in BOOLEAN, bd \in {Builder(UnitJ)}}
    \cup {P(arch, Meta(FALSE, Quantum(arch)), <<UnitR(arch)>>, <<Builder(UnitR(arch))>>, FALSE) : arch \in Arches}
    \cup {[Two("amd64", FALSE, Builder(UnitA("amd64", "a.c"))) EXCEPT !.meta.adjustsFP = FALSE]}
    \cup UNION {{Again(UnitA(arch, "a.c"), UnitA(arch, "a.c"), bd) :
                   bd \in Edited(Builder(UnitA(arch, "a.c")))} : arch \in Arches}
    \cup {Again(UnitA("amd64", "a.c"), v, Builder(v)) :
            v \in {[UnitA("amd64", "a.c") EXCEPT !.fns[1].items[2].to = <<"v">>],
                   [UnitA("amd64", "a.c") EXCEPT !.fns[1].items[2].to = <<"v">>, !.fns[1].items[3].to = <<"h">>],
                   [UnitA("amd64", "a.c") EXCEPT !.fns[1].items[4].off = 2],
                   [UnitA("amd64", "a.c") EXCEPT !.data[2].words[1].to = <<"x">>],
                   [UnitA("amd64", "a.c") EXCEPT !.data[1].static = FALSE],
                   [UnitA("amd64", "a.c") EXCEPT !.id = 3]}}
MCProfileArch == <<"goabi1", "amd64">> :> "amd64" @@ <<"goabi1", "arm64">> :> "arm64"
                 @@ <<"go1", "24", "amd64">> :> "amd64"
MCTag == <<"a.c">> :> "a_c" @@ <<"b.c">> :> "b_c" @@ <<"j.c">> :> "j_c"

---------------------------------------------------------------------------
(* External: the Go linker.  A key names the first object's definition;    *)
(* memory is the bytes of the symbols.                                     *)

Obj(m) == objs[m].obj
Definers(k) == {m \in DOMAIN objs : G!Defined(Obj(m), k) # {}}
Mem(k, off) ==
    IF Definers(k) = {} THEN (IF k = Key(<<"fmt", "Println">>, 1) THEN -3 ELSE -4)
    ELSE LET m == CHOOSE m \in Definers(k) : \A j \in Definers(k) : m <= j
             i == CHOOSE i \in G!Defined(Obj(m), k) : TRUE
             d == G!Data(Obj(m), i)
         IN  IF off \in 0..(Len(d) - 1) THEN d[off + 1]
             ELSE IF G!RSym(Obj(m), i).kind = "SNOPTRBSS" /\ off \in 0..(G!RSym(Obj(m), i).size - 1)
             THEN -2 ELSE -4
KeyOf(o, ref) ==
    IF ref.pkg = "Builtin" THEN prog.meta.builtins[ref.idx + 1]
    ELSE LET y == G!RSym(o, G!Resolve(o, ref)) IN Key(y.name, y.abi)
At(o, r) == Mem(KeyOf(o, r.ref), r.add)

\* What C says an item refers to: a byte of a body, of a datum or of .rodata.
Truth(m, it) ==
    LET u == prog.units[m]
        FnOf(v) == {i \in FnIdx(v, it.to) : v = u \/ ~v.fns[i].static}
        DataOf(v) == {d \in DataIdx(v, it.to) : v = u \/ ~v.data[d].static}
        has == {k \in DOMAIN prog.units : FnOf(prog.units[k]) # {} \/ DataOf(prog.units[k]) # {}}
        k == IF m \in has THEN m ELSE CHOOSE k \in has : TRUE
        v == prog.units[k]
    IN  CASE it.kind \in {"str", "table"} -> Token(u, RoSec(u), it.off)
          [] it.kind \notin {"str", "table"} /\ it.to = u.bss -> -2
          [] it.kind \notin {"str", "table"} /\ Len(it.to) > 1 -> -3
          [] OTHER -> IF FnOf(v) # {} THEN Token(v, CHOOSE i \in FnOf(v) : TRUE, it.off)
                      ELSE Token(v, DataSec(v), DataOff(v, CHOOSE d \in DataOf(v) : TRUE) + it.off)

\* The symbol of object o that starts with a given byte.
Starting(o, token, kinds) ==
    CHOOSE i \in 0..(G!NDef(o) - 1) :
        G!RSym(o, i).kind \in kinds /\ G!Data(o, i) # <<>> /\ G!Data(o, i)[1] = token
Overlapping(o, i, off, w) == {r \in Range(G!Relocs(o, i)) : r.off < off + w /\ off < r.off + r.siz}
Cleared(o, i, off, w) == \A b \in off..(off + w - 1) : G!Data(o, i)[b + 1] = 0

\* The single relocation r of a field is of a type, and leads where it must.
Field(o, i, off, siz, type, token) ==
    \E r \in Overlapping(o, i, off, siz) :
        /\ Overlapping(o, i, off, siz) = {r} /\ r.off = off /\ r.siz = siz
        /\ r.type = type /\ At(o, r) = token
\* The types Go's linker wants on arm64 for the low half of an address and
\* for a pair; an address that is computed is R_ADDRARM64.
GoLow == "split" :> "R_ARM64_LDST64" @@ "ld128" :> "R_ARM64_LDST128"
GoPair == [k \in ViaGot |-> "R_ARM64_GOTPCREL"]
          @@ "ld8" :> "R_ARM64_PCREL_LDST8" @@ "ld16" :> "R_ARM64_PCREL_LDST16"
          @@ "ld32" :> "R_ARM64_PCREL_LDST32" @@ "ld64" :> "R_ARM64_PCREL_LDST64"
ItemRight(m, f, k) ==
    LET u == prog.units[m]
        o == Obj(m)
        it == u.fns[f].items[k]
        off == ItemOff(u.fns[f], k)
        i == Starting(o, Token(u, f, 0), {"STEXT"})
        tok == Truth(m, it)
        call == it.kind \in {"call", "lib"}
        Slot(r) == LET s == G!Defined(o, KeyOf(o, r.ref))
                   IN  \E j \in s : Field(o, j, 0, 8, "R_ADDR", tok) /\ Len(G!Data(o, j)) = 8
    IN  IF u.arch = "amd64"
        THEN CASE call -> Field(o, i, off + 4, 4, "R_CALL", tok)
               [] it.kind \in ViaGot -> \E r \in Overlapping(o, i, off, 8) :
                     r.off = off + 4 /\ r.type = "R_PCREL" /\ r.add = 0 /\ Slot(r)
               [] it.kind \in {"abs", "sabs"} -> Field(o, i, off + 4, 4, "R_ADDR", tok)
               [] OTHER -> Field(o, i, off + 4, 4, "R_PCREL", tok)
        ELSE CASE call \/ it.kind = "tail" -> Field(o, i, off + 4, 4, "R_CALLARM64", tok) /\ Cleared(o, i, off + 4, 4)
               [] it.kind \in DOMAIN GoLow ->
                     LET at == off + Width(it) - 4
                     IN  /\ Field(o, i, off, 4, "R_ARM64_PCREL", tok) /\ Field(o, i, at, 4, GoLow[it.kind], tok)
                         /\ Cleared(o, i, off, 4) /\ Cleared(o, i, at, 4)
               [] OTHER -> /\ Field(o, i, off, 8, IF it.kind \in DOMAIN GoPair THEN GoPair[it.kind]
                                                  ELSE "R_ADDRARM64", tok)
                           /\ Cleared(o, i, off, 8)

\* A word of a datum, in the symbol that its users reach it by.
WordRight(m, d, k) ==
    LET u == prog.units[m]
        o == Obj(m)
        x == u.data[d]
        IsCopy(i) == /\ IsPrefix(<<"goc", "data">>, G!RSym(o, i).name)
                     /\ G!Data(o, i) # <<>> /\ G!Data(o, i)[1] = Token(u, DataSec(u), 0)
        host == IF x.static THEN CHOOSE i \in 0..(G!NDef(o) - 1) : IsCopy(i)
                ELSE CHOOSE i \in G!Defined(o, Key(<<u.pkg>> \o x.name, 0)) : TRUE
        off == WordSize * (k - 1) + IF x.static THEN DataOff(u, d) ELSE 0
        siz == IF x.words[k].kind = "half" THEN 4 ELSE 8
    IN  x.words[k].kind # "int" => Field(o, host, off, siz, "R_ADDR", Truth(m, x.words[k]))

\* A switch: the code adds the entry to the table's address.
SwitchRight(m, t, f, k) ==
    LET u == prog.units[m]
        o == Obj(m)
        tab == u.rodata.tables[t]
        i == Starting(o, Token(u, f, 0), {"STEXT"})
        lea == CHOOSE r \in Range(G!Relocs(o, i)) : r.off = ItemOff(u.fns[f], k) + 4
        host == CHOOSE h \in G!Defined(o, KeyOf(o, lea.ref)) : TRUE
        Entry(e) == LET hoff == lea.add + 4 * (e - 1)
                    IN  \E r \in Overlapping(o, host, hoff, 4) :
                          /\ Overlapping(o, host, hoff, 4) = {r} /\ r.off = hoff /\ r.type = "R_PCREL"
                          /\ Mem(KeyOf(o, r.ref), lea.add + r.add - hoff - 4) = Token(u, tab.fn, tab.cases[e])
    IN  \A e \in DOMAIN tab.cases : Entry(e)

Linked == stage = "done" /\ ~prog.twins

\* Every reference C code makes reaches, in the linked Go program, the byte
\* it names in C: calls, function pointers, data, strings, GOT loads, split
\* and paired arm64 addresses, words of data and the cases of switches,
\* whatever the unit that has the definition; each field is patched once,
\* by the relocation type that Go's linker wants (convert.go, data.go,
\* write.go, arm64.go, goobj numbering).
RefsDenote ==
    Linked => \A m \in DOMAIN prog.units :
        LET u == prog.units[m] IN
        /\ \A f \in DOMAIN u.fns : \A k \in DOMAIN u.fns[f].items : ItemRight(m, f, k)
        /\ \A d \in DOMAIN u.data : \A k \in DOMAIN u.data[d].words : WordRight(m, d, k)
        /\ \A t \in DOMAIN u.rodata.tables : LET f == u.rodata.tables[t].fn IN
              \A k \in DOMAIN u.fns[f].items :
                 (u.fns[f].items[k].kind = "table") => SwitchRight(m, t, f, k)

\* Go calls a C function by its ABIInternal name: the symabis say that the
\* name is there, the object has it, and its one call reaches the C body.
\* No two objects of the program define one name differently, so the choice
\* Go's linker makes among DUPOK copies does not matter (newConverter,
\* symabis, resolveText, InitText, Globl).
GoCallsReach ==
    Linked => \A m \in DOMAIN prog.units :
        LET u == prog.units[m]
            o == Obj(m) IN
        /\ \A f \in Range(Thunked(u)) :
             LET k == Key(<<u.pkg>> \o f.name, 1)
                 at == G!Defined(o, k)
             IN  /\ k \in objs[m].abis /\ Cardinality(at) = 1
                 /\ \A i \in at : Field(o, i, 4, 4, IF u.arch = "amd64" THEN "R_CALL" ELSE "R_CALLARM64",
                                        Token(u, CHOOSE j \in FnIdx(u, f.name) : TRUE, 0))
        /\ \A k \in objs[m].abis : G!Defined(o, k) # {}
        /\ \A i \in 0..(G!NDef(o) - 1) :
             LET y == G!RSym(o, i) IN
             y.name # <<>> => \A j \in DOMAIN objs \ {m} : \A h \in G!Defined(Obj(j), Key(y.name, y.abi)) :
                 y.dupok /\ G!RSym(Obj(j), h).dupok /\ G!Data(Obj(j), h) = G!Data(o, i)

---------------------------------------------------------------------------
(* External: Go's runtime on the tables of a written object. *)

Info(o, i) == G!AuxData(o, i, "FuncInfo", 1)
TableRight(o, i, f, kind, aux, nth, Val(_)) ==
    LET want == pcTable(f, kind)
    IN  want # <<>> => \A pc \in 0..(f.size - 1) :
          (pc % prog.meta.quantum = 0) =>
            Val(PcLookup(prog.meta.quantum, G!AuxData(o, i, aux, nth), pc)) = PlainLookup(want, pc)
Same(v) == v
MapRight(o, i, f, nth, Bits(_)) ==
    LET blob == G!AuxData(o, i, "Funcdata", nth)
    IN  \A s \in Range(f.gc.sps) :
          GetStackMap(prog.meta.quantum, G!AuxData(o, i, "Pcdata", 2),
                      SubSeq(blob, 3, Len(blob)), s.pc) = Bits(s)
\* Node j of the inline tree, in FuncInfo after the files.
InlRight(o, i, f) ==
    LET b == Info(o, i)
        nf == b[4]
        at(j) == 5 + nf + 5 * (j - 1)
        Node1(j) == SubSeq(b, at(j) + 1, at(j) + 5)
        Start(ref) == Info(o, G!Resolve(o, ref))[3]
    IN  /\ b[1] = f.args /\ b[2] = f.frame
        /\ (pcTable(f, PCFile) # <<>> /\ pcTable(f, PCLine) # <<>>) =>
             /\ b[5 + nf] = Len(f.inl)
             /\ \A j \in DOMAIN f.inl :
                  LET x == Node1(j) IN
                  /\ x[1] = f.inl[j].parent /\ x[3] = f.inl[j].line /\ x[5] = f.inl[j].ppc
                  /\ o.files[x[2] + 1] = <<"h">>
                  /\ x[4].pkg = "None" /\ G!Resolve(o, x[4]) < G!NDef(o)
                  /\ Start(x[4]) = f.inl[j].sline

\* Whatever tables the back end wrote for a unit, if the container is
\* accepted, then Go's runtime reads from the object exactly what they say:
\* the SP depth, the unsafe points, file, line and inline node of every pc,
\* both stack maps at every return address, and for every inlined function
\* a definition with its start line (Sections, Parse, Verify, pcbytes,
\* stackmaps, FuncInfo, the aux entries and the indices of the object).
TablesSurvive ==
    Linked => \A m \in DOMAIN prog.units : \A n1 \in DOMAIN prog.bds[m].funcs :
        LET o == Obj(m)
            bd == prog.bds[m]
            f == bd.funcs[n1]
            i == Starting(o, Token(prog.units[m], n1, 0), {"STEXT"})
            File(v) == IF v < 0 THEN v ELSE (CHOOSE k \in DOMAIN bd.files : bd.files[k] = o.files[v + 1]) - 1
            real == pcTable(f, PCFile) # <<>> /\ pcTable(f, PCLine) # <<>>
        IN  /\ TableRight(o, i, f, PCSPDelta, "Pcsp", 1, Same)
            /\ TableRight(o, i, f, PCUnsafePoint, "Pcdata", 1, Same)
            /\ real => /\ TableRight(o, i, f, PCFile, "Pcfile", 1, File)
                       /\ TableRight(o, i, f, PCLine, "Pcline", 1, Same)
                       /\ f.inl # <<>> => TableRight(o, i, f, PCInlIndex, "Pcinline", 1, Same)
            /\ ~f.gc.nil => /\ MapRight(o, i, f, 1, LAMBDA s : s.args)
                            /\ MapRight(o, i, f, 2, LAMBDA s : s.locals)
            /\ InlRight(o, i, f)

\* Two builds of one source have no semantic difference exactly when the
\* back end wrote the same code, data and tables: Diff finds every change of
\* a target, an addend, a datum, a map or a table, and the numbering of the
\* symbols never shows (goobj/diff.go).
DiffExact ==
    (stage = "done" /\ prog.twins) =>
        (G!Diff(Obj(1), Obj(2)) = {}) <=>
            (prog.units[1] = prog.units[2] /\ [prog.bds[1] EXCEPT !.minor = 4] = [prog.bds[2] EXCEPT !.minor = 4])
=============================================================================
