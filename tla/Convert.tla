------------------------------- MODULE Convert -------------------------------
(***************************************************************************)
(* internal/convert: one translation unit's .gocobj becomes a Go object.   *)
(* The ELF names, addresses and relocations become Go symbols and Go       *)
(* relocations; the tables go through PcTab; the object is a Goobj link.   *)
(*                                                                         *)
(* A converter c is [pkg, tu, arm64, libcalls, o, e, fns]: o the parsed    *)
(* tables, e the ELF object (see GocVerify), fns the functions in table    *)
(* order as [tab, sec, off, name, key].  Its mutable half st is [l         *)
(* (the link), dataSym, secSym, got, idx, stubs].                          *)
(***************************************************************************)
EXTENDS GocLower, PcTab

G == INSTANCE Goobj

Key(name, abi) == G!Key(name, abi)

\* How ELF relocation types map onto Go's, with the width of the field.
X86Text == [t \in {"PC32", "PLT32"} |-> "R_PCREL"] @@ [t \in {"32", "32S"} |-> "R_ADDR"]
X86Data == [t \in {"PC32", "PLT32"} |-> [type |-> "R_PCREL", siz |-> 4]]
           @@ [t \in {"32", "32S"} |-> [type |-> "R_ADDR", siz |-> 4]]
           @@ ("64" :> [type |-> "R_ADDR", siz |-> 8])
GotTypes == {"GOTPCREL", "GOTPCRELX", "REX_GOTPCRELX"}
A64PagePair == "ADD_LO12" :> "R_ADDRARM64" @@ "LDST8_LO12" :> "R_ARM64_PCREL_LDST8"
               @@ "LDST16_LO12" :> "R_ARM64_PCREL_LDST16" @@ "LDST32_LO12" :> "R_ARM64_PCREL_LDST32"
               @@ "LDST64_LO12" :> "R_ARM64_PCREL_LDST64"
A64Lo12 == "ADD_LO12" :> "R_ARM64_PCREL" @@ "LDST8_LO12" :> "R_ARM64_LDST8"
           @@ "LDST16_LO12" :> "R_ARM64_LDST16" @@ "LDST32_LO12" :> "R_ARM64_LDST32"
           @@ "LDST64_LO12" :> "R_ARM64_LDST64" @@ "LDST128_LO12" :> "R_ARM64_LDST128"
A64Data == "ABS64" :> [type |-> "R_ADDR", siz |-> 8] @@ "ABS32" :> [type |-> "R_ADDR", siz |-> 4]

\* tuTag: the source's base name, characters outside [A-Za-z0-9_] replaced.
\* Tag is that replacement, on the names the model uses.
CONSTANTS Tag, Programs
tuTag(o) == IF o.files = <<>> \/ o.files[1] = NoName THEN "tu" ELSE Tag[o.files[1]]

isText(c, sec) == IsExec(c.e, sec)

---------------------------------------------------------------------------
(* newConverter: every function of the tables with its ELF address and its *)
(* Go symbol.  A C function keeps the ABI of its record; a static one is   *)
(* qualified by the unit's tag; a thunk is ABIInternal.                    *)

\* Mutant: statics are not qualified.
GoNameOfPlain(pkg, tu, t) == <<pkg>> \o t.name
GoNameOf(pkg, tu, t) ==
    IF t.kind = 0 /\ "internal" \in t.flags THEN <<pkg, tu>> \o t.name ELSE <<pkg>> \o t.name
AbiOf(t) == IF t.kind = 0 /\ t.abi = 0 THEN G!ABI0 ELSE G!ABIInternal

newConverter(pkg, o, e, goarch, libcalls) ==
    LET tu == tuTag(o)
        At(t) == {i \in DOMAIN e.syms : IsFunc(e.syms[i]) /\ e.syms[i].name = t.name
                                          /\ e.syms[i].sec \in DOMAIN e.secs}
        Ok == /\ e.machine = goarch
              /\ \A t \in Range(o.funcs) : \E i \in At(t) : t.size <= e.syms[i].size
        Fn(t) == LET y == e.syms[CHOOSE i \in At(t) : \A j \in At(t) : j <= i]
                 IN  [tab |-> t, sec |-> y.sec, off |-> y.value, name |-> t.name,
                      key |-> Key(GoNameOf(pkg, tu, t), AbiOf(t))]
    IN  [ok |-> Ok, pkg |-> pkg, tu |-> tu, arm64 |-> goarch = "arm64",
         libcalls |-> libcalls, o |-> o, e |-> e,
         fns |-> IF Ok THEN [i \in DOMAIN o.funcs |-> Fn(o.funcs[i])] ELSE <<>>]

Fns(c) == Range(c.fns)
BySec(c, sec) == {x \in Fns(c) : x.sec = sec}

---------------------------------------------------------------------------
(* Name and address resolution. *)

NoSym == [sym |-> G!NilKey, off |-> 0]

\* resolveText: an address in a text section is a function and an offset in
\* it; in the padding after a function it is the next one with a negative
\* offset.  The entry of a thunk for a libcall stands for the C body.
resolveText(c, sec, addr) ==
    LET l == BySec(c, sec)
        hit == {x \in l : addr >= x.off /\ addr < x.off + x.tab.size}
        after == {x \in l : x.off > addr}
        Impl(x) == Append(x.key.name, "impl")
        Libcall(x) == /\ addr = x.off /\ Len(x.key.name) = 2
                      /\ x.key.name[2] \in c.libcalls
                      /\ \E y \in Fns(c) : y.key = Key(Impl(x), G!ABI0)
    IN  IF hit # {}
        THEN LET x == CHOOSE x \in hit : TRUE
             IN  IF Libcall(x) THEN [sym |-> Key(Impl(x), G!ABI0), off |-> 0]
                 ELSE [sym |-> x.key, off |-> addr - x.off]
        ELSE IF after # {}
        THEN LET x == CHOOSE x \in after : \A y \in after : x.off <= y.off
             IN  [sym |-> x.key, off |-> addr - x.off]
        ELSE NoSym

\* resolveCName: the Go symbol an undefined C name stands for.
resolveCName(c, elfName) ==
    LET name == IF Last(elfName) = "@plt" THEN Front(elfName) ELSE elfName
        base == IF Last(name) = "impl" THEN Front(name) ELSE name
        goName == IF \E x \in Fns(c) : x.name = name
                  THEN (CHOOSE x \in Fns(c) : x.name = name).key.name ELSE name
        own == {x \in Fns(c) : x.key.name = goName}
        Lib(n) == Len(n) = 1 /\ n[1] \in c.libcalls
        Impl(n) == Key(<<c.pkg>> \o n \o <<"impl">>, G!ABI0)
    IN  CASE Last(name) = "goabi" -> Key(Front(name), G!ABIInternal)
          [] Last(name) # "goabi" /\ Lib(name) -> Impl(name)
          [] Last(name) # "goabi" /\ ~Lib(name) ->
             (IF own # {} THEN (CHOOSE x \in own : TRUE).key
              ELSE IF goName \in {<<"llvm", "trap">>, <<"llvm", "trap", "impl">>}
              THEN Key(<<"runtime", "abort">>, G!ABI0)
              ELSE IF goName[1] = c.pkg /\ Len(goName) > 1 THEN Key(goName, G!ABI0)
              ELSE IF Len(base) > 1 THEN Key(name, G!ABI0)
              ELSE IF base # name \/ Lib(base) THEN Impl(base)
              ELSE Key(<<c.pkg>> \o base, G!ABI0))

\* resolveTarget: the Go symbol and offset an ELF relocation refers to.  The
\* -4 of x86's PC-relative forms is dropped: Go subtracts the field width.
PcRelELF == {"PC32", "PLT32"} \cup GotTypes
resolveTarget(c, st, r) ==
    LET abs == r.add + IF ~c.arm64 /\ r.type \in PcRelELF THEN 4 ELSE 0
        y == c.e.syms[r.sym]
    IN  IF r.sym = 0 THEN NoSym
        ELSE IF y.sec = 0 THEN [sym |-> resolveCName(c, y.name), off |-> abs]
        ELSE IF isText(c, y.sec)
        THEN IF y.value + abs < 0 THEN NoSym ELSE resolveText(c, y.sec, y.value + abs)
        ELSE IF r.sym \in DOMAIN st.dataSym THEN [sym |-> st.dataSym[r.sym], off |-> abs]
        ELSE IF y.sec \in DOMAIN st.secSym
        THEN [sym |-> st.secSym[y.sec], off |-> y.value + abs]
        ELSE NoSym

\* gotSlot: a data word that holds the target's address, one per target and
\* addend; its name says only the target.
gotSlot(c, st, target, add) ==
    LET want == <<target.name, add>>
        k == Key(<<"goc", "got", c.tu>> \o target.name, G!ABI0)
        l1 == G!SetSym(st.l, k, [G!Sym(st.l, k) EXCEPT !.kind = "SDATA"])
        l2 == G!Globl(l1, k, 8, {"NOPTR"})
        l3 == G!AddRel(G!Write(l2, k, 0, [i \in 1..8 |-> 0]), k,
                 [off |-> 0, siz |-> 8, type |-> "R_ADDR", add |-> add, sym |-> target])
    IN  IF want \in DOMAIN st.got THEN [st |-> st, sym |-> st.got[want]]
        ELSE [st |-> [st EXCEPT !.l = l3, !.got = (want :> k) @@ @], sym |-> k]

---------------------------------------------------------------------------
(* emitData. *)

Bytes(c, sec, from, n) == SubSeq(c.e.secs[sec].bytes, from + 1, from + n)
StFail(st, why) == [st EXCEPT !.l = G!Fail(@, why)]

\* A named global: other objects refer to it by name.
IsNamed(c, i) ==
    LET y  == c.e.syms[i]
        sc == c.e.secs[y.sec]
    IN  /\ y.sec \in DOMAIN c.e.secs /\ y.size # 0 /\ y.name # NoName
        /\ ~isText(c, y.sec) /\ y.type \in {"object", "notype"}
        /\ y.bind \in {"global", "weak"} /\ "alloc" \in sc.flags
        /\ sc.nobits \/ y.value + y.size <= sc.size
EmitNamed(c, st, i) ==
    LET y  == c.e.syms[i]
        k  == Key(<<c.pkg>> \o y.name, G!ABI0)
        l1 == G!SetSym(st.l, k, [G!Sym(st.l, k) EXCEPT !.kind = "SDATA"])
    IN  [st EXCEPT
          !.l = IF c.e.secs[y.sec].nobits THEN G!Globl(@, k, y.size, {"NOPTR"})
                ELSE G!Write(G!Globl(l1, k, y.size, {"NOPTR"}), k, 0,
                             Bytes(c, y.sec, y.value, y.size)),
          !.dataSym = (i :> k) @@ @]

\* A copy of a whole data section, for everything that has no name outside.
DataSections == {"rodata", "data", "bss", "sdata", "sbss", "tdata", "tbss"}
IsData(c, i) ==
    LET sc == c.e.secs[i]
    IN  "alloc" \in sc.flags /\ ~isText(c, i) /\ sc.size # 0 /\ sc.name[1] \in DataSections
EmitSection(c, st, i) ==
    LET sc == c.e.secs[i]
        k  == Key(<<"goc", "data", c.tu>> \o sc.name, G!ABI0)
        w  == "write" \in sc.flags
        l1 == IF w THEN G!SetSym(st.l, k, [G!Sym(st.l, k) EXCEPT !.kind = "SDATA"]) ELSE st.l
    IN  [st EXCEPT
          !.l = IF sc.nobits THEN G!Globl(@, k, sc.size, {"NOPTR"})
                ELSE G!Write(G!Globl(l1, k, sc.size, IF w THEN {"NOPTR"} ELSE {"RODATA", "DUPOK"}),
                             k, 0, Bytes(c, i, 0, sc.size)),
          !.secSym = (i :> k) @@ @]

\* Offsets in data section i that hold a PC-relative reference to code: the
\* entries of jump tables.
PcTextAt(c, i) ==
    {r.off : r \in {r \in Range(c.e.secs[i].relas) :
        ~c.arm64 /\ r.type = "PC32" /\ r.sym # 0 /\ isText(c, c.e.syms[r.sym].sec)}}

\* The tables in section i: each base is the target of a PC-relative code
\* reference, and belongs to the function that makes it.
JumpTables(c, i) ==
    {[off |-> c.e.syms[q.r.sym].value + q.r.add + 4,
      owner |-> resolveText(c, q.sec, q.r.off).sym] :
       q \in {q \in Rels(c.e) :
          /\ BySec(c, q.sec) # {} /\ ~c.arm64 /\ q.r.type = "PC32" /\ q.r.sym # 0
          /\ c.e.syms[q.r.sym].sec = i
          /\ c.e.syms[q.r.sym].value + q.r.add + 4 \in PcTextAt(c, i)}}

\* Mutant: the field width that Go's R_PCREL subtracts is not added back.
JumpEntryNoWidth(c, i, r) ==
    LET before == {t \in JumpTables(c, i) : t.off <= r.off}
        t == CHOOSE t \in before : \A u \in before : u.off <= t.off
        to == resolveText(c, c.e.syms[r.sym].sec, c.e.syms[r.sym].value + r.add - (r.off - t.off))
    IN  IF before = {} \/ to.sym # t.owner THEN NoSym
        ELSE [sym |-> to.sym, off |-> to.off + (r.off - t.off)]
\* The address a jump table entry refers to: its addend is the case plus the
\* entry's distance from the table, which comes back as the Go addend.
JumpEntry(c, i, r) ==
    LET before == {t \in JumpTables(c, i) : t.off <= r.off}
        t == CHOOSE t \in before : \A u \in before : u.off <= t.off
        y == c.e.syms[r.sym]
        case == y.value + r.add - (r.off - t.off)
        to == resolveText(c, y.sec, case)
    IN  IF before = {} \/ case < 0 \/ to.sym # t.owner THEN NoSym
        ELSE [sym |-> to.sym, off |-> to.off + (r.off - t.off) + 4]

\* The symbol that hosts offset off of data section i: the named global that
\* covers it, else the section copy.
Host(c, st, i, off) ==
    LET Covers(n) == c.e.syms[n].sec = i /\ off >= c.e.syms[n].value
                     /\ off < c.e.syms[n].value + c.e.syms[n].size
        over == {n \in DOMAIN st.dataSym : Covers(n)}
        n == CHOOSE n \in over : \A k \in over : n <= k
    IN  IF over = {} THEN [sym |-> st.secSym[i], off |-> off]
        ELSE [sym |-> st.dataSym[n], off |-> off - c.e.syms[n].value]

EmitDataReloc(c, st, i, r) ==
    LET to == IF r.off \in PcTextAt(c, i) THEN JumpEntry(c, i, r)
              ELSE IF r.sym = 0 THEN [sym |-> st.secSym[i], off |-> r.add]
              ELSE resolveTarget(c, st, r)
        h == Host(c, st, i, r.off)
        types == IF c.arm64 THEN A64Data ELSE X86Data
    IN  IF to.sym = G!NilKey THEN StFail(st, "unresolved data reloc")
        ELSE IF r.type \notin DOMAIN types THEN StFail(st, "unsupported data reloc")
        ELSE [st EXCEPT !.l = G!AddRel(@, h.sym,
                [off |-> h.off, siz |-> types[r.type].siz, type |-> types[r.type].type,
                 add |-> to.off, sym |-> to.sym])]

\* The relocations of a section that has a copy.
EmitRelocs(c, st, i) ==
    LET rs == c.e.secs[i].relas
        s  == G!Sym(st.l, st.secSym[i])
        padded == G!Write(st.l, st.secSym[i], Len(s.p), [j \in 1..(s.size - Len(s.p)) |-> 0])
        ts == JumpTables(c, i)
    IN  IF \E t \in ts : t.owner = G!NilKey \/ \E u \in ts : t.off = u.off /\ t # u
        THEN StFail(st, "jump table owner")
        ELSE FoldLeft(LAMBDA a, r : EmitDataReloc(c, a, i, r), [st EXCEPT !.l = padded], rs)

emitData(c, st) ==
    LET named == SelectSeq([i \in DOMAIN c.e.syms |-> i], LAMBDA i : IsNamed(c, i))
        secs  == SelectSeq([i \in DOMAIN c.e.secs |-> i], LAMBDA i : IsData(c, i))
        st1 == FoldLeft(LAMBDA a, i : EmitNamed(c, a, i), st, named)
        st2 == FoldLeft(LAMBDA a, i : EmitSection(c, a, i), st1, secs)
    IN  FoldLeft(LAMBDA a, i : EmitRelocs(c, a, i), st2,
                 SelectSeq(secs, LAMBDA i : c.e.secs[i].relas # <<>>))

---------------------------------------------------------------------------
(* write: TEXT symbols and FUNCDATA, stubs, then code and tables. *)

\* The file table; a function's file index goes through it.
FileNames(o) == IF o.files = <<>> THEN <<<<"goc">>>>
                ELSE [o.files EXCEPT ![1] = IF @ = NoName THEN <<"goc">> ELSE @]
FileTable(o, l) ==
    FoldLeft(LAMBDA a, f : G!AddFile(a, f), l, FileNames(o))
fileIdx(c, st, i) == G!FileIdx(st.l, FileNames(c.o)[i + 1]) - 1
goFile(c, st, i) ==
    IF i \in 0..(Len(FileNames(c.o)) - 1) THEN fileIdx(c, st, i) ELSE 0

Blob(nbit, maps) == <<Len(maps), nbit>> \o maps

EmitText(c, st, x) ==
    LET t  == x.tab
        sm == stackmaps(t.gc)
        l1 == G!InitText(st.l, x.key, "nosplit" \in t.flags, FALSE)
        Map(l, kind, what, blob) ==
            LET k == Key(<<"gclocals", "goc">> \o x.key.name \o <<what>>, G!ABI0)
            IN  G!Funcdata(G!Write(G!Globl(l, k, Len(blob), {"RODATA", "DUPOK"}), k, 0, blob),
                           x.key, kind, k)
        l2 == IF t.gc.nil THEN l1
              ELSE Map(Map(l1, G!ArgsPointerMaps, "args", Blob(t.gc.nargs, sm.args)),
                       G!LocalsPointerMaps, "locals", Blob(t.gc.nlocals, sm.locals))
    IN  [st EXCEPT !.l = G!PCDATA(l2, x.key),
                   !.idx = IF t.gc.nil THEN @ ELSE (x.key :> sm.idx) @@ @]

\* inlSym: the body of an inlined function if this object has one, else the
\* name a static body would have, which gets a one-instruction stub.
inlSym(c, name) ==
    IF \E x \in Fns(c) : x.name = name THEN (CHOOSE x \in Fns(c) : x.name = name).key
    ELSE Key(<<c.pkg, c.tu>> \o name, G!ABI0)
AddStub(c, st, n) ==
    LET k == inlSym(c, n.func)
    IN  IF (\E x \in Fns(c) : x.name = n.func) \/ G!Sym(st.l, k).fn.has THEN st
        ELSE [st EXCEPT !.l = G!InitText(@, k, TRUE, TRUE),
                        !.stubs = Append(@, [key |-> k, line |-> n.sline])]
\* A pc-value table in one slot of function k, set in field fn[slot].
Tab(m, l, k, slot, size, ents) == G!Pctab(l, k, slot, pcbytes(m.quantum, size, ents))
One(v) == <<[pc |-> 0, val |-> v]>>

FillStub(m, st, s) ==
    LET n  == IF m.quantum = 4 THEN 4 ELSE 1
        l1 == FoldLeft(LAMBDA a, q : Tab(m, a, s.key, q[1], q[2], q[3]), st.l,
                 <<<<"Pcdata0", 0, <<>>>>, <<"Pcdata1", 0, <<>>>>, <<"Pcsp", n, One(0)>>,
                   <<"Pcfile", n, One(0)>>, <<"Pcline", n, One(s.line)>>>>)
    IN  [st EXCEPT !.l = G!SetSym(l1, s.key, [G!Sym(l1, s.key) EXCEPT
            !.p = [i \in 1..n |-> 999], !.size = n, !.fn.start = s.line, !.fn.files = {0},
            !.fn.pcdata = <<G!Part(s.key, "Pcdata0"), G!Part(s.key, "Pcdata1")>>,
            !.fn.pcsp = G!Part(s.key, "Pcsp"), !.fn.pcfile = G!Part(s.key, "Pcfile"),
            !.fn.pcline = G!Part(s.key, "Pcline")])]

\* Calls, by function and offset: the tables list every call.
callAt(c, x, off) ==
    \E r \in Range(c.o.relocs) : r.kind = RCall /\ r.func = x.name /\ r.off = off

X86TextReloc(c, st, x, r) ==
    LET off == r.off - x.off
        to  == resolveTarget(c, st, r)
        viaGot == r.type \in GotTypes
        g   == gotSlot(c, st, to.sym, to.off)
        ty  == IF viaGot THEN "PC32" ELSE r.type
        add == IF viaGot THEN 0 ELSE to.off
        call == ty \in {"PLT32", "PC32"} /\ callAt(c, x, off)
        st1 == IF viaGot THEN g.st ELSE st
    IN  IF r.off < x.off \/ r.off >= x.off + x.tab.size THEN st
        ELSE IF to.sym = G!NilKey THEN StFail(st, "unresolved text reloc")
        ELSE IF ty \notin DOMAIN X86Text THEN StFail(st1, "unsupported text reloc")
        ELSE IF call /\ add # 0 THEN StFail(st1, "call has addend")
        ELSE [st1 EXCEPT !.l = G!AddRel(@, x.key,
                [off |-> off, siz |-> 4, type |-> IF call THEN "R_CALL" ELSE X86Text[ty],
                 add |-> add, sym |-> IF viaGot THEN g.sym ELSE to.sym])]

\* The linker ORs into immediates, so the fields it patches are cleared.
Clear(l, k, off) == G!Write(l, k, off, <<0, 0, 0, 0>>)

\* arm64TextRelocs, at the i-th relocation of the function by offset.
A64TextReloc(c, x, mine, acc, i) ==
    LET st  == acc.st
        r   == mine[i]
        off == r.off - x.off
        to  == resolveTarget(c, st, r)
        next == i < Len(mine) /\ mine[i + 1].off = r.off + 4
        same == next /\ mine[i + 1].sym = r.sym /\ mine[i + 1].add = r.add
        Rel(l, siz, type, add) == G!AddRel(l, x.key, [off |-> off, siz |-> siz, type |-> type,
                                                    add |-> add, sym |-> to.sym])
        Put(l) == [acc EXCEPT !.st.l = l]
        Pair(type) == [st |-> [st EXCEPT !.l =
                          Rel(Clear(Clear(@, x.key, off), x.key, off + 4), 8, type, to.off)],
                       used |-> acc.used \cup {i + 1}]
        Bad(why) == [acc EXCEPT !.st = StFail(st, why)]
    IN  IF i \in acc.used THEN acc
        ELSE IF off % 4 # 0 \/ off + 4 > x.tab.size THEN Bad("not on an instruction")
        ELSE IF to.sym = G!NilKey THEN Bad("unresolved text reloc")
        ELSE CASE r.type \in {"CALL26", "JUMP26"} ->
                    IF to.off # 0 THEN Bad("call has addend")
                    ELSE Put(Rel(Clear(st.l, x.key, off), 4, "R_CALLARM64", 0))
               [] r.type = "PG_HI21" ->
                    IF same /\ mine[i + 1].type \in DOMAIN A64PagePair
                    THEN Pair(A64PagePair[mine[i + 1].type])
                    ELSE Put(Rel(Clear(st.l, x.key, off), 4, "R_ARM64_PCREL", to.off))
               [] r.type = "GOT_PAGE" ->
                    IF same /\ mine[i + 1].type = "LD64_GOT_LO12"
                    THEN Pair("R_ARM64_GOTPCREL") ELSE Bad("ADRP pair")
               [] r.type \in DOMAIN A64Lo12 ->
                    Put(Rel(Clear(st.l, x.key, off), 4, A64Lo12[r.type], to.off))
               [] r.type \in DOMAIN A64Data ->
                    Put(Rel(st.l, A64Data[r.type].siz, A64Data[r.type].type, to.off))
               [] OTHER -> Bad("unsupported text reloc")

\* Stable sort of the function's relocations by offset.
Mine(c, x) ==
    LET rs == SelectSeq(c.e.secs[x.sec].relas,
                        LAMBDA r : r.off >= x.off /\ r.off < x.off + x.tab.size)
    IN  Cat([k \in DOMAIN Ascending({r.off : r \in Range(rs)}) |->
                SelectSeq(rs, LAMBDA r : r.off = Ascending({q.off : q \in Range(rs)})[k])])

TextRelocs(c, st, x) ==
    LET st1 == [st EXCEPT !.l = G!SetSym(@, x.key, [G!Sym(@, x.key) EXCEPT
                  !.p = Bytes(c, x.sec, x.off, x.tab.size), !.size = x.tab.size, !.rels = <<>>])]
        mine == Mine(c, x)
    IN  IF c.arm64
        THEN FoldLeft(LAMBDA a, i : A64TextReloc(c, x, mine, a, i),
                      [st |-> st1, used |-> {}], [i \in DOMAIN mine |-> i]).st
        ELSE FoldLeft(LAMBDA a, r : X86TextReloc(c, a, x, r), st1, c.e.secs[x.sec].relas)

\* The tables of kind k of a function record, <<>> when it has none.
pcTable(t, k) ==
    LET at == {i \in DOMAIN t.pcv : t.pcv[i].kind = k}
    IN  IF at = {} THEN <<>> ELSE t.pcv[CHOOSE i \in at : \A j \in at : i <= j].ents

\* FuncInfo: frame and argument sizes, the pc-value tables, the inline tree.
FuncTables(m, c, st, x) ==
    LET t == x.tab
        k == x.key
        n == t.size
        up == pcTable(t, PCUnsafePoint)
        ft == pcTable(t, PCFile)
        lt == pcTable(t, PCLine)
        it == pcTable(t, PCInlIndex)
        real == ft # <<>> /\ lt # <<>>
        gf == [i \in DOMAIN ft |-> [pc |-> ft[i].pc, val |-> goFile(c, st, ft[i].val)]]
        sp == IF pcTable(t, PCSPDelta) = <<>> THEN One(t.frame) ELSE pcTable(t, PCSPDelta)
        idx == IF k \in DOMAIN st.idx THEN st.idx[k] ELSE <<>>
        inl == real /\ it # <<>> /\ t.inl # <<>>
        l1 == FoldLeft(LAMBDA a, q : Tab(m, a, k, q[1], q[2], q[3]), st.l,
                <<<<"Pcsp", n, sp>>, <<"Pcdata0", IF up = <<>> THEN 0 ELSE n, up>>,
                  <<"Pcdata1", n, idx>>, <<"Pcfile", n, IF real THEN gf ELSE One(1)>>,
                  <<"Pcline", n, IF real THEN lt ELSE One(1)>>>>
                \o IF inl THEN <<<<"Pcinline", n, it>>>> ELSE <<>>)
        f == G!Sym(l1, k).fn
        tree == [i \in DOMAIN t.inl |-> [parent |-> t.inl[i].parent,
                   file |-> fileIdx(c, st, Min({t.inl[i].file, Len(FileNames(c.o)) - 1})),
                   line |-> t.inl[i].line,
                   func |-> inlSym(c, t.inl[i].func), ppc |-> t.inl[i].ppc]]
    IN  [st EXCEPT !.l = G!SetSym(l1, k, [G!Sym(l1, k) EXCEPT
            !.nosplit = "nosplit" \in t.flags,
            !.fn = [f EXCEPT !.locals = t.frame, !.args = t.args,
                !.start = IF t.line # 0 THEN t.line ELSE @,
                !.pcdata = <<G!Part(k, "Pcdata0"), G!Part(k, "Pcdata1")>>,
                !.pcsp = G!Part(k, "Pcsp"), !.pcfile = G!Part(k, "Pcfile"),
                !.pcline = G!Part(k, "Pcline"),
                !.files = IF real THEN {g.val : g \in Range(gf)} ELSE @,
                !.inl = IF real THEN tree ELSE @]])]

\* Functions in the order of the code loop: by section, then by offset.
InCodeOrder(c) ==
    LET secs == Ascending({x.sec : x \in Fns(c)})
        At(sec, off) == CHOOSE x \in BySec(c, sec) : x.off = off
        Sec(sec) == LET offs == Ascending({x.off : x \in BySec(c, sec)})
                    IN  [k \in DOMAIN offs |-> At(sec, offs[k])]
    IN  Cat([k \in DOMAIN secs |-> Sec(secs[k])])

---------------------------------------------------------------------------
(* One program: its units are compiled one after the other (goc go), each  *)
(* by convert.Main.  A program is [arch, meta, units, bds, twins]: bds[i]  *)
(* are the tables the back end wrote for unit i, and twins is TRUE when    *)
(* unit 2 is unit 1 compiled again, for Diff.                              *)

VARIABLES prog, n, stage, conv, st, objs
vars == <<prog, n, stage, conv, st, objs>>

NewSt == [l |-> G!NewLink, dataSym |-> <<>>, secSym |-> <<>>, got |-> <<>>, idx |-> <<>>,
          stubs |-> <<>>]
NoConv == [ok |-> FALSE]

Begin == n = 1 /\ stage = "open" /\ conv = NoConv /\ st = NewSt /\ objs = <<>>

Init == prog \in Programs /\ Begin

unit == prog.units[n]
Fatal == stage' = "failed" /\ UNCHANGED <<prog, n, conv, st, objs>>

\* Main up to newConverter: the release must have a profile, the container
\* must be readable and verified, state the release's facts and have its
\* stack checks.
Accepts(o, e) ==
    /\ prog.meta.adjustsFP
    /\ ~o.nil
    /\ Verify(o, e) = {}
    /\ o.profile \in DOMAIN ProfileArch /\ ProfileArch[o.profile] = prog.arch
    /\ "checks" \in o.flags
Open ==
    /\ stage = "open"
    /\ \E secs \in {Container(unit, prog.bds[n])}, e \in {Elf(unit)} :
       \E o \in {Parse(secs)} :
       \E c \in {newConverter(unit.pkg, o, e, prog.arch, unit.libcalls)} :
          IF Accepts(o, e) /\ c.ok
          THEN /\ conv' = c
               /\ st' = [NewSt EXCEPT !.l = FileTable(o, @)]
               /\ stage' = "data"
               /\ UNCHANGED <<prog, n, objs>>
          ELSE Fatal

\* Every later step either goes on or ends the program with an error.
Step(from, to, new) ==
    /\ stage = from
    /\ IF new.l.err = "ok"
       THEN stage' = to /\ st' = new /\ UNCHANGED <<prog, n, conv, objs>>
       ELSE Fatal

EmitDataStep == Step("data", "text", emitData(conv, st))

\* TEXT symbols, FUNCDATA and stubs; Flush; then the stubs' tables.
TextOf(c, s0) ==
    LET s1 == FoldLeft(LAMBDA a, x : EmitText(c, a, x), s0, c.fns)
    IN  FoldLeft(LAMBDA a, x : FoldLeft(LAMBDA b, i : AddStub(c, b, i), a, x.tab.inl), s1, c.fns)
FlushOf(m, c, s0) ==
    LET s1 == [s0 EXCEPT !.l = G!Flush(m, c.pkg, @)]
    IN  FoldLeft(LAMBDA a, s : FillStub(m, a, s), s1, s1.stubs)
TextStep ==
    LET s1 == TextOf(conv, st)
    IN  Step("text", "code", IF s1.l.err = "ok" THEN FlushOf(prog.meta, conv, s1) ELSE s1)

\* Code and tables, function by function.
CodeStep ==
    Step("code", "write",
         FoldLeft(LAMBDA a, x : IF a.l.err # "ok" THEN a
                                ELSE LET b == TextRelocs(conv, a, x)
                                     IN  IF b.l.err # "ok" THEN b ELSE FuncTables(prog.meta, conv, b, x),
                  st, InCodeOrder(conv)))

\* The object and its symabis are written; the next unit starts.
symabis(c) == {x.key : x \in Fns(c)}
WriteStep ==
    /\ stage = "write"
    /\ objs' = Append(objs, [obj |-> G!WriteObj(prog.meta, st.l), abis |-> symabis(conv)])
    /\ conv' = NoConv /\ st' = NewSt
    /\ IF n < Len(prog.units) THEN n' = n + 1 /\ stage' = "open"
       ELSE n' = n /\ stage' = "done"
    /\ UNCHANGED prog

Finished == stage \in {"done", "failed"} /\ UNCHANGED vars

Next == Open \/ EmitDataStep \/ TextStep \/ CodeStep \/ WriteStep \/ Finished
Spec == Init /\ [][Next]_vars
=============================================================================
