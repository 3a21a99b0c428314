------------------------------ MODULE GocVerify ------------------------------
(***************************************************************************)
(* internal/gocobj verify.go and the ELF half of read.go: what a parsed    *)
(* .gocobj must satisfy before it is converted.                            *)
(*                                                                         *)
(* An ELF object e is [machine, secs, syms].  A section is [name, flags    *)
(* (a subset of {"alloc", "exec", "write"}), nobits, size, bytes, relas];  *)
(* a relocation entry [off, type, sym, add] names a symbol by its index, 0 *)
(* for none; a symbol is [name, type, bind, sec, value, size], sec = 0     *)
(* when it is undefined.                                                   *)
(***************************************************************************)
EXTENDS GocObj

IsFunc(y) == y.type = "func"
IsExec(e, sec) == sec \in 1..Len(e.secs) /\ "exec" \in e.secs[sec].flags

\* Parse's Symbols map: the last of several symbols of one name is kept, with
\* their number.
SymOf(e, name) ==
    LET at == {i \in 1..Len(e.syms) :
                 e.syms[i].name = name /\ name # NoName
                 /\ e.syms[i].type \notin {"section", "file"}}
    IN  IF at = {} THEN [count |-> 0, func |-> FALSE, defined |-> FALSE, size |-> 0]
        ELSE LET y == e.syms[CHOOSE i \in at : \A j \in at : j <= i]
             IN  [count |-> Cardinality(at), func |-> IsFunc(y),
                  defined |-> y.sec # 0, size |-> y.size]

Rels(e) ==
    UNION {{[sec |-> s, r |-> e.secs[s].relas[k]] : k \in DOMAIN e.secs[s].relas} :
             s \in DOMAIN e.secs}

\* elfCallRelocs: the name the ELF relocation at func+off refers to, as the
\* set of its answers (empty: no such relocation).  A section-relative
\* reference names the function at that offset.
ElfCallReloc(e, func, off) ==
    LET x86 == e.machine = "amd64"
        Funcs(sec, value) == {i \in DOMAIN e.syms : e.syms[i].sec = sec
                                 /\ IsFunc(e.syms[i]) /\ e.syms[i].value = value}
        NameOf(r) ==
            LET y  == e.syms[r.sym]
                at == Funcs(y.sec, y.value + r.add + IF x86 THEN 4 ELSE 0)
            IN  IF y.type # "section" THEN y.name
                ELSE IF at = {} THEN NoName
                ELSE e.syms[CHOOSE i \in at : \A j \in at : j <= i].name
        Here(q) == \E y \in Range(e.syms) :
                     /\ y.sec = q.sec /\ IsFunc(y) /\ y.name = func
                     /\ q.r.off - y.value = off /\ off < y.size
    IN  {NameOf(q.r) : q \in {q \in Rels(e) :
            /\ IsExec(e, q.sec) /\ q.r.sym # 0 /\ Here(q)
            /\ q.r.type \in IF x86 THEN {"PLT32", "PC32"} ELSE {"CALL26", "JUMP26"}}}

\* hasStackCheck: the tables say that the code from pc 0 is the check.
hasStackCheck(f) ==
    LET First(k, v) == \E t \in Range(f.pcv) :
            t.kind = k /\ t.ents # <<>> /\ t.ents[1] = [pc |-> 0, val |-> v]
    IN  First(PCSPDelta, 0) /\ First(PCUnsafePoint, -2)

---------------------------------------------------------------------------
(* Verify returns every violation it finds; here, the set of the rules     *)
(* that are violated.  A file is accepted when the set is empty.           *)

Rule(name, ok) == IF ok THEN {} ELSE {name}

\* A name a record uses: one ELF symbol.
symOk(e, name) == name # NoName /\ SymOf(e, name).count = 1

Increasing(s) == \A i \in 2..Len(s) : s[i].pc > s[i - 1].pc

\* The largest SP depth the tables show: the morestack call's map covers the
\* cold block's saves too.
MaxSP(f) ==
    LET deltas == {x.val : x \in UNION {Range(t.ents) :
                     t \in {t \in Range(f.pcv) : t.kind = PCSPDelta}}}
    IN  CHOOSE m \in deltas \cup {f.frame} :
            \A d \in deltas \cup {f.frame} : m >= d

\* One pc-value table of function f in file o.
VerifyTable(o, f, t) ==
    Rule("file value", t.kind = PCFile =>
            \A x \in Range(t.ents) : x.val \in 0..(Len(o.files) - 1))
    \cup Rule("inl value", t.kind = PCInlIndex =>
            \A x \in Range(t.ents) : x.val \in -1..(Len(f.inl) - 1))
    \cup Rule("pc kind", t.kind \in PCKinds)
    \cup Rule("pc order", (t.ents # <<>> => t.ents[1].pc = 0) /\ Increasing(t.ents))
    \cup Rule("pc range", \A x \in Range(t.ents) : f.size > 0 => x.pc < f.size)

VerifyGC(f) ==
    IF f.gc.nil THEN {}
    ELSE Rule("locals fit", f.gc.nlocals * PtrSize <= MaxSP(f))
         \cup Rule("safepoint range", \A s \in Range(f.gc.sps) : s.pc \in 1..f.size)
         \cup Rule("safepoint order", Increasing(f.gc.sps))

VerifyInl(o, f) ==
    Rule("inl", \A j \in 1..Len(f.inl) :
            /\ f.inl[j].parent \in -1..(j - 2)
            /\ f.inl[j].file < Len(o.files)
            /\ f.size > 0 => f.inl[j].ppc < f.size)

VerifyFunc(o, e, f) ==
    Rule("func symbol", symOk(e, f.name))
    \cup Rule("func defined", SymOf(e, f.name).count > 0 =>
            LET y == SymOf(e, f.name)
            IN  y.func /\ y.defined /\ y.size = f.size)
    \cup Rule("listed twice",
            Cardinality({i \in DOMAIN o.funcs : o.funcs[i].name = f.name}) = 1)
    \cup Rule("file index", IF o.files = <<>> THEN f.file = 0 ELSE f.file < Len(o.files))
    \cup Rule("abi", f.abi \in 0..1)
    \cup Rule("record start", ~f.pcvBad /\ ~f.gcBad)
    \cup VerifyInl(o, f)
    \cup UNION {VerifyTable(o, f, t) : t \in Range(f.pcv)}
    \cup VerifyGC(f)
    \cup Rule("stack check",
            ("checks" \in o.flags /\ "check" \in f.flags /\ o.profile \in DOMAIN ProfileArch)
               => hasStackCheck(f))

FuncNamed(o, name) == {i \in DOMAIN o.funcs : o.funcs[i].name = name}

VerifyReloc(o, e, r) ==
    LET own == FuncNamed(o, r.func)
        f   == o.funcs[CHOOSE i \in own : \A j \in own : j <= i]
    IN  Rule("reloc func", own # {})
        \cup Rule("reloc range", own # {} => r.off + r.width <= f.size)
        \cup Rule("reloc width", IF r.kind = RCallIndirectMark THEN r.width \in 1..15
                                 ELSE r.width \in {1, 2, 4, 8})
        \cup Rule("reloc kind", r.kind \in RelocKinds)
        \cup Rule("reloc target", r.kind # RCallIndirectMark => symOk(e, r.target))
        \cup Rule("reloc elf", \A t \in ElfCallReloc(e, r.func, r.off) : t = r.target)
        \cup Rule("reloc gc", ("safepoint" \in r.flags /\ own # {}) =>
                ~f.gc.nil /\ \E s \in Range(f.gc.sps) : s.pc = r.off + r.width)

VerifyWrapper(o, e, w) ==
    LET own == FuncNamed(o, w.sym)
    IN  Rule("wrapper func", own # {} /\ \A i \in own : o.funcs[i].kind = 1)
        \cup Rule("wrapper target", symOk(e, w.target))
        \cup Rule("wrapper abi", w.from <= 2 /\ w.to <= 2)

Verify(o, e) ==
    Rule("profile", o.profile \in DOMAIN ProfileArch)
    \cup Rule("arch", /\ o.arch \in {"amd64", "arm64"}
                      /\ o.profile \in DOMAIN ProfileArch => ProfileArch[o.profile] = o.arch)
    \cup UNION {VerifyFunc(o, e, f) : f \in Range(o.funcs)}
    \cup UNION {VerifyWrapper(o, e, w) : w \in Range(o.wrappers)}
    \cup UNION {Rule("stackmap", \E i \in FuncNamed(o, s.func) : s.off < o.funcs[i].size) :
                  s \in Range(o.stackmaps)}
    \cup UNION {VerifyReloc(o, e, r) : r \in Range(o.relocs)}
    \cup UNION {Rule("data", symOk(e, d.name) /\ d.nbits * PtrSize <= d.size + PtrSize - 1) :
                  d \in Range(o.data)}
=============================================================================
