------------------------------ MODULE GocLower ------------------------------
(***************************************************************************)
(* From a C translation unit to its .gocobj: the renaming of internal/     *)
(* lower (runGoABI), the ABI rule of internal/pipeline (backend), and, as  *)
(* an external definition, what goc-llc and llvm-mc make of the result.    *)
(*                                                                         *)
(* A unit u is [id, arch, pkg, file, libcalls, abi0, fns, decls, rodata,   *)
(* data, bss].  fns: the definitions [name, elig (analyzeSignature gives   *)
(* it a plan), static, items, tabs].  decls: the declared functions        *)
(* [name, elig].  An item is one reference of the body, [kind, to, off].   *)
(* data: the globals [name, static, words]; a word is an item too.         *)
(* rodata: its length and its jump tables [off, fn, cases].  bss: a zeroed *)
(* global.                                                                 *)
(***************************************************************************)
EXTENDS GocVerify, TLC

---------------------------------------------------------------------------
(* runGoABI and the backend's ABI rule. *)

\* The definitions that get a Go ABI thunk; the others stay SysV only.  The
\* signature rules refuse a static function.
Thunked(u) == SelectSeq(u.fns, LAMBDA f : f.elig /\ ~f.static)
ThunkedNames(u) == {f.name : f \in Range(Thunked(u))}
\* Definitions with a thunk and declarations with a plan are renamed in the
\* whole module, so C calls C bodies directly.
Renamed(u) == ThunkedNames(u) \cup {d.name : d \in {d \in Range(u.decls) : d.elig}}
IrName(u, name) == IF name \in Renamed(u) THEN Append(name, "impl") ELSE name

\* ABI0 when thunks own the ABIInternal names, or when asked for.  The code looks
\* for the text "name" in goabi.json, which each thunk's entry has.
symABI(u) == IF u.abi0 \/ Thunked(u) # <<>> THEN 0 ELSE 1

---------------------------------------------------------------------------
(* External: goc-llc and llvm-mc.  One section per function, the thunks    *)
(* together in .text with padding between them, then .rodata, .data, .bss. *)
(* Every function starts with an 8-byte prologue and ends with 8 bytes     *)
(* that no relocation touches; an item takes 8 bytes, 12 when its two      *)
(* halves are apart.                                                       *)

Width(it) == IF it.kind = "split" THEN 12 ELSE 8
ItemOff(f, k) == 8 + FoldLeft(LAMBDA a, it : a + Width(it), 0, SubSeq(f.items, 1, k - 1))
FnSize(f) == ItemOff(f, Len(f.items) + 1) + 8
ThunkSize == 16
ThunkAt(j) == 24 * (j - 1)
NFn(u) == Len(u.fns)
TextSec(u) == NFn(u) + 1
RoSec(u) == NFn(u) + 2
DataSec(u) == NFn(u) + 3
BssSec(u) == NFn(u) + 4
WordSize == 8
DataOff(u, d) == WordSize * FoldLeft(LAMBDA a, x : a + Len(x.words), 0, SubSeq(u.data, 1, d - 1))
DataSize(u) == DataOff(u, Len(u.data) + 1)

\* Byte i (from 0) of section sec of unit u.
Token(u, sec, i) == 10000 * u.id + 1000 * sec + i + 1

\* A libcall that LLVM makes up after the renaming keeps its bare name.
RefName(u, it) == IF it.kind = "lib" THEN it.to ELSE IrName(u, it.to)

\* Symbols: bodies, thunks, globals, the bss global, one section symbol per
\* section, then the undefined names.
FnIdx(u, name) == {i \in 1..NFn(u) : u.fns[i].name = name}
DataIdx(u, name) == {i \in 1..Len(u.data) : u.data[i].name = name}
Uses(u) == Cat([i \in 1..NFn(u) |-> u.fns[i].items]) \o Cat([i \in 1..Len(u.data) |-> u.data[i].words])
UndefNames(u) ==
    LET Undef(it) == /\ it.kind \notin {"str", "table", "int"}
                     /\ FnIdx(u, it.to) = {} /\ DataIdx(u, it.to) = {} /\ it.to # u.bss
        uses == SelectSeq(Uses(u), Undef)
    IN  Intern([i \in DOMAIN uses |-> RefName(u, uses[i])])
Syms(u) ==
    LET S(name, type, bind, sec, value, size) ==
            [name |-> name, type |-> type, bind |-> bind, sec |-> sec, value |-> value, size |-> size]
        th == Thunked(u)
    IN  [i \in 1..NFn(u) |-> S(IrName(u, u.fns[i].name), "func",
            IF u.fns[i].static THEN "local" ELSE "global", i, 0, FnSize(u.fns[i]))]
        \o [j \in DOMAIN th |-> S(th[j].name, "func", "global", TextSec(u), ThunkAt(j), ThunkSize)]
        \o [d \in DOMAIN u.data |-> S(u.data[d].name, "object",
              IF u.data[d].static THEN "local" ELSE "global", DataSec(u), DataOff(u, d),
              WordSize * Len(u.data[d].words))]
        \o <<S(u.bss, "object", "global", BssSec(u), 0, 8)>>
        \o [k \in 1..BssSec(u) |-> S(NoName, "section", "local", k, 0, 0)]
        \o [k \in DOMAIN UndefNames(u) |-> S(UndefNames(u)[k], "notype", "global", 0, 0, 0)]
SymAt(u, name) ==
    LET ys == Syms(u)
    IN  CHOOSE i \in DOMAIN ys : ys[i].name = name
SecSymAt(u, k) == NFn(u) + Len(Thunked(u)) + Len(u.data) + 1 + k

\* The ELF symbol and addend of a reference: a local function or datum goes
\* through its section symbol, as the assembler writes it.
ElfRef(u, it) ==
    LET loc == {i \in FnIdx(u, it.to) : u.fns[i].static}
        dat == {d \in DataIdx(u, it.to) : u.data[d].static}
    IN  CASE it.kind \in {"str", "table"} -> [sym |-> SecSymAt(u, RoSec(u)), add |-> it.off]
          [] it.kind \notin {"str", "table"} /\ loc # {} ->
                [sym |-> SecSymAt(u, CHOOSE i \in loc : TRUE), add |-> it.off]
          [] it.kind \notin {"str", "table"} /\ dat # {} ->
                [sym |-> SecSymAt(u, DataSec(u)), add |-> it.off + DataOff(u, CHOOSE d \in dat : TRUE)]
          [] OTHER -> [sym |-> SymAt(u, RefName(u, it)), add |-> it.off]

\* The relocations of an item whose bytes start at off.  By kind: the type
\* on amd64, where the others use PC32, and the low half on arm64, where the
\* others use ADD_LO12.
AmdTypes == [k \in {"call", "lib", "tail"} |-> "PLT32"] @@ "got" :> "REX_GOTPCRELX" @@ "gotx" :> "GOTPCRELX"
            @@ "goto" :> "GOTPCREL" @@ "abs" :> "32" @@ "sabs" :> "32S"
ArmLow == "ld8" :> "LDST8_LO12" @@ "ld16" :> "LDST16_LO12" @@ "ld32" :> "LDST32_LO12"
          @@ [k \in {"ld64", "split"} |-> "LDST64_LO12"] @@ "ld128" :> "LDST128_LO12"
ViaGot == {"got", "gotx", "goto"}
R(off, type, r, plus) == [off |-> off, type |-> type, sym |-> r.sym, add |-> r.add + plus]
ItemRelas(u, it, off) ==
    LET r == ElfRef(u, it)
        low == IF it.kind \in DOMAIN ArmLow THEN ArmLow[it.kind] ELSE "ADD_LO12"
    IN  IF u.arch = "amd64"
        THEN <<R(off + 4, IF it.kind \in DOMAIN AmdTypes THEN AmdTypes[it.kind] ELSE "PC32",
                 r, IF it.kind \in {"abs", "sabs"} THEN 0 ELSE -4)>>
        ELSE CASE it.kind \in {"call", "lib"} -> <<R(off + 4, "CALL26", r, 0)>>
               [] it.kind = "tail" -> <<R(off + 4, "JUMP26", r, 0)>>
               [] it.kind \in ViaGot -> <<R(off, "GOT_PAGE", r, 0), R(off + 4, "LD64_GOT_LO12", r, 0)>>
               [] OTHER -> <<R(off, "PG_HI21", r, 0), R(off + Width(it) - 4, low, r, 0)>>
FnRelas(u, f) == Cat([k \in DOMAIN f.items |-> ItemRelas(u, f.items[k], ItemOff(f, k))])
ThunkCall(u, j) ==
    R(ThunkAt(j) + 4, IF u.arch = "amd64" THEN "PLT32" ELSE "CALL26",
      [sym |-> SymAt(u, Append(Thunked(u)[j].name, "impl")), add |-> 0],
      IF u.arch = "amd64" THEN -4 ELSE 0)
\* `.long case - table` in .rodata.
TableRelas(u, t) ==
    [k \in DOMAIN t.cases |-> [off |-> t.off + 4 * (k - 1), type |-> "PC32",
        sym |-> SecSymAt(u, t.fn), add |-> t.cases[k] + 4 * (k - 1)]]
WordRelas(u) ==
    LET W(d, k) == LET it == u.data[d].words[k]
                   IN  IF it.kind = "int" THEN <<>>
                       ELSE <<R(DataOff(u, d) + WordSize * (k - 1),
                                CASE it.kind = "half" -> IF u.arch = "amd64" THEN "32" ELSE "ABS32"
                                  [] OTHER -> IF u.arch = "amd64" THEN "64" ELSE "ABS64",
                                ElfRef(u, it), 0)>>
    IN  Cat([d \in DOMAIN u.data |-> Cat([k \in DOMAIN u.data[d].words |-> W(d, k)])])

Elf(u) ==
    LET Sec(i, name, flags, size, relas) ==
            [name |-> name, flags |-> flags, nobits |-> name = <<"bss">>, size |-> size,
             bytes |-> [b \in 1..size |-> Token(u, i, b - 1)], relas |-> relas]
        th == Thunked(u)
    IN  [machine |-> u.arch, syms |-> Syms(u),
         secs |-> [i \in 1..NFn(u) |-> Sec(i, <<"text">> \o u.fns[i].name, {"alloc", "exec"},
                      FnSize(u.fns[i]), FnRelas(u, u.fns[i]))]
                  \o <<Sec(TextSec(u), <<"text">>, {"alloc", "exec"}, ThunkAt(Len(th) + 1),
                           [j \in DOMAIN th |-> ThunkCall(u, j)]),
                       Sec(RoSec(u), <<"rodata">>, {"alloc"}, u.rodata.size,
                           Cat([t \in DOMAIN u.rodata.tables |-> TableRelas(u, u.rodata.tables[t])])),
                       Sec(DataSec(u), <<"data">>, {"alloc", "write"}, DataSize(u), WordRelas(u)),
                       Sec(BssSec(u), <<"bss">>, {"alloc", "write"}, 8, <<>>)>>]

\* The tables goc-llc writes: a call is a safepoint, whose maps differ from
\* call to call.  f.tabs gives the line tables and the inline tree.
CallsOf(f) == SelectSeq([k \in DOMAIN f.items |-> k], LAMBDA k : f.items[k].kind \in {"call", "lib"})
FuncRec(u, f) ==
    LET cs == CallsOf(f)
        E(pc, v) == [pc |-> pc, val |-> v]
    IN  [name |-> IrName(u, f.name), size |-> FnSize(f), frame |-> 16, args |-> 16,
         abi |-> symABI(u), kind |-> 0, file |-> 0, line |-> 3, regs |-> 0, slots |-> <<>>,
         flags |-> {"check", "fp"} \cup IF f.static THEN {"internal"} ELSE {},
         pcv |-> <<[kind |-> PCSPDelta, ents |-> <<E(0, 0), E(4, 8), E(8, 24), E(FnSize(f) - 4, 0)>>],
                   [kind |-> PCUnsafePoint, ents |-> <<E(0, -2), E(4, -1)>>]>> \o f.tabs.pcv,
         inl |-> f.tabs.inl,
         gc |-> [nargs |-> 2, nlocals |-> 2, nil |-> FALSE,
                 sps |-> [k \in DOMAIN cs |-> [pc |-> ItemOff(f, cs[k]) + 8,
                            args |-> f.tabs.args[((k - 1) % Len(f.tabs.args)) + 1],
                            locals |-> f.tabs.locals[((k - 1) % Len(f.tabs.locals)) + 1]]]]]
CallRecs(u, f) ==
    LET cs == CallsOf(f)
    IN  [k \in DOMAIN cs |->
          [func |-> IrName(u, f.name), off |-> ItemOff(f, cs[k]) + 4, width |-> 4, kind |-> RCall,
           target |-> RefName(u, f.items[cs[k]]), add |-> -4, flags |-> {"safepoint"}]]
\* The tables of a thunk: every function here takes one pointer in a register.
Wrapper(u, j) ==
    LET f == Thunked(u)[j]
    IN  [name |-> f.name, impl |-> Append(f.name, "impl"), size |-> ThunkSize, frame |-> 8, args |-> 8,
         pcv |-> <<[kind |-> PCSPDelta, ents |-> <<[pc |-> 0, val |-> 0], [pc |-> 4, val |-> 16], [pc |-> 12, val |-> 0]>>]>>,
         gc |-> [nargs |-> 1, nlocals |-> 1, nil |-> FALSE,
                 sps |-> <<[pc |-> 8, args |-> {0}, locals |-> {}]>>],
         slots |-> <<0>>, spills |-> <<[reg |-> <<"RAX">>, off |-> 0, size |-> 8, ptr |-> 1]>>,
         stackptrs |-> <<>>, call |-> 4]

Builder(u) ==
    [minor |-> 4, arch |-> u.arch, flags |-> {"checks"}, profile |-> <<"goabi1", u.arch>>,
     files |-> <<u.file, <<"h">>>>,
     funcs |-> [i \in 1..NFn(u) |-> FuncRec(u, u.fns[i])],
     relocs |-> Cat([i \in 1..NFn(u) |-> CallRecs(u, u.fns[i])]),
     stackmaps |-> <<>>,
     data |-> [d \in DOMAIN u.data |-> [name |-> u.data[d].name, size |-> WordSize * Len(u.data[d].words),
                                         flags |-> {}, nbits |-> 0, bits |-> {}]]]
\* body.goc.s, then thunks.goc.s.
Container(u, bd) ==
    FoldLeft(LAMBDA secs, j : AddWrapper(u.arch = "arm64", secs, Wrapper(u, j)),
             Sections(bd), [j \in DOMAIN Thunked(u) |-> j])
=============================================================================
