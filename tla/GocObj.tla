------------------------------- MODULE GocObj -------------------------------
(***************************************************************************)
(* internal/gocobj: the .goc.* sections of a .gocobj, how they are written *)
(* (Builder.Sections, and the thunk records lower appends), read (Parse)   *)
(* and checked (Verify).                                                   *)
(*                                                                         *)
(* A section is a sequence of tokens, one per encoded field: the values    *)
(* here all fit one byte of a varint.  A flag word or a bitmap byte is the *)
(* set of its bits.  A name is the tuple of its dot-separated parts and    *)
(* one token wide, so that an offset in .goc.strtab is exact: "" at 0,     *)
(* string i at 2i-1 with its NUL at 2i.  FuncID, the producer, alignments  *)
(* and colour bytes are not told apart and left out.                       *)
(***************************************************************************)
EXTENDS Integers, Sequences, SequencesExt, FiniteSets

CONSTANTS ProfileArch   \* profile name -> architecture (abi.go)

Major == 1
PtrSize == 8
RelocKinds == 1..11
RCall == 1
RCallIndirectMark == 2
PCSPDelta == 1
PCFile == 2
PCLine == 3
PCUnsafePoint == 4
PCInlIndex == 5
PCKinds == 1..6
lineKind(k) == k \in {PCFile, PCLine, PCInlIndex}

NoName == <<>>

\* A finite set of naturals in ascending order.
Ascending(S) == IF S = {} THEN <<>>
                ELSE SelectSeq([i \in 1..(Max(S) + 1) |-> i - 1], LAMBDA x : x \in S)

\* nil for the tables a function does not have.
NoGC == [nargs |-> 0, nlocals |-> 0, sps |-> <<>>, nil |-> TRUE]

---------------------------------------------------------------------------
(* Writing. *)

\* record: the length of the body, then the body.
record(body) == <<Len(body)>> \o body

Cat(seqs) == FlattenSeq(seqs)

\* The offset at which record i of a list of bodies starts.
StartOf(bodies, i) == Len(Cat([j \in 1..(i - 1) |-> record(bodies[j])]))

BitmapBytes(n) == (n + 7) \div 8
PutBits(n, set) == [i \in 1..BitmapBytes(n) |-> set]

\* The strings in the order Sections first uses them; the empty one is not stored.
Intern(uses) ==
    LET first == SelectSeq([i \in DOMAIN uses |-> i],
                           LAMBDA i : uses[i] # NoName /\ \A j \in 1..(i - 1) : uses[j] # uses[i])
    IN  [k \in DOMAIN first |-> uses[first[k]]]
RefOf(strs, s) ==
    IF s = NoName THEN 0 ELSE 2 * (CHOOSE i \in 1..Len(strs) : strs[i] = s) - 1

FuncStrings(f) == [i \in 1..Len(f.inl) |-> f.inl[i].func] \o <<f.name>>
BuilderStrings(bd) ==
    Intern(<<bd.profile>> \o bd.files
           \o Cat([i \in 1..Len(bd.funcs) |-> FuncStrings(bd.funcs[i])])
           \o Cat([i \in 1..Len(bd.relocs) |->
                     <<bd.relocs[i].func, bd.relocs[i].target>>])
           \o [i \in 1..Len(bd.stackmaps) |-> bd.stackmaps[i].func]
           \o [i \in 1..Len(bd.data) |-> bd.data[i].name])

PcvBody(ts) ==
    <<Len(ts)>> \o Cat([i \in 1..Len(ts) |->
        <<ts[i].kind, Len(ts[i].ents)>>
        \o Cat([j \in 1..Len(ts[i].ents) |->
                  <<ts[i].ents[j].pc, ts[i].ents[j].val>>])])
GcBody(g) ==
    <<g.nargs, g.nlocals, Len(g.sps)>> \o Cat([i \in 1..Len(g.sps) |->
        <<g.sps[i].pc>> \o PutBits(g.nargs, g.sps[i].args)
        \o PutBits(g.nlocals, g.sps[i].locals) \o <<0>>])
InlBody(strs, ns) ==
    <<Len(ns)>> \o Cat([i \in 1..Len(ns) |->
        <<ns[i].parent, ns[i].file, ns[i].line, RefOf(strs, ns[i].func),
          ns[i].ppc, ns[i].sline>>])
FuncBody(strs, minor, f, pcvOff, gcOff, inlOff) ==
    <<RefOf(strs, f.name), f.size, f.frame, f.args, f.abi, f.kind, f.flags,
      f.file, f.line, pcvOff, gcOff, inlOff>>
    \o (IF minor >= 1 THEN <<f.regs>> ELSE <<>>)
    \o (IF minor >= 2 THEN <<Len(f.slots)>> \o f.slots ELSE <<>>)
RelocBody(strs, r) ==
    <<RefOf(strs, r.func), r.off, r.width, r.kind, RefOf(strs, r.target),
      r.add, r.flags>>
StackmapBody(strs, s) ==
    <<RefOf(strs, s.func), s.off, s.id, Len(s.locs)>>
    \o Cat([i \in 1..Len(s.locs) |-> <<s.locs[i].type, s.locs[i].off>>])
DataBody(strs, d) ==
    <<RefOf(strs, d.name), d.size, d.flags, d.nbits>> \o PutBits(d.nbits, d.bits)

\* Builder.Sections.  A function's offsets are one past the start of its
\* record, 0 for none.
Sections(bd) ==
    LET strs == BuilderStrings(bd)
        fs   == bd.funcs
        Has(P(_)) == SelectSeq([i \in 1..Len(fs) |-> i], LAMBDA i : P(fs[i]))
        pcv  == Has(LAMBDA f : f.pcv # <<>>)
        gcm  == Has(LAMBDA f : ~f.gc.nil)
        inl  == Has(LAMBDA f : f.inl # <<>>)
        pcvB == [k \in 1..Len(pcv) |-> PcvBody(fs[pcv[k]].pcv)]
        gcB  == [k \in 1..Len(gcm) |-> GcBody(fs[gcm[k]].gc)]
        inlB == [k \in 1..Len(inl) |-> InlBody(strs, fs[inl[k]].inl)]
        Off(list, bodies, i) ==
            IF \E k \in 1..Len(list) : list[k] = i
            THEN StartOf(bodies, CHOOSE k \in 1..Len(list) : list[k] = i) + 1
            ELSE 0
        All(bodies) == Cat([k \in 1..Len(bodies) |-> record(bodies[k])])
    IN  [header   |-> [major |-> Major, minor |-> bd.minor, arch |-> bd.arch,
                       flags |-> bd.flags, profile |-> RefOf(strs, bd.profile)],
         strtab   |-> strs,
         files    |-> All([i \in 1..Len(bd.files) |-> <<RefOf(strs, bd.files[i])>>]),
         pcvalue  |-> All(pcvB), gcmaps |-> All(gcB), inltree |-> All(inlB),
         funcs    |-> All([i \in 1..Len(fs) |->
                        FuncBody(strs, bd.minor, fs[i], Off(pcv, pcvB, i),
                                 Off(gcm, gcB, i), Off(inl, inlB, i))]),
         relocs   |-> All([i \in 1..Len(bd.relocs) |-> RelocBody(strs, bd.relocs[i])]),
         stackmaps |-> All([i \in 1..Len(bd.stackmaps) |->
                        StackmapBody(strs, bd.stackmaps[i])]),
         wrappers |-> <<>>,
         data     |-> All([i \in 1..Len(bd.data) |-> DataBody(strs, bd.data[i])])]

\* emitWrapperTables: what lower appends for the Go ABI thunks.  Its strings
\* follow the first writer's, and its record offsets count from the start of
\* the joined section.  w is [name, impl, size, frame, args, pcv, gc, slots,
\* spills, stackptrs, call]; call is the offset of the call's relocated field.
AddWrapper(a64, secs, w) ==
    LET strs == Intern(secs.strtab \o <<w.name, w.impl>>
                       \o [i \in 1..Len(w.spills) |-> w.spills[i].reg])
        fb == FuncBody(strs, 2, [name |-> w.name, size |-> w.size,
                  frame |-> w.frame, args |-> w.args, abi |-> 1, kind |-> 1,
                  flags |-> {"nosplit", "fp"}, file |-> 0, line |-> 0,
                  regs |-> 0, slots |-> w.slots],
                  Len(secs.pcvalue) + 1, Len(secs.gcmaps) + 1, 0)
        wb == <<RefOf(strs, w.name), RefOf(strs, w.impl), 1, 2, Len(w.spills)>>
              \o Cat([i \in 1..Len(w.spills) |->
                        <<RefOf(strs, w.spills[i].reg), w.spills[i].off,
                          w.spills[i].size, w.spills[i].ptr>>])
              \o <<Len(w.stackptrs)>> \o w.stackptrs
        rb == RelocBody(strs, [func |-> w.name, off |-> w.call, width |-> 4,
                  kind |-> IF a64 THEN 11 ELSE RCall, target |-> w.impl,
                  add |-> IF a64 THEN 0 ELSE -4, flags |-> {}])
    IN  [secs EXCEPT !.strtab = strs,
                     !.pcvalue = @ \o record(PcvBody(w.pcv)),
                     !.gcmaps = @ \o record(GcBody(w.gc)),
                     !.funcs = @ \o record(fb),
                     !.wrappers = @ \o record(wb),
                     !.relocs = @ \o record(rb)]

---------------------------------------------------------------------------
(* Reading. *)

\* records: a section split at its length prefixes, each record with the
\* offset it starts at; "bad" when a length runs past the section.
records(b) ==
    LET from[off \in 0..Len(b)] ==
          IF off = Len(b) THEN [bad |-> FALSE, recs |-> <<>>]
          ELSE LET end == off + 1 + b[off + 1]
               IN  IF end > Len(b) THEN [bad |-> TRUE, recs |-> <<>>]
                   ELSE [from[end] EXCEPT !.recs = <<[off |-> off, body |-> SubSeq(b, off + 2, end)]>> \o @]
    IN  from[0]

\* str: a reference into .goc.strtab; an offset past it is an error unless 0.
BadRef(strs, off) == off > 2 * Len(strs) /\ off # 0
str(strs, off) ==
    IF off = 0 \/ off > 2 * Len(strs) \/ off % 2 = 0 THEN NoName
    ELSE strs[(off + 1) \div 2]

\* A line-kind row that shares its pc with the row before replaces it: the
\* earlier one belongs to an instruction that emits no bytes.
AddRow(kind, ents, e) ==
    IF ents # <<>> /\ ents[Len(ents)].pc = e.pc /\ lineKind(kind)
    THEN [ents EXCEPT ![Len(ents)] = e]
    ELSE Append(ents, e)

ReadPcv(r) ==
    LET Table(acc, i) ==
            LET p == acc.p
            IN  IF acc.short \/ p + 1 > Len(r) \/ p + 1 + 2 * r[p + 1] > Len(r)
                THEN [acc EXCEPT !.short = TRUE]
                ELSE [p |-> p + 2 + 2 * r[p + 1], short |-> FALSE,
                      ts |-> Append(acc.ts,
                        [kind |-> r[p],
                         ents |-> FoldLeft(LAMBDA es, j : AddRow(r[p], es,
                             [pc |-> r[p + 2 * j], val |-> r[p + 2 * j + 1]]),
                             <<>>, [j \in 1..r[p + 1] |-> j])])]
    IN  FoldLeft(Table, [p |-> 2, short |-> Len(r) < 1, ts |-> <<>>],
                 [i \in 1..(IF Len(r) < 1 THEN 0 ELSE r[1]) |-> i])

ReadGc(r) ==
    LET na == BitmapBytes(r[1])
        nl == BitmapBytes(r[2])
        Bits(p, n) == IF n = 0 THEN {} ELSE r[p]
        Sp(acc, i) ==
            LET p == acc.p
            IN  IF acc.short \/ p + na + nl + 1 > Len(r)
                THEN [acc EXCEPT !.short = TRUE]
                ELSE [p |-> p + na + nl + 2, short |-> FALSE,
                      sps |-> Append(acc.sps, [pc |-> r[p], args |-> Bits(p + 1, na),
                                               locals |-> Bits(p + 1 + na, nl)])]
        all == FoldLeft(Sp, [p |-> 4, short |-> Len(r) < 3, sps |-> <<>>],
                        [i \in 1..r[3] |-> i])
    IN  [short |-> all.short,
         gc |-> [nargs |-> r[1], nlocals |-> r[2], sps |-> all.sps, nil |-> FALSE]]

ReadInl(strs, r) ==
    [i \in 1..r[1] |-> LET p == 6 * i - 4
        IN [parent |-> r[p], file |-> r[p + 1], line |-> r[p + 2],
            func |-> str(strs, r[p + 3]), ppc |-> r[p + 4], sline |-> r[p + 5]]]

\* The record of a list that starts at off, found by its offset field.
AtOff(recs, off) == {i \in 1..Len(recs) : recs[i].off = off - 1}
ReadFunc(strs, pcvs, gcs, inls, r) ==
    LET At(recs, off) == CHOOSE i \in AtOff(recs, off) : TRUE
        Found(recs, off) == off # 0 /\ AtOff(recs, off) # {}
    IN  [name |-> str(strs, r[1]), size |-> r[2], frame |-> r[3], args |-> r[4],
         abi |-> r[5], kind |-> r[6], flags |-> r[7], file |-> r[8], line |-> r[9],
         regs |-> IF Len(r) > 12 THEN r[13] ELSE 0,
         slots |-> IF Len(r) > 13 THEN SubSeq(r, 15, 14 + r[14]) ELSE <<>>,
         pcv |-> IF Found(pcvs, r[10]) THEN ReadPcv(pcvs[At(pcvs, r[10])].body).ts
                 ELSE <<>>,
         gc  |-> IF Found(gcs, r[11]) THEN ReadGc(gcs[At(gcs, r[11])].body).gc
                 ELSE NoGC,
         inl |-> IF Found(inls, r[12]) THEN ReadInl(strs, inls[At(inls, r[12])].body)
                 ELSE <<>>,
         pcvBad |-> r[10] # 0 /\ AtOff(pcvs, r[10]) = {},
         gcBad  |-> r[11] # 0 /\ AtOff(gcs, r[11]) = {}]
ReadReloc(strs, r) ==
    [func |-> str(strs, r[1]), off |-> r[2], width |-> r[3], kind |-> r[4],
     target |-> str(strs, r[5]), add |-> r[6], flags |-> r[7]]
ReadStackmap(strs, r) ==
    [func |-> str(strs, r[1]), off |-> r[2], id |-> r[3],
     locs |-> [i \in 1..r[4] |-> [type |-> r[2 * i + 3], off |-> r[2 * i + 4]]]]
ReadWrapper(strs, r) ==
    [sym |-> str(strs, r[1]), target |-> str(strs, r[2]), from |-> r[3], to |-> r[4],
     spills |-> [i \in 1..r[5] |->
        [reg |-> str(strs, r[4 * i + 2]), off |-> r[4 * i + 3],
         size |-> r[4 * i + 4], ptr |-> r[4 * i + 5]]],
     stackptrs |-> SubSeq(r, 4 * r[5] + 7, Len(r))]
ReadData(strs, r) ==
    [name |-> str(strs, r[1]), size |-> r[2], flags |-> r[3], nbits |-> r[4],
     bits |-> IF BitmapBytes(r[4]) = 0 THEN {} ELSE r[5]]

\* Parse.  "nil" stands for a refused file: an unknown major version, a
\* record that runs past its section, a short record, or a reference past
\* the string table.
Refused == [nil |-> TRUE]
\* The sections that hold records.
Tables == {"files", "pcvalue", "gcmaps", "inltree", "funcs", "relocs",
           "stackmaps", "wrappers", "data"}
\* A record that ends before its last field.
Short(t, r) ==
    CASE t = "files"     -> Len(r) < 1
      [] t = "pcvalue"   -> ReadPcv(r).short
      [] t = "gcmaps"    -> Len(r) < 3 \/ ReadGc(r).short
      [] t = "inltree"   -> Len(r) < 1 \/ Len(r) < 1 + 6 * r[1]
      [] t = "funcs"     -> Len(r) < 12 \/ (Len(r) > 13 /\ Len(r) < 14 + r[14])
      [] t = "relocs"    -> Len(r) < 7
      [] t = "stackmaps" -> Len(r) < 4 \/ Len(r) < 4 + 2 * r[4]
      [] t = "wrappers"  -> Len(r) < 5 \/ Len(r) < 6 + 4 * r[5] \/ Len(r) < 6 + 4 * r[5] + r[6 + 4 * r[5]]
      [] t = "data"      -> Len(r) < 4 \/ Len(r) < 4 + BitmapBytes(r[4])
\* The fields of a record that refer to .goc.strtab.
StrFields(t, r) ==
    CASE t \in {"files", "funcs", "stackmaps", "data"} -> {1}
      [] t = "relocs"   -> {1, 5}
      [] t = "inltree"  -> {6 * i - 1 : i \in 1..r[1]}
      [] t = "wrappers" -> {1, 2} \cup {4 * i + 2 : i \in 1..r[5]}
      [] OTHER -> {}
\* recs gives the records of each of them.
ParseRecords(secs, recs) ==
    LET strs == secs.strtab
        Of(t) == recs[t].recs
        Some(P(_, _)) == \E t \in Tables : \E x \in Range(Of(t)) : P(t, x.body)
        Map(t, Op(_)) == [i \in DOMAIN Of(t) |-> Op(Of(t)[i].body)]
    IN  IF secs.header.major # Major \/ \E t \in Tables : recs[t].bad THEN Refused
        ELSE IF \/ Some(Short) \/ BadRef(strs, secs.header.profile)
                \/ Some(LAMBDA t, r : \E k \in StrFields(t, r) : BadRef(strs, r[k]))
             THEN Refused
        ELSE [nil |-> FALSE, minor |-> secs.header.minor, arch |-> secs.header.arch,
              flags |-> secs.header.flags, profile |-> str(strs, secs.header.profile),
              files |-> Map("files", LAMBDA r : str(strs, r[1])),
              funcs |-> Map("funcs", LAMBDA r : ReadFunc(strs, Of("pcvalue"),
                              Of("gcmaps"), Of("inltree"), r)),
              relocs |-> Map("relocs", LAMBDA r : ReadReloc(strs, r)),
              stackmaps |-> Map("stackmaps", LAMBDA r : ReadStackmap(strs, r)),
              wrappers |-> Map("wrappers", LAMBDA r : ReadWrapper(strs, r)),
              data |-> Map("data", LAMBDA r : ReadData(strs, r))]
Parse(secs) == ParseRecords(secs, [t \in Tables |-> records(secs[t])])
=============================================================================
