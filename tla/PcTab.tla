------------------------------- MODULE PcTab -------------------------------
(***************************************************************************)
(* internal/convert/pctab.go: the plain (pc, value) tables of a .gocobj    *)
(* become Go pc-value tables, and a .goc.gcmaps record becomes the two     *)
(* stack map blobs with the table of their indices.                        *)
(*                                                                         *)
(* A table is a sequence of entries [pc, val]; an encoded table is a       *)
(* sequence of integers, one per varint: value delta, pc delta, ..., 0.    *)
(* How a varint is laid out in bytes is left out.                          *)
(***************************************************************************)
EXTENDS Integers, Sequences, SequencesExt

\* One entry while the segments are built: outside the function it is
\* dropped, at the start of the last segment it replaces that segment's
\* value, and a repeated value adds nothing.
AddSeg(size, segs, e) ==
    LET last == segs[Len(segs)]
    IN  IF e.pc < 0 \/ e.pc >= size THEN segs
        ELSE IF e.pc = last.start
             THEN [segs EXCEPT ![Len(segs)].val = e.val]
        ELSE IF e.val = last.val THEN segs
        ELSE Append(segs, [val |-> e.val, start |-> e.pc])

\* pcbytes: the runtime starts at value -1 and pc 0; pc deltas count
\* instruction quanta (minLC), rounded down.
pcbytes(minLC, size, ents) ==
    IF size <= 0 THEN <<>>
    ELSE LET segs == FoldLeft(LAMBDA s, e : AddSeg(size, s, e),
                              <<[val |-> -1, start |-> 0]>>, ents)
             End(i) == IF i < Len(segs) THEN segs[i + 1].start ELSE size
             Put(acc, i) ==
                 IF End(i) <= segs[i].start THEN acc
                 ELSE [dst |-> acc.dst \o <<segs[i].val - acc.prev,
                                (End(i) - segs[i].start) \div minLC>>,
                       prev |-> segs[i].val]
             all == FoldLeft(Put, [dst |-> <<>>, prev |-> -1],
                             [i \in 1..Len(segs) |-> i])
         IN  Append(all.dst, 0)

\* The spans [val, end] the reader of an encoded table sees.  A zero value
\* delta ends the table, except in first place (diffPCValue, and the step
\* function of Go's runtime, which reads the table the same way).
Spans(quantum, tab) ==
    LET n == Len(tab) \div 2
        stop == {i \in 2..n : tab[2 * i - 1] = 0}
        last == IF stop = {} THEN n
                ELSE (CHOOSE i \in stop : \A j \in stop : i <= j) - 1
        Next(acc, i) ==
            Append(acc, [val |-> (IF acc = <<>> THEN -1 ELSE acc[Len(acc)].val)
                                  + tab[2 * i - 1],
                         end |-> (IF acc = <<>> THEN 0 ELSE acc[Len(acc)].end)
                                  + tab[2 * i] * quantum])
    IN  FoldLeft(Next, <<>>, [i \in 1..last |-> i])

\* External: runtime.pcvalue.  NoValue is its throw "invalid pc-encoded
\* table": the pc is past the last span.
NoValue == -99
PcLookup(quantum, tab, pc) ==
    LET sp == Spans(quantum, tab)
        at == {i \in 1..Len(sp) : pc < sp[i].end}
    IN  IF at = {} THEN NoValue
        ELSE sp[CHOOSE i \in at : \A j \in at : i <= j].val

\* What the container's table says of a pc: entry i holds from its pc to
\* the next entry's, the last one to the end of the function.
PlainLookup(ents, pc) ==
    LET at == {i \in 1..Len(ents) : ents[i].pc <= pc}
    IN  IF at = {} THEN -1
        ELSE ents[CHOOSE i \in at : \A j \in at : j <= i].val

\* Mutant: bitmaps are shared by the arguments' one alone.
stackmapsByArgs(gc) ==
    LET Seen(i)  == {j \in 1..i : gc.sps[j].args = gc.sps[i].args}
        First(i) == Seen(i) = {i}
        new      == SelectSeq([i \in DOMAIN gc.sps |-> i], First)
        Idx(i)   == (CHOOSE n \in DOMAIN new : new[n] \in Seen(i)) - 1
        Blob(Map(_)) == IF new = <<>> THEN <<{}>>
                        ELSE [n \in DOMAIN new |-> Map(gc.sps[new[n]])]
    IN  [args   |-> Blob(LAMBDA sp : sp.args),
         locals |-> Blob(LAMBDA sp : sp.locals),
         idx    |-> [i \in DOMAIN gc.sps |-> [pc |-> gc.sps[i].pc - 1, val |-> Idx(i)]]]

\* stackmaps: safepoints with the same pair of bitmaps share an index, and
\* an index holds from the byte before the safepoint's return address.  A
\* blob is its bitmaps; one empty bitmap stands in for none.
stackmaps(gc) ==
    LET Pair(i)  == <<gc.sps[i].args, gc.sps[i].locals>>
        Seen(i)  == {j \in 1..i : Pair(j) = Pair(i)}
        First(i) == Seen(i) = {i}
        new      == SelectSeq([i \in DOMAIN gc.sps |-> i], First)
        Idx(i)   == (CHOOSE n \in DOMAIN new : new[n] \in Seen(i)) - 1
        Blob(Map(_)) == IF new = <<>> THEN <<{}>>
                        ELSE [n \in DOMAIN new |-> Map(gc.sps[new[n]])]
    IN  [args   |-> Blob(LAMBDA sp : sp.args),
         locals |-> Blob(LAMBDA sp : sp.locals),
         idx    |-> [i \in DOMAIN gc.sps |-> [pc |-> gc.sps[i].pc - 1, val |-> Idx(i)]]]

\* External: runtime.getStackMap.  The bitmap of a frame whose return
\* address is ret: index looked up one byte before it, -1 meaning 0.
GetStackMap(quantum, idxTab, blob, ret) ==
    LET v == PcLookup(quantum, idxTab, ret - 1)
        i == IF v = -1 THEN 0 ELSE v
    IN  IF v = NoValue \/ i >= Len(blob) THEN {NoValue} ELSE blob[i + 1]
=============================================================================
