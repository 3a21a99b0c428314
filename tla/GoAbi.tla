------------------------------- MODULE GoAbi -------------------------------
(***************************************************************************)
(* Where the parameters and results of a signature live in the Go          *)
(* register convention (ABIInternal) and in the C one (internal/lower:     *)
(* abiFor, aggregateLayout, assignParams, returnAssignment, goArgsLayout). *)
(*                                                                         *)
(* A parameter is the sequence of its scalar fields: a scalar has one.     *)
(***************************************************************************)
EXTENDS Integers, Sequences, SequencesExt

(* scalar: the bank and the size; a scalar is aligned to its size.           *)
Bank(t) == IF t \in {"float", "double"} THEN "float" ELSE "int"

Size(t) == CASE t \in {"ptr", "i64", "double"} -> 8 [] t \in {"i32", "float"} -> 4 [] t = "i8" -> 1

AlignUp(n, a) == ((n + a - 1) \div a) * a

Numbered(prefix, n) == [i \in 1 .. n |-> prefix \o ToString(i - 1)]

amd64 ==
  [arch |-> "amd64",
   goInt |-> <<"rax", "rbx", "rcx", "rdi", "rsi", "r8", "r9", "r10", "r11">>,
   goFloat |-> Numbered("xmm", 15),
   cInt |-> <<"rdi", "rsi", "rdx", "rcx", "r8", "r9">>,
   cFloat |-> Numbered("xmm", 8),
   cIntResult |-> <<"rax", "rdx">>,
   cFloatResult |-> <<"xmm0", "xmm1">>]

arm64 ==
  [arch |-> "arm64",
   goInt |-> Numbered("x", 16), goFloat |-> Numbered("d", 16),
   cInt |-> Numbered("x", 8), cFloat |-> Numbered("d", 8),
   cIntResult |-> <<"x0", "x1">>,
   cFloatResult |-> <<"d0", "d1">>]

-----------------------------------------------------------------------------
(* aggregateLayout: the offset of every field, and the size and alignment.   *)

LayOut(fields) ==
  LET put(l, t) == [offsets |-> Append(l.offsets, AlignUp(l.end, Size(t))),
                    end |-> AlignUp(l.end, Size(t)) + Size(t),
                    align |-> IF Size(t) > l.align THEN Size(t) ELSE l.align]
      l == FoldLeft(put, [offsets |-> <<>>, end |-> 0, align |-> 1], fields)
  IN [offsets |-> l.offsets, align |-> l.align, size |-> AlignUp(l.end, l.align)]

(* No two fields may share an eightbyte.                                     *)
Supported(fields) ==
  LET off == LayOut(fields).offsets
  IN \A i, j \in DOMAIN off : i # j => off[i] \div 8 # off[j] \div 8

OfBank(fields, b) == SelectSeq(fields, LAMBDA t : Bank(t) = b)

InReg(r) == [kind |-> "register", reg |-> r, off |-> 0]
OnStack(o) == [kind |-> "stack", reg |-> "", off |-> o]

(* The registers of the fields of one parameter, from the i-th integer and   *)
(* the f-th float register on.                                               *)
InRegs(fields, ints, floats, i, f) ==
  [k \in DOMAIN fields |->
     LET before == Len(OfBank(SubSeq(fields, 1, k - 1), Bank(fields[k])))
     IN InReg(IF Bank(fields[k]) = "int" THEN ints[i + before + 1] ELSE floats[f + before + 1])]

(* One convention's step for one parameter: all of it in registers, or all   *)
(* of it on the stack.  small: whether it may be in registers at all.        *)
Place(side, fields, ints, floats, small, align, slot) ==
  LET i == Len(OfBank(fields, "int"))
      f == Len(OfBank(fields, "float"))
      lay == LayOut(fields)
      base == AlignUp(side.stack, align)
  IN IF small /\ side.i + i <= Len(ints) /\ side.f + f <= Len(floats)
     THEN [side EXCEPT !.i = @ + i, !.f = @ + f,
                       !.locs = @ \o InRegs(fields, ints, floats, side.i, side.f)]
     ELSE [side EXCEPT !.stack = base + AlignUp(lay.size, slot),
                       !.locs = @ \o [k \in DOMAIN fields |-> OnStack(base + lay.offsets[k])]]

Side0 == [i |-> 0, f |-> 0, stack |-> 0, locs |-> <<>>]

GoPlace(a, side, fields) ==
  Place(side, fields, a.goInt, a.goFloat, TRUE, LayOut(fields).align, 1)

CPlace(a, side, fields) ==
  Place(side, fields, a.cInt, a.cFloat, LayOut(fields).size <= 16, 8, 8)

(* assignParams, for one more parameter: both conventions for its fields.    *)
Assigned(a, l, fields) ==
  [types |-> l.types \o fields, go |-> GoPlace(a, l.go, fields), c |-> CPlace(a, l.c, fields)]

Unassigned == [types |-> <<>>, go |-> Side0, c |-> Side0]

GoStackSize(l) == AlignUp(l.go.stack, 8)

(* outgoingBytes *)
Outgoing(l) == AlignUp(l.c.stack, 16)

(* returnAssignment: a scalar result is in the first register of its bank in *)
(* both conventions.                                                         *)
GoResults(a, ret) == [k \in DOMAIN ret |-> InRegs(ret, a.goInt, a.goFloat, 0, 0)[k].reg]

CResults(a, ret) == [k \in DOMAIN ret |-> InRegs(ret, a.cIntResult, a.cFloatResult, 0, 0)[k].reg]

(* goArgsLayout: the spill area of the register arguments follows the stack  *)
(* arguments; spills are the offsets from the start of the area.             *)
ArgsLayout(l) ==
  LET types == l.types
      locs == l.go.locs
      end[n \in 0 .. Len(types)] ==
        IF n = 0 THEN GoStackSize(l)
        ELSE IF locs[n].kind = "stack" THEN end[n - 1]
        ELSE AlignUp(end[n - 1], Size(types[n])) + Size(types[n])
      spilled == {n \in DOMAIN types : locs[n].kind = "register"}
  IN [spills |-> {[arg |-> n, off |-> end[n] - Size(types[n])] : n \in spilled},
      area |-> AlignUp(end[Len(types)], 8)]
=============================================================================
