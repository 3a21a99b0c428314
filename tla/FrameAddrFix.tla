---------------------------- MODULE FrameAddrFix ----------------------------
(***************************************************************************)
(* GocFrameAddrFix (x86-64, after register allocation): which registers    *)
(* and spill slots hold an address of this frame, and the code inserted    *)
(* after every call that makes them right again when the call moved the    *)
(* stack.  The lattice is GocX86FrameAddrLattice.cpp, the repair is        *)
(* GocX86FrameAddrFix.cpp.                                                 *)
(*                                                                         *)
(* The function is not fixed: each step executes one machine instruction   *)
(* on the values and applies its transfer function to the abstract state,  *)
(* so a behaviour is a path through some function together with what the   *)
(* analysis knows along it.  Merge is a join point: the abstract state is  *)
(* joined with the one of another path.  Again takes control back to a     *)
(* copying instruction of an earlier loop iteration.  Liveness is the      *)
(* guess, at a call, of the locations that are read later (see Readable).  *)
(***************************************************************************)
EXTENDS Integers

CONSTANTS Csr,       \* callee-saved registers: RBX, R12 - R15
          Tmp,       \* caller-saved registers
          Spill,     \* spill slots
          Root,      \* root allocas: goc.spill.root, goc.anchor, goc.arganchor
          NoSlot,
          Top,       \* TopOff: the end of the incoming arguments, from RBP
          RspOffs,   \* values of RSP - RBP
          Offs,      \* offsets and numbers that occur
          Disps,     \* displacements and immediates
          Deltas,    \* distances a call may move the stack by
          Loaded,    \* values that come from arguments, memory and callees
          Others,    \* abstract values on the other path of a join
          MaxSteps

Reg == Csr \cup Tmp
Slot == Spill \cup Root
Loc == Reg \cup Slot
FrameBase == {"rbp", "rsp"}

ASSUME LocAssumption ==
  /\ Csr \cap Tmp = {} /\ Spill \cap Root = {} /\ Reg \cap Slot = {}
  /\ NoSlot \notin Loc
  /\ Loc \cap FrameBase = {}

(* A value: k is "abs" for a number or a heap address, "stk" for an address  *)
(* on this stack, "undef" for garbage.  o identifies it: the offset from RBP *)
(* of a stack address.  own: computed from RBP or RSP in this function.  lag *)
(* is by how much the bits miss the value; the bits are o - lag (from RBP    *)
(* for "stk").                                                               *)
Value == [k : {"abs", "stk", "undef"}, o : Int, own : BOOLEAN, lag : Int]

(* enum Kind and struct Val.  Copy is CopyId: the address of the instruction *)
(* that made the group of copies, 0 for none.                                *)
Kind == {"Bot", "NotFA", "FA", "D1", "MS", "Taint"}
Val == [K : Kind, Base : FrameBase, Off : Int, Alias : Slot \cup {NoSlot}, Copy : Nat]

ASSUME InputAssumption ==
  /\ Top \in Int /\ RspOffs \subseteq Int /\ Offs \subseteq Int /\ Disps \subseteq Int
  /\ Deltas \subseteq Int /\ MaxSteps \in Nat
  /\ Loaded \subseteq {v \in Value : v.k # "undef" /\ ~v.own /\ v.lag = 0}
  /\ Others \subseteq Val

mk(K) == [K |-> K, Base |-> "rbp", Off |-> 0, Alias |-> NoSlot, Copy |-> 0]
fa(base, off) == [mk("FA") EXCEPT !.Base = base, !.Off = off]

frameish(a) == a.K \in {"FA", "D1", "MS", "Taint"}
moves(a) == a.K \in {"FA", "D1"}
repairable(a) == a.K \in {"FA", "D1", "MS"}
Same(a, b) == a.K = b.K /\ (a.K = "FA" => a.Base = b.Base /\ a.Off = b.Off)

joinKind_Pointer(a, b) ==
  CASE Same(a, b) -> a
    [] ~Same(a, b) -> IF {a.K, b.K} \subseteq {"FA", "D1", "MS", "NotFA"} THEN mk("D1") ELSE mk("Taint")

joinKind(a, b) ==
  CASE Same(a, b) -> a
    [] ~Same(a, b) /\ moves(a) /\ moves(b) -> mk("D1")
    [] ~Same(a, b) /\ ~(moves(a) /\ moves(b)) ->
         IF {a.K, b.K} \subseteq {"FA", "D1", "MS", "NotFA"} THEN mk("MS") ELSE mk("Taint")

join(a, b) ==
  IF a.K = "Bot" THEN b
  ELSE IF b.K = "Bot" THEN a
  ELSE IF Same(a, b) /\ a.Alias = b.Alias /\ a.Copy = b.Copy THEN a
  ELSE [joinKind(a, b) EXCEPT !.Alias = NoSlot, !.Copy = 0]

-----------------------------------------------------------------------------
VARIABLES val,    \* Loc -> Value
          abs,    \* State: Loc -> Val
          rsp,    \* RSP - RBP
          dead,   \* locations no instruction reads before it writes them
          n,      \* instructions executed
          site,   \* address -> the copying instruction there, and the State
                  \* in which control first reached it
          back,   \* the address control went back to, 0 if the next
                  \* instruction is one that was not executed before
          gaps    \* history: what the repair does not cover, and happened

vars == <<val, abs, rsp, dead, n, site, back, gaps>>

Undef == [k |-> "undef", o |-> 0, own |-> FALSE, lag |-> 0]

Init ==
  /\ val \in {v \in [Loc -> Loaded \cup {Undef}] : \A s \in Slot : v[s] = Undef}
  /\ abs = [l \in Loc |-> mk(IF l \in Reg THEN "NotFA" ELSE "Bot")]
  /\ rsp \in RspOffs
  /\ dead = {}
  /\ n = 0
  /\ site = [id \in 1 .. MaxSteps |-> [instr |-> <<>>, State |-> abs]]
  /\ back = 0
  /\ gaps = {}

(* An instruction reads what is defined and what liveness says is read.      *)
Known(l) == val[l].k # "undef"
Readable(l) == l \notin dead /\ Known(l)

Rel(base) == IF base = "rsp" THEN rsp ELSE 0
BaseValue(base) == [k |-> "stk", o |-> Rel(base), own |-> TRUE, lag |-> 0]

Source == Reg \cup FrameBase
CanUse(r) == r \in Reg => Readable(r)
Get(r) == IF r \in FrameBase THEN BaseValue(r) ELSE val[r]

readReg(r) ==
  IF r \in FrameBase THEN fa(r, 0) ELSE IF abs[r].K = "Bot" THEN mk("NotFA") ELSE abs[r]

InFrame(o) == rsp <= o /\ o < Top

-----------------------------------------------------------------------------
(* Arithmetic on values.                                                     *)
Plus(v, c) == [v EXCEPT !.o = @ + c]
Sum(v, w) ==
  [k |-> IF v.k # w.k THEN "stk" ELSE "abs", o |-> v.o + w.o, own |-> v.own \/ w.own,
   lag |-> v.lag + w.lag]
Diff(v, w) ==
  [k |-> IF v.k = "stk" /\ w.k = "abs" THEN "stk" ELSE "abs", o |-> v.o - w.o,
   own |-> (v.own \/ w.own) /\ v.k # w.k, lag |-> v.lag - w.lag]

(* Programs do not add two stack addresses, and subtract a stack address     *)
(* only from a stack address.                                                *)
NoSum(v, w) == ~(v.k = "stk" /\ w.k = "stk")

LeaVal(base, index, scale, disp) ==
  LET VB == readReg(base)
      VI == IF index = NoSlot THEN mk("NotFA") ELSE readReg(index)
  IN CASE ~frameish(VB) /\ ~frameish(VI) -> mk("NotFA")
       [] VB.K = "FA" /\ index = NoSlot -> fa(VB.Base, VB.Off + disp)
       [] \/ moves(VB) /\ ~frameish(VI) /\ ~(VB.K = "FA" /\ index = NoSlot)
          \/ ~frameish(VB) /\ moves(VI) /\ scale = 1 -> mk("D1")
       [] \/ VB.K = "MS" /\ ~frameish(VI)
          \/ ~frameish(VB) /\ VI.K = "MS" /\ scale = 1 -> mk("MS")
       [] OTHER -> mk("Taint")

AddImmVal(a, c) ==
  LET v == IF a.K = "FA" THEN [a EXCEPT !.Off = @ + c] ELSE IF frameish(a) THEN a ELSE mk("NotFA")
  IN IF c = 0 /\ a.K # "FA" THEN v ELSE [v EXCEPT !.Alias = NoSlot, !.Copy = 0]

AddVal(a, b) ==
  CASE ~frameish(a) /\ ~frameish(b) -> mk("NotFA")
    [] (moves(a) /\ ~frameish(b)) \/ (~frameish(a) /\ moves(b)) -> mk("D1")
    [] (a.K = "MS" /\ ~frameish(b)) \/ (~frameish(a) /\ b.K = "MS") -> mk("MS")
    [] OTHER -> mk("Taint")

SubVal(a, b, stackPtr) ==
  IF (~frameish(a) /\ ~frameish(b)) \/ (repairable(a) /\ (repairable(b) \/ stackPtr))
  THEN mk("NotFA") ELSE mk("Taint")

OtherVal(S) == IF \E a \in S : frameish(a) THEN mk("Taint") ELSE mk("NotFA")

-----------------------------------------------------------------------------
(* Instructions.  Write is an instruction whose only result is register d.   *)
Write(d, v, a) ==
  /\ v.o \in Offs
  /\ val' = [val EXCEPT ![d] = v]
  /\ abs' = [abs EXCEPT ![d] = a]
  /\ dead' = dead \ {d}
  /\ UNCHANGED rsp

Scaled(v, scale) ==
  IF scale = 1 THEN v ELSE [k |-> "abs", o |-> 2 * v.o, own |-> v.own, lag |-> 2 * v.lag]

Lea(d, base, disp) ==
  /\ CanUse(base)
  /\ Write(d, Plus(Get(base), disp), LeaVal(base, NoSlot, 1, disp))

LeaIndexed(d, base, index, scale) ==
  /\ CanUse(base) /\ Readable(index)
  /\ NoSum(Get(base), Scaled(val[index], scale))
  /\ Write(d, Sum(Get(base), Scaled(val[index], scale)), LeaVal(base, index, scale, 0))

(* A copying instruction names a group by its own address, the same in every *)
(* iteration of a loop.  A location other than the result d that carries the *)
(* name from an earlier iteration is then in the group of another value:     *)
(* Naming records it.                                                        *)
Address == IF back = 0 THEN n + 1 ELSE back

Copying(instr) ==
  /\ back # 0 => site[back].instr = instr
  /\ site' = IF back = 0 THEN [site EXCEPT ![n + 1] = [instr |-> instr, State |-> abs]] ELSE site
  /\ back' = 0

Naming(d, names) ==
  gaps' = IF names /\ \E l \in Loc \ {d} : Known(l) /\ abs[l].Copy = Address
          THEN gaps \cup {"group"} ELSE gaps

(* MOV64rr: source and destination become one group of copies.               *)
Mov(d, src) ==
  LET a == readReg(src)
      names == a.Copy = 0 /\ src # d
      V == IF names THEN [a EXCEPT !.Copy = Address] ELSE a
  IN /\ CanUse(src)
     /\ Copying(<<"mov", d, src>>) /\ Naming(d, names)
     /\ val' = [val EXCEPT ![d] = Get(src)]
     /\ abs' = [l \in Loc |-> IF l = d \/ l = src THEN V ELSE abs[l]]
     /\ dead' = dead \ {d}
     /\ UNCHANGED rsp

(* ADD, SUB with an immediate, INC, DEC.                                     *)
AddImm(d, c) ==
  /\ Readable(d)
  /\ Write(d, Plus(val[d], c), AddImmVal(readReg(d), c))

Add(d, src) ==
  /\ Readable(d) /\ Readable(src) /\ NoSum(val[d], val[src])
  /\ Write(d, Sum(val[d], val[src]),
           AddVal(readReg(d), IF src \in Reg THEN readReg(src)
                              ELSE IF frameish(abs[src]) THEN abs[src] ELSE mk("NotFA")))

Sub(d, src) ==
  LET a == readReg(d)
      b == IF src \in Reg THEN readReg(src) ELSE abs[src]
  IN /\ Readable(d) /\ Readable(src)
     /\ repairable(a) /\ (repairable(b) \/ src \in Root) => val[d].k = val[src].k
     /\ Write(d, Diff(val[d], val[src]), SubVal(a, b, src \in Root))

(* CMOV: the condition is either.                                            *)
Cmov(d, src) ==
  /\ Readable(d) /\ Readable(src)
  /\ \E l \in {d, src} :
       Write(d, val[l], join(readReg(d), IF src \in Reg THEN readReg(src)
                                         ELSE IF abs[src].K = "Bot" THEN mk("NotFA") ELSE abs[src]))

(* A full-width reload of a tracked slot.                                    *)
Load(d, s) ==
  LET V == IF abs[s].K = "Bot" THEN mk("NotFA") ELSE abs[s]
  IN /\ Readable(s)
     /\ Copying(<<"load", d, s>>) /\ Naming(d, V.Copy = 0)
     /\ Write(d, val[s], [V EXCEPT !.Alias = s, !.Copy = IF @ = 0 THEN Address ELSE @])

(* A load of any other memory.                                               *)
LoadMemory(d, v) == Write(d, v, mk("NotFA"))

(* Every other instruction; src may be a slot it loads a part of.            *)
Other(d, src) ==
  /\ Readable(d) /\ Readable(src)
  /\ Write(d, [k |-> "abs", o |-> val[src].o, own |-> val[src].own \/ val[d].own,
               lag |-> val[src].lag + val[d].lag],
           OtherVal({IF src \in Reg THEN readReg(src) ELSE abs[src], readReg(d)}))

ImplicitDef(d) == Write(d, Undef, mk("Bot"))

forgetAlias(A, s) == [l \in Loc |-> IF A[l].Alias = s THEN [A[l] EXCEPT !.Alias = NoSlot] ELSE A[l]]

(* A full-width MOV64mr: every copy of the register now aliases the slot.    *)
(* The passes keep a pointer in a root from where it is computed on.         *)
Store(s, r) ==
  LET A == forgetAlias(abs, s)
      VR == IF A[r].K = "Bot" THEN mk("NotFA") ELSE A[r]
      copies == IF VR.Copy = 0 THEN {r} ELSE {l \in Reg : A[l].Copy = VR.Copy}
  IN /\ Readable(r)
     /\ s \in Root => val[r].lag = 0
     /\ val' = [val EXCEPT ![s] = val[r]]
     /\ abs' = [l \in Loc |-> IF l = s THEN [VR EXCEPT !.Alias = NoSlot]
                              ELSE IF l \in copies THEN [A[l] EXCEPT !.Alias = s] ELSE A[l]]
     /\ dead' = dead \ {s}
     /\ UNCHANGED rsp

(* A partial write, or one by another opcode.                                *)
StorePart(s, r) ==
  /\ Readable(r)
  /\ val' = [val EXCEPT ![s] = [k |-> IF Known(s) THEN "abs" ELSE "undef", o |-> @.o,
                                own |-> @.own \/ val[r].own, lag |-> @.lag + val[r].lag]]
  /\ abs' = [forgetAlias(abs, s) EXCEPT ![s] = OtherVal({abs[s], readReg(r)})]
  /\ UNCHANGED <<rsp, dead>>

(* RSP is written: a dynamic alloca, or the arguments of a call pushed.      *)
invalidateBase(A, base) ==
  [l \in Loc |-> IF A[l].K = "FA" /\ A[l].Base = base THEN mk("D1") ELSE A[l]]

SetRsp(o) ==
  /\ rsp' = o
  /\ abs' = invalidateBase(abs, "rsp")
  /\ UNCHANGED <<val, dead>>

(* Control joins a path on which location l holds something else.            *)
Merge(l, w) ==
  /\ abs' = [abs EXCEPT ![l] = join(@, w)]
  /\ UNCHANGED <<val, rsp, dead>>

(* Control goes back to a copying instruction; what was known when it was    *)
(* first reached joins in.                                                   *)
Again(id) ==
  /\ back = 0 /\ site[id].instr # <<>>
  /\ back' = id
  /\ abs' = [l \in Loc |-> join(abs[l], site[id].State[l])]
  /\ UNCHANGED <<val, rsp, dead, n, site, gaps>>

-----------------------------------------------------------------------------
(* A call.  The stack moves by delta; r gets the result.                     *)
stepCall(r) ==
  [l \in Loc |-> IF l = r THEN mk("NotFA") ELSE IF l \in Tmp THEN mk("Bot") ELSE abs[l]]

(* The copier adjusts the words the stack map marks, and no other.           *)
Moved(v, delta) == IF v.k = "stk" THEN [v EXCEPT !.lag = @ + delta] ELSE v
Adjusted(v, delta) == IF v.lag = 0 THEN v ELSE Moved(v, delta)

AfterMove(l, delta) ==
  IF l \in Tmp THEN Undef ELSE IF l \in Root THEN Adjusted(val[l], delta) ELSE Moved(val[l], delta)

aliasesCopiedRoot(a) == a.Alias \in Root

Reloaded(live) ==
  {r \in Csr \cap live : \/ aliasesCopiedRoot(abs[r])
                         \/ abs[r].Alias # NoSlot /\ ~repairable(abs[r])}

Repairs(live) ==
  {r \in Csr \cap live : repairable(abs[r]) /\ ~aliasesCopiedRoot(abs[r])}
    \cup {s \in Spill \cap live : repairable(abs[s])}

NeedDelta(live) == \E l \in Repairs(live) : abs[l].K # "FA"

(* A location meant to hold v has got the bits of w.                         *)
Holding(v, w) == [v EXCEPT !.lag = IF v.k = w.k THEN v.o - (w.o - w.lag) ELSE 1]

(* fixReg, for a location with abstract value a that the move has left v.    *)
fixReg(a, v, delta) ==
  CASE a.K = "FA" -> Holding(v, Plus(BaseValue(a.Base), a.Off))
    [] a.K = "D1" -> [v EXCEPT !.lag = @ - delta]
    [] OTHER -> IF v.k = "stk" /\ InFrame(v.o - v.lag + delta) THEN [v EXCEPT !.lag = @ - delta] ELSE v

Repaired(l, delta, live) ==
  LET v == IF l \in Reloaded(live)
           THEN Holding(AfterMove(l, delta), AfterMove(abs[l].Alias, delta))
           ELSE AfterMove(l, delta)
  IN IF l \in Repairs(live) /\ (NeedDelta(live) => delta # 0) THEN fixReg(abs[l], v, delta) ELSE v

(* The range test of fixReg takes an address one past the topmost argument,  *)
(* which is a stack address on some paths only, for a number; recorded too.  *)
PastEnd(delta, live) ==
  delta # 0 /\ \E l \in Repairs(live) : abs[l].K = "MS" /\ val[l].own /\ ~InFrame(val[l].o)

(* Addresses this function did not compute are live across a call only in    *)
(* roots and in registers that copy one: goc-stackmap and goc-reanchor.      *)
Call(delta, live, r, res) ==
  /\ \A l \in live : val[l].k = "stk" /\ ~val[l].own => l \in Csr /\ aliasesCopiedRoot(abs[l])
  /\ val' = [l \in Loc |-> IF l = r THEN res ELSE Repaired(l, delta, live)]
  /\ abs' = stepCall(r)
  /\ dead' = (dead \cup Csr \cup Spill) \ live
  /\ gaps' = IF PastEnd(delta, live) THEN gaps \cup {"end"} ELSE gaps
  /\ UNCHANGED rsp

Copy ==
  \E d \in Reg : (\E src \in Source : Mov(d, src)) \/ (\E s \in Slot : Load(d, s))

Instruction ==
  \/ \E d \in Reg :
       \/ \E base \in Source, c \in Disps : Lea(d, base, c)
       \/ \E base \in Source, i \in Reg, scale \in {1, 2} : LeaIndexed(d, base, i, scale)
       \/ \E c \in Disps : AddImm(d, c)
       \/ \E src \in Reg \cup Slot : Add(d, src) \/ Sub(d, src) \/ Cmov(d, src) \/ Other(d, src)
       \/ \E v \in Loaded : LoadMemory(d, v)
       \/ ImplicitDef(d)
  \/ \E r \in Reg : (\E s \in Slot : Store(s, r)) \/ (\E s \in Spill : StorePart(s, r))
  \/ \E o \in RspOffs : SetRsp(o)

Next ==
  /\ n < MaxSteps
  /\ \/ n' = n + 1 /\ Copy
     \/ /\ n' = n + 1 /\ back = 0 /\ UNCHANGED <<site, back>>
        /\ \/ UNCHANGED gaps /\ (Instruction \/ \E l \in Loc, w \in Others : Merge(l, w))
           \/ \E delta \in Deltas, live \in SUBSET ((Csr \cup Spill) \ dead), r \in Tmp, res \in Loaded :
                Call(delta, live, r, res)
     \/ \E id \in 1 .. n : Again(id)

Spec == Init /\ [][Next]_vars

-----------------------------------------------------------------------------
Instr == {<<>>} \cup ({"mov"} \X Reg \X Source) \cup ({"load"} \X Reg \X Slot)

Typed ==
  /\ val \in [Loc -> Value]
  /\ abs \in [Loc -> Val]
  /\ rsp \in Int
  /\ dead \subseteq Loc
  /\ n \in Nat

SitesTyped ==
  /\ back \in Nat /\ back <= n
  /\ site \in [1 .. MaxSteps -> [instr : Instr, State : [Loc -> Val]]]

TypeOK == Typed /\ SitesTyped /\ gaps \subseteq {"group", "end"}

(* What is read is what it is meant to be; tainted values are excepted.      *)
Current ==
  \A l \in Loc \ dead : val[l].k # "undef" /\ abs[l].K # "Taint" => val[l].lag = 0

(* The invariant GocX86FrameAddrFix.cpp promises: after a call, and from     *)
(* there on, no live register and no live slot holds an address of the stack *)
(* before the call, and no other value was changed by the repair.  Tainted   *)
(* values are excepted.  It is claimed of paths without the two things the   *)
(* code does not cover: a MOV or reload in a loop names its group by its     *)
(* address while another location still carries that name from an earlier    *)
(* iteration, and a call moves the stack while a value that is a frame       *)
(* address on some paths only points past the topmost argument.              *)
NoStaleAddress == gaps = {} => Current

(* A register the analysis calls a copy of a slot is meant to hold what the  *)
(* slot is meant to hold, so reloading it never brings in another value: as  *)
(* long as no instruction reused the name of a group another location is in. *)
CopiesOfSlots ==
  gaps = {} => \A l \in Reg : abs[l].Alias # NoSlot /\ val[l].k # "undef" =>
    LET s == abs[l].Alias
    IN val[s].k = val[l].k /\ val[s].o = val[l].o

-----------------------------------------------------------------------------
(* The inductive invariant.  An abstract value says what a location is meant *)
(* to hold; copies, of a slot or of each other, are meant to hold the same.  *)
Describes(a, v) ==
  v.k # "undef" =>
    /\ a.K # "Bot"
    /\ a.K = "FA" => v.k = "stk" /\ v.own /\ v.o = Rel(a.Base) + a.Off
    /\ a.K = "D1" => v.k = "stk" /\ v.own
    /\ a.K = "MS" => (v.own => v.k = "stk")
    /\ a.K = "NotFA" => ~v.own

SameValue(v, w) == v.k = w.k /\ v.o = w.o /\ v.own = w.own /\ (v.k = "abs" => v.lag = w.lag)

AllDescribed == \A l \in Loc : Describes(abs[l], val[l])

SlotCopies ==
  \A l \in Loc : Known(l) /\ abs[l].Alias # NoSlot => SameValue(val[l], val[abs[l].Alias])

GroupCopies ==
  /\ \A l, m \in Loc : Known(l) /\ Known(m) /\ abs[l].Copy # 0 /\ abs[l].Copy = abs[m].Copy
                         => SameValue(val[l], val[m])
  /\ \A l \in Loc : Known(l) => abs[l].Copy <= n

RootsFixed == \A s \in Root : Known(s) => val[s].lag = 0

Sound ==
  /\ Typed /\ dead \subseteq Csr \cup Spill
  /\ Current /\ AllDescribed /\ SlotCopies /\ GroupCopies /\ RootsFixed

FixInv == gaps = {} => Sound /\ SitesTyped
=============================================================================
