------------------------------- MODULE Thunk -------------------------------
(***************************************************************************)
(* A Go -> C thunk (emitThunksL, emitArm64Thunks) run instruction by       *)
(* instruction on the arguments of one call, and the tables written for it *)
(* (emitWrapperTables).  Go calls name with its register convention; the   *)
(* thunk moves everything to where name.impl expects it, calls it, and     *)
(* moves the results back.                                                 *)
(*                                                                         *)
(* Addresses are relative to the SP at entry.  A register or a word holds  *)
(* the number of the argument field in it, or one of the values below.     *)
(***************************************************************************)
EXTENDS GoAbi, TLC

CONSTANTS Abi,          \* amd64 or arm64
          Signatures    \* [params, ret]

(* analyzeSignature takes the signature.                                     *)
Accepted ==
  \A s \in Signatures :
    /\ \A p \in Range(s.params) : Supported(p)
    /\ Supported(s.ret) /\ LayOut(s.ret).size <= 16

VARIABLES sig,          \* the signature
          lay,          \* where its parameters are in both conventions
          pc, k, gpr, fpr, gfrom, ffrom, mem, sp, fp

vars == <<sig, lay, pc, k, gpr, fpr, gfrom, ffrom, mem, sp, fp>>

Junk == 0
LR == -1                \* the return address into the Go caller
CallerFP == -2
Result(n) == 100 + n

A64 == Abi.arch = "arm64"

IntScratch_Arg == IF A64 THEN "x15" ELSE "r11"

IntScratch == IF A64 THEN "x16" ELSE "r12"
FloatScratch == IF A64 THEN "d16" ELSE "xmm15"
IntReg == Range(Abi.goInt) \cup Range(Abi.cInt) \cup Range(Abi.cIntResult)
FloatReg == Range(Abi.goFloat)

GPR == INSTANCE ParallelMove WITH
         Reg <- IntReg, Scratch <- IntScratch, Value <- Int, regs <- gpr, from <- gfrom, want <- 0
FPR == INSTANCE ParallelMove WITH
         Reg <- FloatReg, Scratch <- FloatScratch, Value <- Int, regs <- fpr, from <- ffrom, want <- 0

types == lay.types
GoLoc(n) == lay.go.locs[n]
CLoc(n) == lay.c.locs[n]
outgoing == Outgoing(lay)
goRet == GoResults(Abi, sig.ret)
cRet == CResults(Abi, sig.ret)

(* The argument field Go left in register r, if any.                         *)
Entry(r) ==
  LET n == {i \in DOMAIN types : GoLoc(i) = InReg(r)}
  IN IF n = {} THEN Junk ELSE CHOOSE i \in n : TRUE

Init ==
  /\ sig \in Signatures /\ lay = Unassigned
  /\ pc = "assign" /\ k = 1 /\ sp = 0 /\ fp = CallerFP
  /\ gpr = [r \in IntReg \cup {IntScratch} |-> Junk]
  /\ fpr = [r \in FloatReg \cup {FloatScratch} |-> Junk]
  /\ gfrom = <<>> /\ ffrom = <<>> /\ mem = <<>>

(* analyzeSignature goes through the parameters when the thunk is written.   *)
Assign ==
  /\ pc = "assign" /\ k <= Len(sig.params)
  /\ lay' = Assigned(Abi, lay, sig.params[k])
  /\ k' = k + 1
  /\ UNCHANGED <<sig, pc, gpr, fpr, gfrom, ffrom, mem, sp, fp>>

(* Go calls the thunk.                                                       *)
Enter ==
  /\ pc = "assign" /\ k > Len(sig.params)
  /\ pc' = "entry" /\ k' = 1
  /\ gpr' = [r \in DOMAIN gpr |-> Entry(r)] /\ fpr' = [r \in DOMAIN fpr |-> Entry(r)]
  /\ mem' = [a \in {8 + GoLoc(n).off : n \in {i \in DOMAIN types : GoLoc(i).kind = "stack"}} |->
               CHOOSE n \in DOMAIN types : GoLoc(n) = OnStack(a - 8)]
            @@ (0 :> IF A64 THEN Junk ELSE LR)
  /\ UNCHANGED <<sig, lay, gfrom, ffrom, sp, fp>>

-----------------------------------------------------------------------------
(* The prologue.                                                             *)

SaveArea == IF A64 THEN 32 ELSE 8

(* outArea: on arm64 the word pair below the arguments belongs to Go's       *)
(* unwinder.                                                                 *)
OutArea == IF A64 /\ outgoing > 0 THEN outgoing + 16 ELSE outgoing

OutBase == IF A64 THEN sp + 16 ELSE sp

Push ==
  /\ pc = "entry" /\ pc' = "pushed"
  /\ sp' = -SaveArea
  /\ fp' = IF A64 THEN -16 ELSE -8
  /\ mem' = (IF A64 THEN (-16 :> CallerFP) @@ (-8 :> LR) @@ (-32 :> LR) ELSE (-8 :> CallerFP)) @@ mem
  /\ UNCHANGED <<sig, lay, k, gpr, fpr, gfrom, ffrom>>

Reserve ==
  /\ pc = "pushed" /\ pc' = "stack"
  /\ sp' = sp - OutArea
  /\ mem' = IF A64 /\ outgoing > 0 THEN (sp' :> LR) @@ mem ELSE mem
  /\ UNCHANGED <<sig, lay, k, gpr, fpr, gfrom, ffrom, fp>>

-----------------------------------------------------------------------------
(* The arguments: stack stores first, then the registers among themselves,   *)
(* then the registers that are loaded from Go's stack.                       *)

(* stackSource and arm64Mem: Go's stack arguments, seen from the frame       *)
(* pointer.                                                                  *)
Source(n) ==
  IF GoLoc(n).kind = "stack" THEN mem[fp + (IF A64 THEN 24 ELSE 16) + GoLoc(n).off]
  ELSE IF Bank(types[n]) = "int" THEN gpr[GoLoc(n).reg] ELSE fpr[GoLoc(n).reg]

Through(regs, scratch, bank) ==
  IF GoLoc(k).kind = "stack" /\ Bank(types[k]) = bank
  THEN [regs EXCEPT ![scratch] = Source(k)] ELSE regs

StackArg ==
  /\ pc = "stack" /\ k <= Len(types)
  /\ \/ /\ CLoc(k).kind = "stack"
        /\ mem' = ((OutBase + CLoc(k).off) :> Source(k)) @@ mem
        /\ gpr' = Through(gpr, IntScratch, "int")
        /\ fpr' = Through(fpr, FloatScratch, "float")
     \/ CLoc(k).kind = "register" /\ UNCHANGED <<mem, gpr, fpr>>
  /\ k' = k + 1
  /\ UNCHANGED <<sig, lay, pc, gfrom, ffrom, sp, fp>>

(* regMoves and floatMoves: from a Go register to a C register.              *)
Moves(bank) ==
  LET both == {n \in DOMAIN types : /\ Bank(types[n]) = bank
                                    /\ GoLoc(n).kind = "register" /\ CLoc(n).kind = "register"}
      dst == {CLoc(n).reg : n \in both}
  IN [r \in dst |-> GoLoc(CHOOSE n \in both : CLoc(n).reg = r).reg]

StartMoves ==
  /\ pc = "stack" /\ k > Len(types)
  /\ pc' = "moves" /\ k' = 1
  /\ gfrom' = GPR!Start(Moves("int")) /\ ffrom' = FPR!Start(Moves("float"))
  /\ UNCHANGED <<sig, lay, gpr, fpr, mem, sp, fp>>

IntMove ==
  /\ pc = "moves" /\ GPR!MoveNext
  /\ UNCHANGED <<sig, lay, pc, k, fpr, ffrom, mem, sp, fp>>

FloatMove ==
  /\ pc = "moves" /\ DOMAIN gfrom = {} /\ FPR!MoveNext
  /\ UNCHANGED <<sig, lay, pc, k, gpr, gfrom, mem, sp, fp>>

LoadsBegin ==
  /\ pc = "moves" /\ DOMAIN gfrom = {} /\ DOMAIN ffrom = {}
  /\ pc' = "loads"
  /\ UNCHANGED <<sig, lay, k, gpr, fpr, gfrom, ffrom, mem, sp, fp>>

(* emitRegisterArgument: intLoads, then floatLoads; the banks do not meet.   *)
Load ==
  /\ pc = "loads" /\ k <= Len(types)
  /\ LET load == GoLoc(k).kind = "stack" /\ CLoc(k).kind = "register"
         into(regs, bank) == IF load /\ Bank(types[k]) = bank
                             THEN [regs EXCEPT ![CLoc(k).reg] = Source(k)] ELSE regs
     IN gpr' = into(gpr, "int") /\ fpr' = into(fpr, "float")
  /\ k' = k + 1
  /\ UNCHANGED <<sig, lay, pc, gfrom, ffrom, mem, sp, fp>>

Call ==
  /\ pc = "loads" /\ k > Len(types)
  /\ pc' = "call" /\ k' = 1
  /\ UNCHANGED <<sig, lay, gpr, fpr, gfrom, ffrom, mem, sp, fp>>

-----------------------------------------------------------------------------
(* The C body returns; its results go to Go's registers one after another.   *)

Returned(regs, bank) ==
  [r \in DOMAIN regs |->
     LET n == {i \in DOMAIN sig.ret : Bank(sig.ret[i]) = bank /\ cRet[i] = r}
     IN IF n = {} THEN Junk ELSE Result(CHOOSE i \in n : TRUE)]

CReturns ==
  /\ pc = "call" /\ pc' = "results"
  /\ gpr' = Returned(gpr, "int") /\ fpr' = Returned(fpr, "float")
  /\ UNCHANGED <<sig, lay, k, gfrom, ffrom, mem, sp, fp>>

ResultMove(regs, bank) ==
  IF Bank(sig.ret[k]) = bank
  THEN [regs EXCEPT ![goRet[k]] = regs[cRet[k]]] ELSE regs

MoveResult ==
  /\ pc = "results" /\ k <= Len(sig.ret)
  /\ gpr' = ResultMove(gpr, "int") /\ fpr' = ResultMove(fpr, "float")
  /\ k' = k + 1
  /\ UNCHANGED <<sig, lay, pc, gfrom, ffrom, mem, sp, fp>>

Restore ==
  /\ pc = "results" /\ k > Len(sig.ret)
  /\ pc' = "restored" /\ sp' = fp
  /\ UNCHANGED <<sig, lay, k, gpr, fpr, gfrom, ffrom, mem, fp>>

Pop ==
  /\ pc = "restored" /\ pc' = "popped"
  /\ fp' = mem[sp]
  /\ sp' = sp + (IF A64 THEN 16 ELSE 8)
  /\ UNCHANGED <<sig, lay, k, gpr, fpr, gfrom, ffrom, mem>>

Next ==
  \/ Assign \/ Enter \/ Push \/ Reserve \/ StackArg \/ StartMoves \/ IntMove \/ FloatMove \/ LoadsBegin \/ Load
  \/ Call \/ CReturns \/ MoveResult \/ Restore \/ Pop

Spec == Init /\ [][Next]_vars

-----------------------------------------------------------------------------
(* The tables.                                                               *)

(* .goc.pcvalue, SP_DELTA: the labels p, a, m and o.                         *)
SpDelta_NoOut ==
  CASE pc \in {"assign", "entry", "popped"} -> 0
    [] pc = "restored" -> IF A64 THEN 16 ELSE 8
    [] OTHER -> SaveArea

SpDelta ==
  CASE pc \in {"assign", "entry", "popped"} -> 0
    [] pc = "pushed" -> SaveArea
    [] pc = "restored" -> IF A64 THEN 16 ELSE 8
    [] OTHER -> SaveArea + OutArea

(* .goc.gcmaps of the call: the words the runtime takes for pointers.  Bits  *)
(* of arguments count up from argp, bits of locals from nlocals words below  *)
(* varp.                                                                     *)
Argp == 8
Varp == -8

ArgBits ==
  {GoLoc(n).off \div 8 : n \in {i \in DOMAIN types : types[i] = "ptr" /\ GoLoc(i).kind = "stack"}}

NLocals == (IF A64 THEN OutArea + SaveArea - 8 ELSE outgoing) \div 8

Slots_FromSP ==
  {CLoc(n).off : n \in {i \in DOMAIN types : types[i] = "ptr" /\ CLoc(i).kind = "stack"}}

Slots ==
  {outgoing - CLoc(n).off + (IF A64 THEN SaveArea - 8 ELSE 0) :
     n \in {i \in DOMAIN types : types[i] = "ptr" /\ CLoc(i).kind = "stack"}}
  \cup (IF A64 THEN {8} ELSE {})

LocalBits == {NLocals - o \div 8 : o \in Slots}

Marked == {Argp + 8 * b : b \in ArgBits} \cup {Varp - 8 * NLocals + 8 * b : b \in LocalBits}

-----------------------------------------------------------------------------

(* At the call every argument is where the C convention looks for it: no     *)
(* move, store or load of the thunk destroyed one that was still needed.     *)
ArgsArrive ==
  pc = "call" =>
    \A n \in DOMAIN types :
      n = IF CLoc(n).kind = "stack" THEN mem[OutBase + CLoc(n).off]
          ELSE IF Bank(types[n]) = "int" THEN gpr[CLoc(n).reg] ELSE fpr[CLoc(n).reg]

(* At the return every result is where the Go convention looks for it.       *)
ResultsArrive ==
  pc = "popped" =>
    \A n \in DOMAIN sig.ret :
      LET r == goRet[n]
      IN Result(n) = IF Bank(sig.ret[n]) = "int" THEN gpr[r] ELSE fpr[r]

IsPointer(v) == IF v = CallerFP THEN A64 ELSE v \in DOMAIN types /\ types[v] = "ptr"

(* While the C body runs the stack may move or be scanned: the words the     *)
(* thunk's maps mark are exactly those that hold a pointer, its own outgoing *)
(* ones, Go's incoming ones and, on arm64, the saved frame pointer.          *)
MapsExact ==
  pc = "call" => Marked = {a \in DOMAIN mem : IsPointer(mem[a])}

At(a) == IF a \in DOMAIN mem THEN mem[a] ELSE Junk

(* The runtime can unwind through the thunk at any instruction: the table    *)
(* knows how far SP is from the entry, the saved frame pointer survives the  *)
(* outgoing arguments, and on arm64 the word at SP is the return address     *)
(* during the call.                                                          *)
Unwinds ==
  /\ sp = -SpDelta
  /\ pc \notin {"assign", "entry", "popped"} => At(fp) = CallerFP
  /\ pc = "call" => At(IF A64 THEN sp ELSE sp + SpDelta) = LR
  /\ pc = "popped" => fp = CallerFP
=============================================================================
