------------------------------ MODULE GoExtern ------------------------------
(***************************************************************************)
(* A C -> Go stub (emitGoExternStubs, emitSysVToGoMoves, amd64) run on the *)
(* arguments of one call, and its tables (emitGoExternTables).  C calls    *)
(* the stub with the SysV convention; the stub keeps the callee-saved      *)
(* registers, builds Go's argument area in its own frame, loads g and      *)
(* calls the Go function, which owns that area while it runs.              *)
(*                                                                         *)
(* Addresses are relative to the SP at entry.  A register or a word holds  *)
(* the number of the argument in it, or one of the values below.           *)
(***************************************************************************)
EXTENDS GoAbi, TLC

CONSTANT Signatures     \* [params, ret]; clang declares scalar parameters

(* What clang declares.                                                      *)
Declared ==
  \A s \in Signatures :
    /\ \A p \in Range(s.params) : Len(p) = 1
    /\ Supported(s.ret) /\ LayOut(s.ret).size <= 16

VARIABLES sig, lay,
          args,         \* the Go argument area
          pc, k, gpr, fpr, gfrom, mem, sp

vars == <<sig, lay, args, pc, k, gpr, fpr, gfrom, mem, sp>>

Junk == 0
LR == -1
CallerFP == -2
G == -3
Kept(r) == -10 - r      \* what the C caller has in callee-saved register r
Result(n) == 100 + n

CalleeSaved == <<"rbx", "r12", "r13", "r14", "r15">>
IntReg == Range(amd64.goInt) \cup Range(amd64.cInt)
FloatReg == Range(amd64.goFloat)

GPR == INSTANCE ParallelMove WITH
         Reg <- IntReg, Scratch <- "r12", Value <- Int, regs <- gpr, from <- gfrom, want <- 0

types == lay.types
GoLoc(n) == lay.go.locs[n]
CLoc(n) == lay.c.locs[n]
goRet == GoResults(amd64, sig.ret)
cRet == CResults(amd64, sig.ret)

(* The Go argument area: stack arguments and spill slots.                    *)
Spill_StackOnly == AlignUp(GoStackSize(lay), 16)

Spill == AlignUp(args.area, 16)

Frame == AlignUp(Spill + 8 * Len(CalleeSaved), 16)

Entry(r) ==
  LET n == {i \in DOMAIN types : CLoc(i) = InReg(r)}
      s == {i \in DOMAIN CalleeSaved : CalleeSaved[i] = r}
  IN IF n # {} THEN CHOOSE i \in n : TRUE
     ELSE IF s # {} THEN Kept(CHOOSE i \in s : TRUE) ELSE Junk

Init ==
  /\ sig \in Signatures /\ lay = Unassigned /\ args = ArgsLayout(Unassigned)
  /\ pc = "assign" /\ k = 1 /\ sp = 0
  /\ gpr = [r \in IntReg \cup Range(CalleeSaved) |-> Junk]
  /\ fpr = [r \in FloatReg \cup {"xmm15"} |-> Junk]
  /\ gfrom = <<>> /\ mem = <<>>

(* collectGoExterns: analyzeSignature, then goArgsLayout.                    *)
Assign ==
  /\ pc = "assign" /\ k <= Len(sig.params)
  /\ lay' = Assigned(amd64, lay, sig.params[k])
  /\ k' = k + 1
  /\ UNCHANGED <<sig, args, pc, gpr, fpr, gfrom, mem, sp>>

(* C calls the stub.                                                         *)
Enter ==
  /\ pc = "assign" /\ k > Len(sig.params)
  /\ pc' = "entry" /\ k' = 1
  /\ args' = ArgsLayout(lay)
  /\ gpr' = [r \in DOMAIN gpr |-> Entry(r)] /\ fpr' = [r \in DOMAIN fpr |-> Entry(r)]
  /\ mem' = [a \in {8 + CLoc(n).off : n \in {i \in DOMAIN types : CLoc(i).kind = "stack"}} |->
               CHOOSE n \in DOMAIN types : CLoc(n) = OnStack(a - 8)]
            @@ (0 :> LR)
  /\ UNCHANGED <<sig, lay, gfrom, sp>>

-----------------------------------------------------------------------------

Push ==
  /\ pc = "entry" /\ pc' = "pushed"
  /\ sp' = -8 /\ mem' = (-8 :> CallerFP) @@ mem
  /\ UNCHANGED <<sig, lay, args, k, gpr, fpr, gfrom>>

Reserve ==
  /\ pc = "pushed" /\ pc' = "save"
  /\ sp' = sp - Frame
  /\ UNCHANGED <<sig, lay, args, k, gpr, fpr, gfrom, mem>>

SaveSlot(i) == sp + Spill + 8 * (i - 1)

Save ==
  /\ pc = "save" /\ k <= Len(CalleeSaved)
  /\ mem' = (SaveSlot(k) :> gpr[CalleeSaved[k]]) @@ mem
  /\ k' = k + 1
  /\ UNCHANGED <<sig, lay, args, pc, gpr, fpr, gfrom, sp>>

-----------------------------------------------------------------------------
(* emitSysVToGoMoves: the registers among themselves, then stores and loads  *)
(* in the order of the parameters.  For scalars both conventions use the     *)
(* same float registers, and whatever has a C register has a Go register.    *)

Moves ==
  LET both == {n \in DOMAIN types : /\ Bank(types[n]) = "int"
                                    /\ GoLoc(n).kind = "register" /\ CLoc(n).kind = "register"}
      dst == {GoLoc(n).reg : n \in both}
  IN [r \in dst |-> CLoc(CHOOSE n \in both : GoLoc(n).reg = r).reg]

StartMoves ==
  /\ pc = "save" /\ k > Len(CalleeSaved)
  /\ pc' = "moves" /\ k' = 1
  /\ gfrom' = GPR!Start(Moves)
  /\ UNCHANGED <<sig, lay, args, gpr, fpr, mem, sp>>

IntMove ==
  /\ pc = "moves" /\ GPR!MoveNext
  /\ UNCHANGED <<sig, lay, args, pc, k, fpr, mem, sp>>

MovesDone_First ==
  /\ pc = "moves"
  /\ pc' = "stores"
  /\ UNCHANGED <<sig, lay, args, k, gpr, fpr, gfrom, mem, sp>>

MovesDone ==
  /\ pc = "moves" /\ DOMAIN gfrom = {}
  /\ pc' = "stores"
  /\ UNCHANGED <<sig, lay, args, k, gpr, fpr, gfrom, mem, sp>>

Incoming(n) == mem[8 + CLoc(n).off]

Set(regs, r, bank) == IF Bank(types[k]) = bank THEN [regs EXCEPT ![r] = Incoming(k)] ELSE regs

(* A Go register that is loaded from the C stack.                            *)
LoadReg ==
  /\ pc = "stores" /\ k <= Len(types)
  /\ GoLoc(k).kind = "register" /\ CLoc(k).kind = "stack"
  /\ gpr' = Set(gpr, GoLoc(k).reg, "int") /\ fpr' = Set(fpr, GoLoc(k).reg, "float")
  /\ k' = k + 1
  /\ UNCHANGED <<sig, lay, args, pc, gfrom, mem, sp>>

(* A Go stack argument that is copied from the C stack.  The integer copy    *)
(* names the 64-bit register whatever the mnemonic's size.                   *)
CopyEncodes == Bank(types[k]) = "float" \/ Size(types[k]) = 8

CopyStack ==
  /\ pc = "stores" /\ k <= Len(types)
  /\ GoLoc(k).kind = "stack" /\ CLoc(k).kind = "stack"
  /\ \/ /\ CopyEncodes
        /\ gpr' = Set(gpr, "r12", "int") /\ fpr' = Set(fpr, "xmm15", "float")
        /\ mem' = ((sp + GoLoc(k).off) :> Incoming(k)) @@ mem
        /\ k' = k + 1 /\ UNCHANGED pc
     \/ ~CopyEncodes /\ pc' = "rejected" /\ UNCHANGED <<k, gpr, fpr, mem>>
  /\ UNCHANGED <<sig, lay, args, gfrom, sp>>

Moved ==
  /\ pc = "stores" /\ k <= Len(types)
  /\ CLoc(k).kind = "register" /\ GoLoc(k).kind = "register"
  /\ k' = k + 1
  /\ UNCHANGED <<sig, lay, args, pc, gpr, fpr, gfrom, mem, sp>>

(* g from %fs:-8, the zero register cleared.                                 *)
Call ==
  /\ pc = "stores" /\ k > Len(types)
  /\ pc' = "call" /\ k' = 1
  /\ gpr' = [gpr EXCEPT !["r14"] = G] /\ fpr' = [fpr EXCEPT !["xmm15"] = Junk]
  /\ UNCHANGED <<sig, lay, args, gfrom, mem, sp>>

-----------------------------------------------------------------------------

Returned(regs, bank) ==
  [r \in DOMAIN regs |->
     LET n == {i \in DOMAIN sig.ret : Bank(sig.ret[i]) = bank /\ goRet[i] = r}
     IN IF n = {} THEN Junk ELSE Result(CHOOSE i \in n : TRUE)]

(* The Go function may write any word of its argument area and keeps no      *)
(* register.                                                                 *)
GoReturns ==
  /\ pc = "call" /\ pc' = "results"
  /\ gpr' = Returned(gpr, "int") /\ fpr' = Returned(fpr, "float")
  /\ mem' = [a \in {sp + 8 * i : i \in 0 .. (args.area \div 8) - 1} |-> Junk] @@ mem
  /\ UNCHANGED <<sig, lay, args, k, gfrom, sp>>

ResultMove(regs, bank) ==
  IF Bank(sig.ret[k]) = bank THEN [regs EXCEPT ![cRet[k]] = regs[goRet[k]]] ELSE regs

MoveResult ==
  /\ pc = "results" /\ k <= Len(sig.ret)
  /\ gpr' = ResultMove(gpr, "int") /\ fpr' = ResultMove(fpr, "float")
  /\ k' = k + 1
  /\ UNCHANGED <<sig, lay, args, pc, gfrom, mem, sp>>

ResultsDone_Skipped ==
  /\ pc = "results"
  /\ pc' = "reload" /\ k' = 1
  /\ UNCHANGED <<sig, lay, args, gpr, fpr, gfrom, mem, sp>>

ResultsDone ==
  /\ pc = "results" /\ k > Len(sig.ret)
  /\ pc' = "reload" /\ k' = 1
  /\ UNCHANGED <<sig, lay, args, gpr, fpr, gfrom, mem, sp>>

Reload ==
  /\ pc = "reload" /\ k <= Len(CalleeSaved)
  /\ gpr' = [gpr EXCEPT ![CalleeSaved[k]] = mem[SaveSlot(k)]]
  /\ k' = k + 1
  /\ UNCHANGED <<sig, lay, args, pc, fpr, gfrom, mem, sp>>

Restore ==
  /\ pc = "reload" /\ k > Len(CalleeSaved)
  /\ pc' = "restored" /\ sp' = -8
  /\ UNCHANGED <<sig, lay, args, k, gpr, fpr, gfrom, mem>>

Pop ==
  /\ pc = "restored" /\ pc' = "popped" /\ sp' = sp + 8
  /\ UNCHANGED <<sig, lay, args, k, gpr, fpr, gfrom, mem>>

Next ==
  \/ Assign \/ Enter \/ Push \/ Reserve \/ Save \/ StartMoves \/ IntMove \/ MovesDone
  \/ LoadReg \/ CopyStack \/ Moved \/ Call
  \/ GoReturns \/ MoveResult \/ ResultsDone \/ Reload \/ Restore \/ Pop

Spec == Init /\ [][Next]_vars

-----------------------------------------------------------------------------
(* The tables.                                                               *)

SpDelta ==
  CASE pc \in {"assign", "entry", "popped"} -> 0
    [] pc \in {"pushed", "restored"} -> 8
    [] OTHER -> 8 + Frame

(* .goc.gcmaps: the bits of the Go area are written as the stub's own        *)
(* argument bits, which the runtime counts from the word above the stub's    *)
(* return address.                                                           *)
ArgBits ==
  {s.off \div 8 : s \in {x \in args.spills : types[x.arg] = "ptr"}}
    \cup {GoLoc(n).off \div 8 : n \in {i \in DOMAIN types : types[i] = "ptr" /\ GoLoc(i).kind = "stack"}}

Marked == {8 + 8 * b : b \in ArgBits}

-----------------------------------------------------------------------------

(* At the call every argument is where the Go convention looks for it, and   *)
(* r14 is g.                                                                 *)
ArgsReachGo ==
  pc = "call" =>
    /\ gpr["r14"] = G
    /\ \A n \in DOMAIN types :
         n = IF GoLoc(n).kind = "stack" THEN mem[sp + GoLoc(n).off]
             ELSE IF Bank(types[n]) = "int" THEN gpr[GoLoc(n).reg] ELSE fpr[GoLoc(n).reg]

(* The C caller gets its callee-saved registers and its frame pointer back,  *)
(* whatever the Go function wrote into its argument area.                    *)
CalleeSavedKept ==
  pc = "popped" => /\ \A i \in DOMAIN CalleeSaved : gpr[CalleeSaved[i]] = Kept(i)
                   /\ mem[-8] = CallerFP /\ mem[0] = LR

(* The results are in the C result registers at the return, rbx included     *)
(* although it is restored on the way.                                       *)
ResultsReachC ==
  pc = "popped" =>
    \A n \in DOMAIN sig.ret :
      Result(n) = IF Bank(sig.ret[n]) = "int" THEN gpr[cRet[n]] ELSE fpr[cRet[n]]

(* The frame table gives the distance to the entry SP at every instruction,  *)
(* so the stack can grow inside the Go function.                             *)
StubUnwinds == pc # "rejected" => sp = -SpDelta

(* What the stub's own map marks at the call lies in the frame of the stub,  *)
(* where the Go argument area is; the words of the C caller are the C        *)
(* caller's to describe.                                                     *)
MarksOwnFrame == pc = "call" => \A a \in Marked : a \in sp .. -8
=============================================================================
