------------------------------ MODULE StubArgs ------------------------------
(***************************************************************************)
(* The cold block of the stack check saves the C argument registers below  *)
(* varp, and the pointer map GocObjTables writes for the morestack call    *)
(* tells the runtime which of those words to adjust when it copies the     *)
(* stack.  This module follows the argument registers of one entry through *)
(* the block, for every signature of up to MaxArgs parameters.             *)
(*                                                                         *)
(* A word is "stack" (an address in the old stack), "moved" (the same      *)
(* address in the new one) or "other".  Integer registers hold "stack",    *)
(* too: a number that happens to look like a stack address.                *)
(***************************************************************************)
EXTENDS Integers, Sequences, SequencesExt, FiniteSetsExt

CONSTANTS Types,       \* parameter types: "ptr", "int", "i128", "float", "byval", "agg"
          MaxArgs,
          FrameWords   \* sizes of the body's frame, in words below varp

VARIABLES arch, sig, frame, \* the function being entered
          reg,              \* argument registers, and the frame pointer
          mem,              \* words below varp: mem[0] is at varp
          spc

vars == <<arch, sig, frame, reg, mem, spc>>

NRegs(a) == IF a = "arm64" THEN 8 ELSE 6

(* Registers are numbered in the order of the C convention.                  *)
FP == -1
RAX == -2

-----------------------------------------------------------------------------

(* sysvPointerRegs: the registers that hold pointers on entry, and whether   *)
(* the signature is one it models.                                           *)
Start == [ok |-> TRUE, used |-> 0, mask |-> {}]

Even(a, n) == IF a = "arm64" /\ n % 2 = 1 THEN n + 1 ELSE n

Scan(a, s, t) ==
  CASE ~s.ok                                    -> s
    [] s.ok /\ t = "ptr" /\ s.used < NRegs(a)   ->
         [s EXCEPT !.used = @ + 1, !.mask = @ \cup {s.used}]
    [] s.ok /\ t = "int" /\ s.used < NRegs(a)   -> [s EXCEPT !.used = @ + 1]
    [] s.ok /\ t = "i128"                       ->
         LET u == Even(a, s.used)
         IN [s EXCEPT !.used = IF u + 2 <= NRegs(a) THEN u + 2 ELSE u]
    [] s.ok /\ t = "agg"                        -> [s EXCEPT !.ok = FALSE]
    [] OTHER                                    -> s

PointerRegs(a, params) == FoldLeft(LAMBDA s, t : Scan(a, s, t), Start, params)

(* Which word below varp the cold block saves argument register r in.        *)
PushOrder == <<FP, RAX, 0, 1, 2, 3, 4, 5>>

SavedAt(a, r) ==
  IF a = "amd64" THEN (CHOOSE i \in DOMAIN PushOrder : PushOrder[i] = r) - 1
                 ELSE IF r % 2 = 0 THEN r + 1 ELSE r - 1

(* stubSlots: what the target says of it.                                    *)
StubSlots_NoRax(a) ==
  IF a = "amd64" THEN {[arg |-> r, word |-> r + 1] : r \in 0 .. 5}
  ELSE {[arg |-> r, word |-> IF r % 2 = 0 THEN r + 1 ELSE r - 1] : r \in (0 .. 7) \ {1}}

StubSlots(a) ==
  IF a = "amd64" THEN {[arg |-> r, word |-> r + 2] : r \in 0 .. 5}
  ELSE {[arg |-> r, word |-> IF r % 2 = 0 THEN r + 1 ELSE r - 1] : r \in (0 .. 7) \ {1}}

(* The locals bitmap of the morestack call, bit 0 its lowest word.           *)
Words_Frame(a, n) == n

Words(a, n) == Max({n} \cup {s.word : s \in StubSlots(a)})

Bitmap(a, n, mask) ==
  {Words(a, n) - s.word : s \in {t \in StubSlots(a) : t.arg \in mask /\ t.word \in 1 .. Words(a, n)}}

-----------------------------------------------------------------------------

(* The calling conventions.  First[i] is the integer register parameter i    *)
(* starts at, if it is passed in registers.                                  *)
Units(t) == CASE t \in {"ptr", "int"} -> 1 [] t \in {"i128", "agg"} -> 2 [] OTHER -> 0

Place(a, next, t) ==
  LET first == IF t = "i128" THEN Even(a, next) ELSE next
  IN IF first + Units(t) <= NRegs(a) THEN [first |-> first, next |-> first + Units(t)]
     ELSE [first |-> NRegs(a), next |-> IF a = "arm64" THEN NRegs(a) ELSE next]

Placed(a, params) ==
  LET next[i \in 0 .. Len(params)] ==
        IF i = 0 THEN 0 ELSE Place(a, next[i - 1], params[i]).next
  IN [i \in 1 .. Len(params) |-> Place(a, next[i - 1], params[i])]

CarriesPointer(a, params, r) ==
  \E i \in DOMAIN params : params[i] = "ptr" /\ Placed(a, params)[i].first = r

-----------------------------------------------------------------------------

ArgRegs == 0 .. NRegs(arch) - 1

Init ==
  /\ arch \in {"amd64", "arm64"}
  /\ sig \in UNION {[1 .. n -> Types] : n \in 0 .. MaxArgs}
  /\ frame \in FrameWords
  /\ reg = [r \in {FP} \cup ArgRegs |-> "stack"]
  /\ mem = [w \in {} |-> "other"]
  /\ spc = "compile"

(* goc-llc refuses what it cannot describe, on amd64.                        *)
Compile ==
  /\ spc = "compile"
  /\ spc' = IF arch = "amd64" /\ ~PointerRegs(arch, sig).ok THEN "refused" ELSE "check"
  /\ UNCHANGED <<arch, sig, frame, reg, mem>>

(* The check fails: the cold block saves the registers.  AArch64 leaves the  *)
(* frame pointer to the runtime, which moves it with the goroutine's state.  *)
Save ==
  /\ spc = "check"
  /\ mem' = [w \in 0 .. 7 |->
               LET at == {r \in DOMAIN reg : /\ r = FP => arch = "amd64"
                                            /\ SavedAt(arch, r) = w}
               IN IF at = {} THEN "other" ELSE reg[CHOOSE r \in at : TRUE]]
  /\ spc' = "stub"
  /\ UNCHANGED <<arch, sig, frame, reg>>

Adjusted(v) == IF v = "stack" THEN "moved" ELSE v

(* copystack adjusts the word at varp, where it expects a frame pointer, and *)
(* the words the bitmap names, counted from its lowest word.                 *)
CopyStack ==
  /\ spc = "stub"
  /\ LET n == Words(arch, frame)
         marked == {0} \cup {n - b : b \in Bitmap(arch, frame, PointerRegs(arch, sig).mask)}
     IN mem' = [w \in DOMAIN mem |-> IF w \in marked THEN Adjusted(mem[w]) ELSE mem[w]]
  /\ reg' = [r \in DOMAIN reg |->
               IF r = FP /\ arch = "arm64" THEN Adjusted(reg[r]) ELSE "other"]
  /\ spc' = "copied"
  /\ UNCHANGED <<arch, sig, frame>>

Restore ==
  /\ spc = "copied"
  /\ reg' = [r \in DOMAIN reg |->
               IF r = FP /\ arch = "arm64" THEN reg[r] ELSE mem[SavedAt(arch, r)]]
  /\ spc' = "done"
  /\ UNCHANGED <<arch, sig, frame, mem>>

Next == Compile \/ Save \/ CopyStack \/ Restore

Spec == Init /\ [][Next]_vars

-----------------------------------------------------------------------------

(* Back at the check, every argument register that carries a pointer has     *)
(* moved with the stack, the frame pointer has, and integers are what they   *)
(* were, except x1: it is saved where the runtime expects a frame pointer.   *)
ArgsMove ==
  spc = "done" =>
    /\ reg[FP] = "moved"
    /\ \A r \in ArgRegs :
         IF CarriesPointer(arch, sig, r) THEN reg[r] = "moved"
         ELSE reg[r] = "stack" \/ (arch = "arm64" /\ r = 1)
=============================================================================
