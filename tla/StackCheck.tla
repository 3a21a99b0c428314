----------------------------- MODULE StackCheck -----------------------------
(***************************************************************************)
(* The stack check goc-llc puts in front of C functions, and the cold      *)
(* block it enters when the frame does not fit: GocStackCheck decides, the *)
(* x86-64 and AArch64 hooks emit, the Go runtime grows, shrinks and        *)
(* preempts.                                                               *)
(*                                                                         *)
(* Positions on the stack are distances below its high end, which a copy   *)
(* of the stack preserves; addresses appear only where the code computes   *)
(* with them.  call[0] is the Go function that calls C, call[1] its Go ABI  *)
(* thunk, call[2 .. depth] the C functions in progress.                    *)
(***************************************************************************)
EXTENDS Integers

CONSTANTS StackSmall, StackBig,  \* AbiProfiles.def
          StackGuard,            \* the runtime's: stackguard0 = stack.lo + StackGuard
          Preempt,               \* stackguard0 while a preemption is requested
          WordSize,              \* 2^64
          PtrSize,               \* what a CALL pushes (0 on AArch64)
          StubBytes,             \* what the cold block saves
          ThunkFrames,           \* frame sizes of Go ABI thunks, by signature
          Frames,                \* frame sizes of C functions
          StackSizes, StackTops, \* sizes and high ends stacks may have
          GoUsed,                \* what Go uses before it calls C
          MaxDepth, MaxPreempt

VARIABLES hi, size,   \* the stack is [hi - size, hi)
          guard0,     \* g.stackguard0
          used,       \* hi - SP
          depth, call, \* the calls in progress: kind, calls, used
          pc,         \* "run", "check", "stub", "dead"
          entering,   \* the function being entered: frame, calls
          preempts

vars == <<hi, size, guard0, used, depth, call, pc, entering, preempts>>

lo == hi - size
SP == hi - used

ASSUME StackAssumption ==
  /\ {StackSmall, StackBig, StackGuard, PtrSize, StubBytes, MaxDepth, MaxPreempt, Preempt,
      WordSize} \subseteq Nat
  /\ 0 < StackSmall /\ StackSmall < StackBig /\ 0 < StubBytes
  /\ Preempt < WordSize
  /\ Frames \subseteq 0 .. WordSize - 1 /\ ThunkFrames \subseteq Nat
  /\ StackSizes \subseteq Nat
  /\ GoUsed \subseteq Nat

(* Stacks are mapped above the first page and below the poison value of      *)
(* stackguard0; Go's nosplit budget, StackGuard - StackSmall, covers a cold  *)
(* block (248 of 800 bytes on x86-64, 368 on AArch64) and a nosplit leaf.    *)
ASSUME PlacementAssumption ==
  /\ StackTops \subseteq Nat
  /\ \A h \in StackTops, n \in StackSizes : h - n > StackBig /\ h <= Preempt
  /\ StubBytes + 2 * PtrSize <= StackGuard - StackSmall
  /\ StackSmall + PtrSize <= StackGuard - StackSmall

-----------------------------------------------------------------------------

Word(n) == IF n < 0 THEN n + WordSize ELSE n

Leaf(frame, calls) == frame <= StackSmall /\ ~calls

NoSplit(frame, calls) == frame <= 0 \/ Leaf(frame, calls)

Tier(frame) ==
  CASE frame <= StackSmall -> "Small"
    [] frame > StackSmall /\ frame <= StackBig -> "Big"
    [] OTHER -> "Huge"

(* The branches emitCheck takes to the cold block.                           *)
ToStub_NoBorrow(frame, sp, guard) ==
  IF Tier(frame) = "Small" THEN sp <= guard
  ELSE Word(sp - (frame - StackSmall)) <= guard

ToStub_StackLo(frame, sp, guard) == sp - (frame - StackSmall) <= lo + StackGuard

ToStub(frame, sp, guard) ==
  CASE Tier(frame) = "Small" -> sp <= guard
    [] Tier(frame) = "Big"   -> Word(sp - (frame - StackSmall)) <= guard
    [] Tier(frame) = "Huge"  -> \/ sp < frame - StackSmall
                                \/ Word(sp - (frame - StackSmall)) <= guard

(* What the SP_DELTA table of the function says at most: the runtime asks    *)
(* funcMaxSPDelta how much to grow.                                          *)
MaxSPDelta_NoBody(frame) == StubBytes

MaxSPDelta(frame) == IF frame >= StubBytes THEN frame ELSE StubBytes

Kinds == {"go", "thunk", "checked", "nosplit"}

Init ==
  /\ hi \in StackTops /\ size \in StackSizes
  /\ guard0 = lo + StackGuard
  /\ used \in {u \in GoUsed : size - u > StackGuard - StackSmall}
  /\ depth = 0
  /\ call = [i \in 0 .. MaxDepth |-> [kind |-> "go", calls |-> TRUE, used |-> used]]
  /\ pc = "run" /\ entering = [frame |-> 0, calls |-> FALSE] /\ preempts = 0

Push(kind, calls, u) ==
  /\ depth' = depth + 1
  /\ call' = [call EXCEPT ![depth + 1] = [kind |-> kind, calls |-> calls, used |-> u]]
  /\ used' = u

(* The Go linker refuses a chain of nosplit functions, from a Go function    *)
(* that has checked its stack to position u, that is over the budget.  Cold  *)
(* blocks are not in its count.                                              *)
Linked(u) == u - call[0].used <= StackGuard - StackSmall

(* Go, which has passed a check of its own, calls the thunk of a C function. *)
(* The thunk's frame holds the outgoing arguments of the signature.          *)
CallThunk(frame) ==
  /\ pc = "run" /\ depth = 0 /\ depth < MaxDepth
  /\ Linked(used + PtrSize + frame + PtrSize)
  /\ Push("thunk", TRUE, used + PtrSize + frame)
  /\ UNCHANGED <<hi, size, guard0, pc, entering, preempts>>

(* A thunk or a C function calls a C function.  One that makes calls has a   *)
(* frame: its frame pointer is in it.                                        *)
CallC(frame, calls) ==
  /\ pc = "run" /\ call[depth].kind # "go" /\ call[depth].calls /\ depth < MaxDepth
  /\ frame = 0 => ~calls
  /\ \/ /\ NoSplit(frame, calls)
        /\ call[depth].kind = "thunk" => Linked(used + PtrSize + frame)
        /\ Push("nosplit", calls, used + PtrSize + frame)
        /\ UNCHANGED <<pc, entering>>
     \/ /\ ~NoSplit(frame, calls)
        /\ pc' = "check"
        /\ entering' = [frame |-> frame, calls |-> calls]
        /\ used' = used + PtrSize
        /\ UNCHANGED <<depth, call>>
  /\ UNCHANGED <<hi, size, guard0, preempts>>

(* The check block: into the cold block, or into the body.                   *)
Check ==
  /\ pc = "check"
  /\ \/ /\ ToStub(entering.frame, SP, guard0)
        /\ pc' = "stub"
        /\ UNCHANGED <<used, depth, call>>
     \/ /\ ~ToStub(entering.frame, SP, guard0)
        /\ pc' = "run"
        /\ Push("checked", entering.calls, used + entering.frame)
  /\ UNCHANGED <<hi, size, guard0, entering, preempts>>

(* What was recorded of the call is forgotten.                               *)
Return ==
  /\ pc = "run" /\ depth > 0
  /\ depth' = depth - 1
  /\ call' = [call EXCEPT ![depth] = call[0]]
  /\ used' = call[depth - 1].used
  /\ UNCHANGED <<hi, size, guard0, pc, entering, preempts>>

(* runtime.morestack, called by the cold block StubBytes below the entry SP, *)
(* and the jump back to the check.                                           *)
CopyStack(n) ==
  /\ hi' \in StackTops
  /\ size' = n
  /\ guard0' = hi' - n + StackGuard

(* newstack doubles the stack until the function's frame fits.               *)
Fitting ==
  {n \in StackSizes : n >= 2 * size /\ n - (used + StubBytes) >= MaxSPDelta(entering.frame) + StackGuard}

Grow ==
  /\ pc = "stub" /\ guard0 # Preempt
  /\ \/ /\ \E n \in Fitting : (\A m \in Fitting : n <= m) /\ CopyStack(n)
        /\ pc' = "check"
     \/ /\ Fitting = {}
        /\ pc' = "dead"
        /\ UNCHANGED <<hi, size, guard0>>
  /\ UNCHANGED <<used, depth, call, entering, preempts>>

(* A preempted goroutine comes back with its guard restored and, when less   *)
(* than a quarter of its stack is in use, on a stack of half the size.       *)
Shrinkable(n) ==
  2 * n = size /\ 4 * (used + StubBytes + StackGuard - StackSmall) < size

Preempted ==
  /\ pc = "stub" /\ guard0 = Preempt
  /\ pc' = "check"
  /\ \/ guard0' = lo + StackGuard /\ UNCHANGED <<hi, size>>
     \/ \E n \in StackSizes : Shrinkable(n) /\ CopyStack(n)
  /\ UNCHANGED <<used, depth, call, entering, preempts>>

(* sysmon poisons the guard at any moment.                                   *)
RequestPreempt ==
  /\ guard0 # Preempt /\ pc # "dead" /\ preempts < MaxPreempt
  /\ guard0' = Preempt
  /\ preempts' = preempts + 1
  /\ UNCHANGED <<hi, size, used, depth, call, pc, entering>>

Next ==
  \/ \E frame \in ThunkFrames : CallThunk(frame)
  \/ \E frame \in Frames, calls \in BOOLEAN : CallC(frame, calls)
  \/ Check \/ Return \/ Grow \/ Preempted \/ RequestPreempt

Spec == Init /\ [][Next]_vars

-----------------------------------------------------------------------------

TypeOK ==
  /\ hi \in StackTops /\ size \in StackSizes
  /\ guard0 \in {lo + StackGuard, Preempt}
  /\ used \in Nat /\ entering \in [frame : Frames \cup {0}, calls : BOOLEAN]
  /\ depth \in 0 .. MaxDepth
  /\ call \in [0 .. MaxDepth -> [kind : Kinds, calls : BOOLEAN, used : Nat]]
  /\ pc \in {"run", "check", "stub", "dead"}
  /\ preempts \in 0 .. MaxPreempt

(* Whatever ran before, a body that passed its check has its whole frame on  *)
(* the stack with Go's nosplit budget below it, and a nosplit leaf, which    *)
(* never checks, still has its frame on the stack.  The cold block's saves   *)
(* and its call of morestack stay on the old stack, except below a thunk     *)
(* whose frame leaves less of the budget than the cold block takes: nothing  *)
(* bounds the frame a signature gives a thunk, and the linker's count leaves *)
(* the cold block out.                                                       *)
FrameFits ==
  /\ pc = "run" => /\ call[depth].kind = "checked" => SP - lo > StackGuard - StackSmall
                   /\ SP >= lo
  /\ pc = "stub" /\ (call[depth].kind = "thunk" => Linked(used + StubBytes + PtrSize)) =>
       SP - StubBytes - PtrSize >= lo

(* A poisoned guard is never missed: no function body starts while a         *)
(* preemption is pending, however large its frame.                           *)
PreemptSeen == [][pc = "check" /\ pc' = "run" => guard0 # Preempt]_vars

(* One growth is enough: the size the runtime computes from the SP_DELTA     *)
(* table makes the check succeed when it runs again.                         *)
GrowsOnce ==
  [][pc = "stub" /\ guard0 # Preempt /\ pc' = "check"
       => ~ToStub(entering.frame, SP', guard0')]_vars

(* Why: every call in progress keeps the room below it that its kind needs,  *)
(* on whatever stack it is moved to, because outer calls use less.           *)
Room(i) ==
  /\ call[i].kind \in {"go", "checked"} => size - call[i].used > StackGuard - StackSmall
  /\ call[i].kind = "thunk" => i = 1 /\ Linked(call[i].used + PtrSize)
  /\ call[i].kind = "nosplit" => ~call[i].calls /\ size >= call[i].used

StackInv ==
  /\ TypeOK
  /\ call[0].kind = "go"
  /\ \A i \in 0 .. depth : Room(i)
  /\ \A i \in 0 .. depth : \A j \in 0 .. i : call[j].used <= call[i].used
  /\ \A i \in 0 .. depth : call[i].kind = "thunk" => call[i].calls
  /\ pc = "run" => used = call[depth].used
  /\ pc \in {"check", "stub"} => /\ used = call[depth].used + PtrSize
                                /\ call[depth].kind # "nosplit" /\ depth < MaxDepth
                                /\ entering.frame \in Frames
=============================================================================
