------------------------------ MODULE MCMemory ------------------------------
(***************************************************************************)
(* The storage that stack addresses are kept in and that is handed out     *)
(* like a stack.  Every behaviour belongs to one side.  "runtime": GocUptr *)
(* follows the functions that encode and decode words relative to the top  *)
(* of the stack.  "compiler": ColorEscape follows the pass that decides    *)
(* where they are called.  "pool" and "heap": the two lowerings of a       *)
(* dynamic alloca; a module is compiled with one of them                   *)
(* (fastStackAlloca).  The other sides stay in an initial state.           *)
(***************************************************************************)
EXTENDS MCGocUptr, ColorPrograms, AllocaPool

CONSTANTS Block, Span, HeapRequest

VARIABLES side,
          prog, S, phase, rounds, pc, reg, mem,
          calls, death, head, cur, header, allocated, owner, bytes

colorVars == <<prog, S, phase, rounds, pc, reg, mem>>
heapVars == <<calls, death, head, cur, header, allocated, owner, bytes>>

Color == INSTANCE ColorEscape WITH Programs <- MCPrograms

Heap == INSTANCE AllocaHeap WITH
          Request <- HeapRequest, depth <- calls, fatal <- death

ASSUME HeapAssumption == Heap!HeapAssumption

Idle == prog = Function(<<>>, "none", {}) /\ S = {} /\ phase = "idle" /\ rounds = 0 /\ pc = 0
          /\ reg = <<>> /\ mem = <<>>

Home == g1 :> [lo |-> 3, hi |-> 5] @@ g2 :> [lo |-> 6, hi |-> 9]

MCInit ==
  /\ Init /\ PoolInit /\ Heap!Init
  /\ \/ side = "runtime" /\ Idle
     \/ side = "compiler" /\ stack = Home /\ Color!Init
     \/ side \in {"pool", "heap"} /\ stack = Home /\ Idle

MCNext ==
  /\ UNCHANGED side
  /\ \/ side = "runtime" /\ Next /\ UNCHANGED <<colorVars, poolVars, heapVars>>
     \/ side = "compiler" /\ Color!Next /\ UNCHANGED <<vars, poolVars, heapVars>>
     \/ side = "pool" /\ PoolNext /\ UNCHANGED <<vars, colorVars, heapVars>>
     \/ side = "heap" /\ Heap!Next /\ UNCHANGED <<vars, colorVars, poolVars>>

(* The inlined release loop runs on: nothing else happens on its goroutine.  *)
MCSpec ==
  /\ MCInit /\ [][MCNext]_<<side, vars, colorVars, poolVars, heapVars>>
  /\ WF_heapVars(side = "heap" /\ death = "none" /\ Heap!ReleaseBody)

(* An accepted function never keeps the address of a stack object, as it is, *)
(* outside the stack: encodeEscapingSptrStores found every store that lets   *)
(* one escape, by whatever way the address came there.                       *)
HeapNeverRaw == Color!HeapNeverRaw

(* decodeAutoUptrLoads decodes what is read from storage that may hold       *)
(* encoded words: none is used as an address or returned.                    *)
UsesDecoded == Color!UsesDecoded

(* The chain of a call in progress holds exactly the blocks it asked for     *)
(* (goc_dynalloc links each, goc_dynrelease walks them).                     *)
ChainsPartition == Heap!ChainsPartition

(* A release that has begun ends: the chain has no cycle.                    *)
ReleaseEnds == Heap!ReleaseEnds

(* goc_dynalloc and goc_dynrelease on malloc blocks implement alloca, for    *)
(* every request but the one of exactly 2^64 - 16 bytes, whose block size    *)
(* wraps to 0 behind the overflow guard (HeapAssumption).                    *)
HeapScopeSpec == Heap!ScopeSpec
=============================================================================
