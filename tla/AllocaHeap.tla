----------------------------- MODULE AllocaHeap -----------------------------
(***************************************************************************)
(* --no-fast-stack-alloca: goc_dynalloc takes one malloc block per alloca, *)
(* with a 16-byte header {previous, size} that chains it to the function's *)
(* scope variable; goc_dynrelease walks the chain and frees every block.   *)
(*                                                                         *)
(* head[i] is the scope variable of the i-th call in progress and cur the  *)
(* block the release of the innermost call has reached.  malloc and free   *)
(* are external: malloc gives a free block of the asked size or NULL.      *)
(* owner and bytes are history variables: the call that asked for a block, *)
(* and how much it asked for.                                              *)
(***************************************************************************)
EXTENDS Integers, FiniteSets

CONSTANTS Block,      \* addresses malloc may return
          Span,       \* the distance between them: the largest block
          WordSize,   \* 2^64
          Request, MaxDepth

VARIABLES depth, head, cur, header, allocated, owner, bytes, fatal

vars == <<depth, head, cur, header, allocated, owner, bytes, fatal>>

NULL == 0
None == -1            \* no release in progress

(* A request of exactly WordSize - 16 bytes is left out: it passes the guard *)
(* against overflow, its block size is 0, and the header is written to a     *)
(* block that has no room for it.                                            *)
HeapAssumption ==
  /\ WordSize \in Nat /\ WordSize % 16 = 0 /\ WordSize >= 16
  /\ Span \in Nat /\ Span < WordSize
  /\ Block \subseteq Nat \ {0}
  /\ \A b, c \in Block : b < c => b + Span <= c
  /\ Request \subseteq (0 .. WordSize - 1) \ {WordSize - 16}
  /\ MaxDepth \in Nat

Overflows(n) == n > WordSize - 16

BlockSize(n) == (n + 16) % WordSize

NoHeader == [previous |-> NULL, size |-> 0]

Init ==
  /\ depth = 0
  /\ head = [i \in 1 .. MaxDepth |-> NULL]
  /\ cur = None
  /\ header = [b \in Block |-> NoHeader]
  /\ allocated = {}
  /\ owner = [b \in Block |-> 0]
  /\ bytes = [b \in Block |-> 0]
  /\ fatal = "none"

(* lowerDynamicAllocas: the entry block clears the scope variable.           *)
Enter ==
  /\ cur = None /\ depth < MaxDepth
  /\ depth' = depth + 1
  /\ head' = [head EXCEPT ![depth + 1] = NULL]
  /\ UNCHANGED <<cur, header, allocated, owner, bytes, fatal>>

Fatal(message) ==
  /\ fatal' = message
  /\ UNCHANGED <<depth, head, cur, header, allocated, owner, bytes>>

Malloc(size) == IF size > Span THEN {} ELSE Block \ allocated

Link_DropPrevious(size) == [previous |-> NULL, size |-> size]

Link(size) == [previous |-> head[depth], size |-> size]

Allocate(n) ==
  \E b \in Malloc(BlockSize(n)) :
    /\ allocated' = allocated \cup {b}
    /\ header' = [header EXCEPT ![b] = Link(BlockSize(n))]
    /\ head' = [head EXCEPT ![depth] = b]
    /\ owner' = [owner EXCEPT ![b] = depth]
    /\ bytes' = [bytes EXCEPT ![b] = n]
    /\ UNCHANGED <<depth, cur, fatal>>

(* malloc may also fail for reasons of its own.                              *)
DynAlloc(n) ==
  \/ Overflows(n) /\ Fatal("dynamic alloca size overflow")
  \/ ~Overflows(n) /\ Fatal("malloc failed for dynamic alloca")
  \/ ~Overflows(n) /\ Allocate(n)

(* goc_dynrelease: take the chain off the scope variable, ...                *)
ReleaseStart ==
  /\ cur = None /\ depth > 0
  /\ cur' = head[depth]
  /\ head' = [head EXCEPT ![depth] = NULL]
  /\ UNCHANGED <<depth, header, allocated, owner, bytes, fatal>>

(* ... read a block's previous, then free it, ...  Free leaves nothing of    *)
(* the header to rely on.                                                    *)
Free(b) ==
  /\ allocated' = allocated \ {b}
  /\ header' = [c \in Block |-> IF c = b THEN NoHeader ELSE header[c]]
  /\ owner' = [c \in Block |-> IF c = b THEN 0 ELSE owner[c]]
  /\ bytes' = [c \in Block |-> IF c = b THEN 0 ELSE bytes[c]]

ReleaseBody_NoAdvance ==
  /\ cur \notin {None, NULL}
  /\ cur' = cur
  /\ Free(cur)
  /\ UNCHANGED <<depth, head, fatal>>

ReleaseBody ==
  /\ cur \notin {None, NULL}
  /\ cur' = header[cur].previous
  /\ Free(cur)
  /\ UNCHANGED <<depth, head, fatal>>

(* ... and return when the chain is used up.                                 *)
ReleaseDone ==
  /\ cur = NULL
  /\ cur' = None
  /\ depth' = depth - 1
  /\ UNCHANGED <<head, header, allocated, owner, bytes, fatal>>

Next ==
  /\ fatal = "none"
  /\ \/ Enter
     \/ cur = None /\ depth > 0 /\ \E n \in Request : DynAlloc(n)
     \/ ReleaseStart
     \/ ReleaseBody
     \/ ReleaseDone

Spec == Init /\ [][Next]_vars

-----------------------------------------------------------------------------

TypeOK ==
  /\ depth \in 0 .. MaxDepth
  /\ head \in [1 .. MaxDepth -> Block \cup {NULL}]
  /\ cur \in Block \cup {NULL, None}
  /\ header \in [Block -> [previous : Block \cup {NULL}, size : 0 .. WordSize - 1]]
  /\ allocated \subseteq Block
  /\ owner \in [Block -> 0 .. MaxDepth]
  /\ bytes \in [Block -> Request \cup {0}]
  /\ fatal \in {"none", "dynamic alloca size overflow",
                "malloc failed for dynamic alloca"}

(* Blocks on the chain that starts at b.                                     *)
Chain(b) ==
  LET step[S \in SUBSET Block] ==
        LET T == S \cup ({header[c].previous : c \in S} \ {NULL})
        IN IF T = S THEN S ELSE step[T]
  IN step[{b} \ {NULL, None}]

(* Every allocated block is on the chain of the call that asked for it and   *)
(* of no other, so a release frees all of a call's blocks and none of its    *)
(* callers': nothing leaks and nothing is freed twice.  The block a release  *)
(* is about to read is on it too, so the walk reads no freed header.         *)
ChainsPartition ==
  \A i \in 1 .. MaxDepth :
    {b \in allocated : owner[b] = i}
      = IF i = depth /\ cur # None THEN Chain(cur) ELSE Chain(head[i])

(* A release that has begun ends: the chain has no cycle.                    *)
ReleaseEnds == (cur # None) ~> (cur \in {None, NULL})

(* For every request but one of exactly WordSize - 16 bytes (2^64 - 16), the  *)
(* heap lowering implements the promise of alloca.  The blocks still to be   *)
(* freed by a release in progress are the function's until it returns.       *)
Scope == INSTANCE AllocaScope
  WITH live <- {[depth |-> owner[b], base |-> b + 16, len |-> header[b].size - 16,
                   asked |-> bytes[b]]
                  : b \in {c \in allocated : cur = None \/ owner[c] < depth}},
       depth <- IF cur = None THEN depth ELSE depth - 1,
       trapped <- fatal # "none"

ScopeSpec == Scope!Spec
=============================================================================
