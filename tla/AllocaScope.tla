---------------------------- MODULE AllocaScope ----------------------------
(***************************************************************************)
(* What C's alloca promises to a function whose dynamic allocas were       *)
(* lowered to goc_dynalloc: storage of the requested size that overlaps no *)
(* other live storage and lives until the function returns, however many   *)
(* calls are made meanwhile.  A request that cannot be met ends the        *)
(* process.  AllocaPool and AllocaHeap are the two lowerings.              *)
(***************************************************************************)
EXTENDS Integers

CONSTANTS Request,    \* the sizes programs ask for
          MaxDepth    \* a bound on nested calls

VARIABLES depth,      \* calls in progress of functions that use alloca
          live,       \* live storage: [depth, base, len, asked]
          trapped     \* the process was ended by a fatal error

vars == <<depth, live, trapped>>

Overlap(b, c) == b.base < c.base + c.len /\ c.base < b.base + b.len

Init == depth = 0 /\ live = {} /\ trapped = FALSE

Enter ==
  /\ depth < MaxDepth
  /\ depth' = depth + 1
  /\ UNCHANGED <<live, trapped>>

Alloca(n) ==
  /\ depth > 0
  /\ \E b \in live' :
       /\ b.depth = depth /\ b.asked = n /\ b.len >= n
       /\ live' = live \cup {b}
       /\ \A c \in live : ~Overlap(b, c)
  /\ UNCHANGED <<depth, trapped>>

Return ==
  /\ depth > 0
  /\ live' = {b \in live : b.depth < depth}
  /\ depth' = depth - 1
  /\ UNCHANGED trapped

Trap == trapped' = TRUE /\ UNCHANGED <<depth, live>>

Next == ~trapped /\ (Enter \/ (\E n \in Request : Alloca(n)) \/ Return \/ Trap)

Spec == Init /\ [][Next]_vars
=============================================================================
