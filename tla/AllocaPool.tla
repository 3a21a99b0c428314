----------------------------- MODULE AllocaPool -----------------------------
(***************************************************************************)
(* --fast-stack-alloca: goc_dynalloc bumps a cursor in a pool of the       *)
(* module, goc_dynrelease puts it back to the watermark the function's     *)
(* first allocation recorded in its scope variable.                        *)
(*                                                                         *)
(* mark[i] is the scope variable ("goc.dynalloc.head") of the i-th call in *)
(* progress; live is a history variable, the storage handed out so far to  *)
(* calls that have not returned.                                           *)
(***************************************************************************)
EXTENDS AllocaConst

VARIABLES depth, off, mark, live, fatal

poolVars == <<depth, off, mark, live, fatal>>

NULL == 0

Aligned(bytes) == (bytes + 15) - ((bytes + 15) % 16)

Overflows(bytes) == bytes > WordSize - 16

PoolInit ==
  /\ depth = 0
  /\ off = 0
  /\ mark = [i \in 1 .. MaxDepth |-> NULL]
  /\ live = {}
  /\ fatal = "none"

(* lowerDynamicAllocas: the entry block clears the scope variable.           *)
Enter ==
  /\ depth < MaxDepth
  /\ depth' = depth + 1
  /\ mark' = [mark EXCEPT ![depth + 1] = NULL]
  /\ UNCHANGED <<off, live, fatal>>

Fatal(message) ==
  /\ fatal' = message
  /\ UNCHANGED <<depth, off, mark, live>>

(* The first bump of a call saves the watermark, later ones leave it alone.  *)
Watermark(m, base) == IF m = NULL THEN base ELSE m

Exhausts(bytes) == Aligned(bytes) > PoolBytes - off

Bump(bytes) ==
  LET base == PoolBase + off
  IN /\ mark' = [mark EXCEPT ![depth] = Watermark(@, base)]
     /\ off' = off + Aligned(bytes)
     /\ live' = live \cup {[depth |-> depth, base |-> base, len |-> Aligned(bytes),
                             asked |-> bytes]}
     /\ UNCHANGED <<depth, fatal>>

DynAlloc(bytes) ==
  \/ Overflows(bytes) /\ Fatal("dynamic alloca size overflow")
  \/ ~Overflows(bytes) /\ Exhausts(bytes) /\ Fatal("alloca pool exhausted")
  \/ ~Overflows(bytes) /\ ~Exhausts(bytes) /\ Bump(bytes)

(* goc_dynrelease and the return it precedes.                                *)
Released_ToStart(m) == 0

Released(m) == IF m = NULL THEN off ELSE m - PoolBase

WatermarkCorrupt(m) == m # NULL /\ ~(m >= PoolBase /\ m <= PoolBase + off)

Return ==
  /\ depth > 0
  /\ IF WatermarkCorrupt(mark[depth])
     THEN Fatal("alloca pool watermark corrupt")
     ELSE /\ off' = Released(mark[depth])
          /\ mark' = [mark EXCEPT ![depth] = NULL]
          /\ depth' = depth - 1
          /\ live' = {b \in live : b.depth < depth}
          /\ UNCHANGED fatal

PoolNext ==
  /\ fatal = "none"
  /\ \/ Enter
     \/ depth > 0 /\ \E n \in Request : DynAlloc(n)
     \/ Return

PoolSpec == PoolInit /\ [][PoolNext]_poolVars

-----------------------------------------------------------------------------

PoolTypeOK ==
  /\ depth \in 0 .. MaxDepth
  /\ off \in 0 .. PoolBytes
  /\ mark \in [1 .. MaxDepth -> {NULL} \cup PoolBase .. PoolBase + PoolBytes]
  /\ live \subseteq [depth : 1 .. MaxDepth, base : PoolBase .. PoolBase + PoolBytes,
                     len : 0 .. PoolBytes, asked : Request]
  /\ fatal \in {"none", "dynamic alloca size overflow", "alloca pool exhausted",
                "alloca pool watermark corrupt"}

(* The storage of a call is never handed out again while the call is in      *)
(* progress, though the cursor goes back whenever a callee returns.          *)
NoOverlap ==
  \A b, c \in live : b = c \/ b.base + b.len <= c.base \/ c.base + c.len <= b.base

(* Storage is 16-byte aligned, whatever was requested and released before.   *)
BlocksAligned == \A b \in live : b.base % 16 = 0

(* No call returns with more of the pool taken than it found: when the last  *)
(* one has returned the cursor is back at the start.                         *)
Drained == depth = 0 => off = 0

(* The watermark a release checks is always inside the pool: the "corrupt"   *)
(* trap is unreachable as long as calls return in LIFO order.                *)
NeverCorrupt == fatal # "alloca pool watermark corrupt"

Ends(b) == b.base + b.len

(* Why: marks and storage are ordered by call depth, everything lies below   *)
(* the cursor, and the outermost watermark in use is the start of the pool.  *)
PoolInv ==
  /\ PoolTypeOK
  /\ off % 16 = 0 /\ \A i \in 1 .. MaxDepth : mark[i] % 16 = 0
  /\ BlocksAligned
  /\ \A i \in 1 .. MaxDepth : i > depth => mark[i] = NULL
  /\ \A i \in 1 .. MaxDepth : mark[i] <= PoolBase + off
  /\ \A i, j \in 1 .. MaxDepth : i < j /\ mark[j] # NULL => mark[i] <= mark[j]
  /\ \A b \in live : /\ b.depth <= depth
                     /\ mark[b.depth] # NULL
                     /\ mark[b.depth] <= b.base
                     /\ Ends(b) <= PoolBase + off
  /\ \A b \in live, j \in 1 .. MaxDepth :
       b.depth < j /\ mark[j] # NULL => Ends(b) <= mark[j]
  /\ NoOverlap
  /\ (\A i \in 1 .. MaxDepth : mark[i] = NULL) => off = 0
  /\ \A i \in 1 .. MaxDepth :
       mark[i] # NULL /\ (\A j \in 1 .. i - 1 : mark[j] = NULL) => mark[i] = PoolBase
  /\ NeverCorrupt

(* The pool lowering implements the promise of alloca.                       *)
Scope == INSTANCE AllocaScope WITH trapped <- fatal # "none"

ScopeSpec == Scope!Spec
=============================================================================
