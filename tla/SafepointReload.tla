-------------------------- MODULE SafepointReload --------------------------
(***************************************************************************)
(* How one stack address V of a function survives calls that move the      *)
(* stack: goc-stackmap and goc-reanchor save V in a frame slot where it is *)
(* defined, name the slot in a STACKMAP before every safepoint V is live   *)
(* across and reload V after it; goc-llc hands each STACKMAP to a call     *)
(* (GocStackmapPlacement, GocObjTables).  An address the frame pointer     *)
(* gives for free is computed again instead (rematCrossSafepointUses).     *)
(*                                                                         *)
(* The analysis runs one worklist step at a time, then the rewritten       *)
(* function runs: any real call may move the stack, which makes a register *)
(* stale and adjusts exactly the slots that the map of the call marks.     *)
(***************************************************************************)
EXTENDS SafepointProgram

VARIABLES prog, phase,
          work, liveIn, liveOut,      \* CrossCallLiveness
          rooted, reloads, marks,     \* V has a slot; points V is reloaded after;
                                      \* calls whose map marks the slot
          at, k,                      \* the operation to run next
          reg, slot                   \* "none", "current" or "stale"

reloadVars == <<prog, phase, work, liveIn, liveOut, rooted, reloads, marks, at, k, reg, slot>>
analysis == <<work, liveIn, liveOut>>
rewritten == <<rooted, reloads, marks>>

Code(b) == prog.code[b]
End(b) == Len(Code(b)) + 1
D == prog.def.block
Points == UNION {{b} \X DOMAIN Code(b) : b \in Block}
OpAt(p) == Code(p[1])[p[2]]
IsDef(b, i) == b = D /\ i = prog.def.at

UsesIn(b) ==
  {i \in DOMAIN Code(b) : Code(b)[i] \in Uses} \cup (IF b \in prog.phi THEN {End(b)} ELSE {})

Preds(b) == {p \in Block : b \in prog.succ[p]}

-----------------------------------------------------------------------------
(* CrossCallLiveness.                                                        *)

Exposed == {b \in Block : \E u \in UsesIn(b) : ~(b = D /\ prog.def.at < u)}

Analyse ==
  /\ phase = "liveness"
  /\ liveIn = Exposed /\ work = Exposed /\ liveOut = {}
  /\ rooted = FALSE /\ reloads = {} /\ marks = {}
  /\ at = Entry /\ k = 1
  /\ reg = "none" /\ slot = "none"

ReloadInit == prog \in Program /\ WellFormed(prog) /\ Analyse

Grown_KeepGoing(b) == Preds(b) \ liveIn

Grown(b) == Preds(b) \ (liveIn \cup {D})

Propagate(b) ==
  /\ phase = "liveness" /\ b \in work
  /\ liveOut' = liveOut \cup Preds(b)
  /\ liveIn' = liveIn \cup Grown(b)
  /\ work' = (work \ {b}) \cup Grown(b)
  /\ UNCHANGED <<prog, phase, rewritten, at, k, reg, slot>>

LiveAcross_InBlock(b, i) ==
  /\ ~(b = D /\ i < prog.def.at)
  /\ \E u \in UsesIn(b) : i < u

LiveAcross(b, i) ==
  /\ ~(b = D /\ i < prog.def.at)
  /\ (\E u \in UsesIn(b) : i < u) \/ b \in liveOut

-----------------------------------------------------------------------------
(* The rewrite: rewriteWithSafepointReloads, the records of goc-stackmap     *)
(* (liveAt) or goc-reanchor (publish).                                       *)

Sites == {p \in Points : /\ isSafepoint(OpAt(p)) /\ ~IsDef(p[1], p[2])
                         /\ LiveAcross(p[1], p[2])}

(* DominatorTree::dominates, on operations.                                  *)
Dominates(b, i, c, j) == IF b = c THEN i < j ELSE c \in prog.dom[b]

Live(b, i) ==
  \/ LiveAcross(b, i)
  \/ prog.how = "stackmap" /\ Code(b)[i] \in {"callarg", "softarg"}
  \/ \E c \in Block : \E u \in UsesIn(c) : Dominates(b, i, c, u)

Recorded(p) ==
  /\ IsSite(OpAt(p), prog.how) /\ ~IsDef(p[1], p[2])
  /\ Dominates(D, prog.def.at, p[1], p[2])
  /\ Live(p[1], p[2])

Records == {p \in Points : Recorded(p)}

Rooted ==
  CASE prog.how = "stackmap" -> Records # {}
    [] prog.how = "reanchor" -> Sites # {}
    [] OTHER -> FALSE

(* The call a record is for: the first real call at or after it in its       *)
(* block.  Without one GocStackmapPlacement deletes the record.              *)
Feeds(j, b, i) == j <= i /\ \A n \in j .. i - 1 : Code(b)[n] \notin RealCall

(* Without GocStackmapPlacement the record waits for the next call in the    *)
(* order the blocks are laid out.                                            *)
Takes_NextInLayout(p) ==
  /\ OpAt(p) \in RealCall
  /\ \E q \in Records :
       \/ q[1] = p[1] /\ Feeds(q[2], p[1], p[2])
       \/ q[1] + 1 = p[1] /\ Feeds(q[2], q[1], End(q[1])) /\ Feeds(1, p[1], p[2])

Takes(p) ==
  /\ OpAt(p) \in RealCall
  /\ \E q \in Records : q[1] = p[1] /\ Feeds(q[2], p[1], p[2])

Rewrite ==
  /\ phase = "liveness" /\ work = {}
  /\ phase' = "run"
  /\ rooted' = Rooted
  /\ reloads' = IF Rooted THEN Sites ELSE {}
  /\ marks' = IF Rooted THEN {p \in Points : Takes(p)} ELSE {}
  /\ reg' = IF prog.def.at = 0 THEN "current" ELSE "none"
  /\ slot' = IF prog.def.at = 0 /\ Rooted THEN "current" ELSE "none"
  /\ UNCHANGED <<prog, analysis, at, k>>

-----------------------------------------------------------------------------
(* The rewritten function.  SSA construction makes a use read the last       *)
(* definition or reload on the path that led to it.                          *)

(* separatedBySafepoint: a use in another block than V counts as separated.  *)
Separated(b, u) ==
  \/ b # D \/ ~(prog.def.at < u)
  \/ \E i \in prog.def.at + 1 .. u - 1 : isSafepoint(Code(b)[i])

(* What the use at u reads; an address computed again is never stale.        *)
Read(b, u) == IF prog.how = "remat" /\ Separated(b, u) THEN "current" ELSE reg

WhenMoved(word) == IF word = "current" THEN "stale" ELSE word

SlotAfter(moves) == IF moves /\ <<at, k>> \notin marks THEN WhenMoved(slot) ELSE slot

RegAfter(moves) ==
  IF <<at, k>> \in reloads THEN SlotAfter(moves) ELSE IF moves THEN WhenMoved(reg) ELSE reg

Define ==
  /\ reg' = "current"
  /\ slot' = IF rooted THEN "current" ELSE slot

Execute(moves) ==
  /\ phase = "run" /\ k < End(at)
  /\ moves => Code(at)[k] \in RealCall
  /\ k' = k + 1
  /\ \/ IsDef(at, k) /\ Define
     \/ ~IsDef(at, k) /\ reg' = RegAfter(moves) /\ slot' = SlotAfter(moves)
  /\ UNCHANGED <<prog, phase, analysis, rewritten, at>>

Jump(b) ==
  /\ phase = "run" /\ k = End(at) /\ b \in prog.succ[at]
  /\ at' = b /\ k' = 1
  /\ UNCHANGED <<prog, phase, analysis, rewritten, reg, slot>>

ReloadNext ==
  \/ \E b \in Block : Propagate(b) \/ Jump(b)
  \/ Rewrite
  \/ \E moves \in BOOLEAN : Execute(moves)

ReloadSpec == ReloadInit /\ [][ReloadNext]_reloadVars

-----------------------------------------------------------------------------

(* A set of blocks that paths leave only through V's definition; the blocks  *)
(* on paths that start at those of S and go on without passing it.           *)
Closed(T) == \A b \in T \ {D} : prog.succ[b] \subseteq T

Free(S) == {c \in Block : \A T \in SUBSET Block : S \subseteq T /\ Closed(T) => c \in T}

(* The worklist computes what it is for: V is live across an operation iff   *)
(* some use is reachable from it without passing V's definition.             *)
LivenessExact ==
  phase = "liveness" /\ work = {} =>
    \A p \in Points :
      LET ends == ~(p[1] = D /\ p[2] < prog.def.at)
      IN LiveAcross(p[1], p[2]) <=>
           /\ ends
           /\ \/ \E u \in UsesIn(p[1]) : p[2] < u
              \/ \E b \in Free(prog.succ[p[1]]) : \E u \in UsesIn(b) : b = D => u < prog.def.at

(* Every use of V reads an address of the stack the goroutine has now,       *)
(* whatever path and whichever calls led to it.                              *)
UsesCurrent ==
  phase = "run" /\ k \in UsesIn(at) => Read(at, k) = "current"

(* A slot is marked in the map of a call only where it holds an address of   *)
(* the present stack: never before the save, never an address left over      *)
(* from a stack that is gone.                                                *)
RootsCurrent ==
  phase = "run" /\ <<at, k>> \in marks => slot = "current"
=============================================================================
