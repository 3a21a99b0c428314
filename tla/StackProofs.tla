---------------------------- MODULE StackProofs ----------------------------
(***************************************************************************)
(* Stacks that move.  In every function, however many blocks it has, a use *)
(* of a stack address never reads a stale one, no map marks a slot before  *)
(* it is saved, and at every call the slot that the map marks holds the    *)
(* current address.  The stack check is sound for every frame size, stack  *)
(* size and placement of stacks, and whenever preemptions are requested.   *)
(***************************************************************************)
EXTENDS StackCheck, SafepointReload, TLAPS

(* The leaves are first-order reasoning for Zenon, where they do not name    *)
(* another prover.                                                           *)
USE Zenon

-----------------------------------------------------------------------------
(* Safepoints: the stack addresses reloaded after them.                    *)

Held == {"none", "current", "stale"}

ReloadTypes ==
  /\ prog \in Program /\ WellFormed(prog)
  /\ phase \in {"liveness", "run"}
  /\ work \subseteq Block /\ liveIn \subseteq Block /\ liveOut \subseteq Block
  /\ rooted \in BOOLEAN
  /\ at \in Block /\ k \in 1 .. End(at)
  /\ phase = "liveness" => at = Entry /\ k = 1
  /\ reg \in Held /\ slot \in Held

(* What the worklist maintains: every block it still has to look at is in    *)
(* work, and only blocks that V's definition dominates are ever live.        *)
LiveInv ==
  /\ work \subseteq liveIn
  /\ Exposed \subseteq liveIn
  /\ liveIn \subseteq prog.dom[D]
  /\ \A b \in liveIn \ work : Preds(b) \subseteq liveOut
  /\ liveOut \subseteq liveIn \cup {D}

RewriteInv ==
  phase = "run" =>
    /\ work = {}
    /\ rooted = Rooted
    /\ reloads = IF Rooted THEN Sites ELSE {}
    /\ marks = IF Rooted THEN {p \in Points : Takes(p)} ELSE {}

(* V is needed before the operation at i of b.                               *)
LiveBefore(b, i) ==
  /\ ~(b = D /\ i <= prog.def.at)
  /\ (\E u \in UsesIn(b) : i <= u) \/ b \in liveOut

(* No safepoint since V's definition in this block.                          *)
Unmoved(i) == \A j \in prog.def.at + 1 .. i - 1 : ~isSafepoint(Code(D)[j])

RunInv ==
  phase = "run" =>
    /\ Dominates(D, prog.def.at, at, k) => reg # "none" /\ (rooted => slot # "none")
    /\ prog.how # "remat" /\ LiveBefore(at, k) => reg = "current" /\ (rooted => slot = "current")
    /\ prog.how = "remat" /\ at = D /\ prog.def.at < k /\ Unmoved(k) => reg = "current"

ReloadInv == ReloadTypes /\ LiveInv /\ RewriteInv /\ RunInv

(* What LLVM guarantees about the function under analysis.                   *)
LEMMA ProgramTypes ==
  ASSUME ReloadTypes
  PROVE  /\ D \in Block /\ prog.def.at \in Nat
         /\ prog.succ \in [Block -> SUBSET Block] /\ prog.dom \in [Block -> SUBSET Block]
         /\ prog.phi \subseteq Block
         /\ prog.how \in {"stackmap", "reanchor", "remat"}
         /\ \A b \in Block : /\ Code(b) \in Seq(Op) /\ Len(Code(b)) \in Nat
                             /\ DOMAIN Code(b) = 1 .. Len(Code(b))
                             /\ End(b) = Len(Code(b)) + 1 /\ End(b) \in Nat
  <1>1. prog \in Program
    BY DEF ReloadTypes
  <1>2. /\ prog.def \in [block : Block, at : Nat]
        /\ prog.succ \in [Block -> SUBSET Block] /\ prog.dom \in [Block -> SUBSET Block]
        /\ prog.phi \subseteq Block /\ prog.code \in [Block -> Seq(Op)]
        /\ prog.how \in {"stackmap", "reanchor", "remat"}
    BY <1>1 DEF Program
  <1>3. \A b \in Block : Code(b) \in Seq(Op)
    BY <1>2 DEF Code
  <1>4. \A b \in Block : /\ Len(Code(b)) \in Nat /\ DOMAIN Code(b) = 1 .. Len(Code(b))
                         /\ End(b) = Len(Code(b)) + 1 /\ End(b) \in Nat
    <2>1. \A s \in Seq(Op) : Len(s) \in Nat /\ DOMAIN s = 1 .. Len(s) /\ Len(s) + 1 \in Nat
      BY SMT
    <2>2. \A b \in Block : End(b) = Len(Code(b)) + 1
      BY DEF End
    <2> QED
      BY <1>3, <2>1, <2>2
  <1> QED
    BY <1>2, <1>3, <1>4 DEF D

(* And of its graph, its dominator tree and the uses of V.                   *)
LEMMA ProgramFacts ==
  ASSUME ReloadTypes
  PROVE  /\ \A b \in Block : Entry \notin prog.succ[b] /\ b \notin prog.dom[b]
                             /\ Entry \notin prog.dom[b] /\ prog.dom[b] = Dominated(prog, b)
         /\ \A b, c, q \in Block : c \in prog.dom[b] /\ c \in prog.succ[q] => q = b \/ q \in prog.dom[b]
         /\ prog.def.at = 0 => D = Entry
         /\ prog.def.at <= Len(Code(D))
         /\ \A b \in Block : \A u \in UsesIn(b) :
              u \in 1 .. End(b) /\ (IF b = D THEN prog.def.at < u ELSE b \in prog.dom[D])
  <1>1. WellFormed(prog)
    BY DEF ReloadTypes
  <1>2. ASSUME NEW b \in Block, NEW u \in UsesIn(b)
        PROVE  /\ u \in 1 .. End(b)
               /\ \/ u \in DOMAIN prog.code[b] /\ prog.code[b][u] \in Uses
                  \/ u = Len(prog.code[b]) + 1 /\ b \in prog.phi
    BY SMT, <1>2, ProgramTypes DEF UsesIn, End, Code
  <1>3. ASSUME NEW b \in Block, NEW u \in UsesIn(b)
        PROVE  IF b = D THEN prog.def.at < u ELSE b \in prog.dom[D]
    BY <1>1, <1>2 DEF WellFormed, D, End, Code
  <1>4. \A b \in Block : Entry \notin prog.succ[b] /\ prog.dom[b] = Dominated(prog, b)
    BY <1>1 DEF WellFormed
  <1>5. \A b \in Block : b \notin prog.dom[b] /\ Entry \notin prog.dom[b]
    BY <1>4 DEF Dominated
  <1>6. ASSUME NEW b \in Block, NEW c \in Block, NEW q \in Block,
               c \in prog.dom[b], c \in prog.succ[q], q # b
        PROVE  q \in prog.dom[b]
    <2>0. c \in Dominated(prog, b)
      BY <1>4, <1>6
    <2>1. PICK S \in SUBSET Block : Entry \in S /\ c \notin S /\ \A x \in S \ {b} : prog.succ[x] \subseteq S
      BY <2>0 DEF Dominated
    <2>2. q \notin S
      BY <1>6, <2>1
    <2> QED
      BY <1>4, <1>6, <2>1, <2>2 DEF Dominated
  <1>7. (prog.def.at = 0 => D = Entry) /\ prog.def.at <= Len(Code(D))
    BY <1>1 DEF WellFormed, D, Code
  <1> QED
    BY <1>2, <1>3, <1>4, <1>5, <1>6, <1>7

(* An upward-exposed use is in a block that V's definition dominates.        *)
LEMMA ExposedDominated ==
  ASSUME ReloadTypes
  PROVE  Exposed \subseteq prog.dom[D] /\ Exposed \subseteq Block
  BY ProgramTypes, ProgramFacts DEF Exposed

(* The worklist starts with the blocks of those uses.                        *)
LEMMA InitInv == ReloadInit => ReloadInv
  <1> SUFFICES ASSUME ReloadInit PROVE ReloadInv
    OBVIOUS
  <1>1. prog \in Program /\ WellFormed(prog)
    BY DEF ReloadInit
  <1>2. End(Entry) \in Nat /\ 1 \in 1 .. End(Entry)
    <2>1. prog.code[Entry] \in Seq(Op)
      BY <1>1, EntryAssumption DEF Program
    <2>2. Len(prog.code[Entry]) \in Nat
      BY SMT, <2>1
    <2> QED
      BY SMT, <2>2 DEF End, Code
  <1>3. Exposed \subseteq Block
    BY DEF Exposed
  <1>4. ReloadTypes
    BY <1>1, <1>2, <1>3, EntryAssumption DEF ReloadInit, Analyse, ReloadTypes, Held
  <1>5. LiveInv
    BY <1>4, ExposedDominated DEF ReloadInit, Analyse, LiveInv
  <1> QED
    BY <1>4, <1>5 DEF ReloadInit, Analyse, ReloadInv, RewriteInv, RunInv

(* One step of the worklist.                                                 *)
LEMMA PropagateInv ==
  ASSUME ReloadInv, NEW b \in Block, Propagate(b)
  PROVE  ReloadInv'
  <1>1. ReloadTypes /\ LiveInv /\ phase = "liveness" /\ b \in work
    BY DEF ReloadInv, Propagate
  <1>2. prog' = prog /\ phase' = phase
    BY DEF Propagate
  <1>3. Grown(b) \subseteq Block /\ Preds(b) \subseteq Block
    BY DEF Grown, Preds
  <1>4. ReloadTypes'
    BY <1>1, <1>2, <1>3 DEF ReloadTypes, Propagate, rewritten, End, Code
  <1>5. Exposed' = Exposed /\ \A c : Preds(c)' = Preds(c)
    BY <1>2 DEF Exposed, UsesIn, Code, End, D, Preds
  <1>6. D' = D /\ (prog.dom[D])' = prog.dom[D]
    BY <1>2 DEF D
  <1>7. b \in prog.dom[D]
    BY <1>1 DEF LiveInv
  <1>8. Grown(b) \subseteq prog.dom[D]
    <2> SUFFICES ASSUME NEW q \in Grown(b) PROVE q \in prog.dom[D]
      OBVIOUS
    <2>1. q \in Block /\ b \in prog.succ[q] /\ q # D
      BY DEF Grown, Preds
    <2> QED
      BY <1>1, <1>7, <2>1, ProgramFacts, ProgramTypes
  <1>9. LiveInv'
    <2>1. /\ work' = (work \ {b}) \cup Grown(b)
          /\ liveIn' = liveIn \cup Grown(b)
          /\ liveOut' = liveOut \cup Preds(b)
      BY DEF Propagate
    <2>2. /\ work \subseteq liveIn /\ Exposed \subseteq liveIn /\ liveIn \subseteq prog.dom[D]
          /\ \A c \in liveIn \ work : Preds(c) \subseteq liveOut
          /\ liveOut \subseteq liveIn \cup {D}
      BY <1>1 DEF LiveInv
    <2>3. Preds(b) \subseteq liveIn \cup Grown(b) \cup {D}
      BY DEF Grown
    <2>4. \A c \in liveIn' \ work' : Preds(c) \subseteq liveOut'
      BY <2>1, <2>2
    <2>5. liveOut' \subseteq liveIn' \cup {D}
      BY <2>1, <2>2, <2>3
    <2>6. work' \subseteq liveIn' /\ Exposed \subseteq liveIn' /\ liveIn' \subseteq prog.dom[D]
      BY <2>1, <2>2, <1>8
    <2> QED
      BY <2>4, <2>5, <2>6, <1>5, <1>6 DEF LiveInv
  <1> QED
    BY <1>1, <1>2, <1>4, <1>9 DEF ReloadInv, RewriteInv, RunInv

(* The rewrite is a function of the program and of liveOut alone.            *)
LEMMA Determined ==
  ASSUME prog' = prog, liveOut' = liveOut
  PROVE  /\ D' = D
         /\ \A b : Code(b)' = Code(b) /\ End(b)' = End(b) /\ UsesIn(b)' = UsesIn(b)
                   /\ Preds(b)' = Preds(b)
         /\ Exposed' = Exposed
         /\ \A b, i : LiveAcross(b, i)' = LiveAcross(b, i) /\ LiveBefore(b, i)' = LiveBefore(b, i)
         /\ \A b, i : IsDef(b, i)' = IsDef(b, i) /\ Unmoved(i)' = Unmoved(i)
         /\ \A b, i, c, j : Dominates(b, i, c, j)' = Dominates(b, i, c, j)
         /\ Sites' = Sites /\ Records' = Records /\ Rooted' = Rooted
         /\ {p \in Points : Takes(p)}' = {p \in Points : Takes(p)}
  <1>1. D' = D /\ \A b : Code(b)' = Code(b) /\ End(b)' = End(b)
    BY DEF D, Code, End
  <1>2. \A b : UsesIn(b)' = UsesIn(b) /\ Preds(b)' = Preds(b)
    BY <1>1 DEF UsesIn, Preds
  <1>3. Exposed' = Exposed
    BY <1>1, <1>2 DEF Exposed
  <1>4. \A b, i : LiveAcross(b, i)' = LiveAcross(b, i) /\ LiveBefore(b, i)' = LiveBefore(b, i)
    BY <1>1, <1>2 DEF LiveAcross, LiveBefore
  <1>5. \A b, i : IsDef(b, i)' = IsDef(b, i) /\ Unmoved(i)' = Unmoved(i)
    BY <1>1 DEF IsDef, Unmoved
  <1>6. \A b, i, c, j : Dominates(b, i, c, j)' = Dominates(b, i, c, j)
    BY DEF Dominates
  <1>7. Points' = Points /\ \A q : OpAt(q)' = OpAt(q)
    BY <1>1 DEF Points, OpAt
  <1>8. Sites' = Sites
    BY <1>4, <1>5, <1>7 DEF Sites
  <1>9. \A b, i : Live(b, i)' = Live(b, i)
    BY <1>1, <1>2, <1>4, <1>6 DEF Live
  <1>10. \A q : Recorded(q)' = Recorded(q)
    BY <1>1, <1>5, <1>6, <1>7, <1>9 DEF Recorded
  <1>11. Records' = Records
    BY <1>7, <1>10 DEF Records
  <1>12. Rooted' = Rooted
    BY <1>8, <1>11 DEF Rooted
  <1>13. \A j, b, i : Feeds(j, b, i)' = Feeds(j, b, i)
    BY <1>1 DEF Feeds
  <1>14. \A q : Takes(q)' = Takes(q)
    BY <1>7, <1>11, <1>13 DEF Takes
  <1>15. {p \in Points : Takes(p)}' = {p \in Points : Takes(p)}
    BY <1>7, <1>14
  <1> QED
    BY <1>1, <1>2, <1>3, <1>4, <1>5, <1>6, <1>8, <1>11, <1>12, <1>15

(* The rewritten function starts with an argument in its register and slot.  *)
LEMMA RewriteStepInv ==
  ASSUME ReloadInv, Rewrite
  PROVE  ReloadInv'
  <1>1. /\ ReloadTypes /\ LiveInv /\ phase = "liveness" /\ work = {}
        /\ at = Entry /\ k = 1
    BY DEF ReloadInv, Rewrite, ReloadTypes
  <1>2. /\ prog' = prog /\ work' = work /\ liveIn' = liveIn /\ liveOut' = liveOut
        /\ at' = at /\ k' = k /\ phase' = "run" /\ rooted' = Rooted
    BY DEF Rewrite, analysis
  <1>3. Rooted \in BOOLEAN
    BY DEF Rooted
  <1>4. reg' \in Held /\ slot' \in Held
    BY DEF Rewrite, Held
  <1>5. ReloadTypes'
    <2>1. End(at)' = End(at)
      BY <1>2 DEF End, Code
    <2> QED
      BY <1>1, <1>2, <1>3, <1>4, <2>1 DEF ReloadTypes
  <1>6. LiveInv'
    BY <1>1, <1>2, Determined DEF LiveInv
  <1>7. RewriteInv'
    BY SMT, <1>1, <1>2, Determined DEF RewriteInv, Rewrite
  <1>8. ASSUME D = Entry /\ prog.def.at = 0
        PROVE  reg' = "current" /\ (rooted' => slot' = "current")
    BY SMT, <1>2, <1>8 DEF Rewrite
  <1>9. Dominates(D, prog.def.at, Entry, 1) => D = Entry /\ prog.def.at = 0
    BY SMT, <1>1, ProgramTypes, ProgramFacts DEF Dominates
  <1>10. LiveBefore(Entry, 1) => D = Entry /\ prog.def.at = 0
    <2> SUFFICES ASSUME LiveBefore(Entry, 1) PROVE D = Entry /\ prog.def.at = 0
      OBVIOUS
    <2>1. (\E u \in UsesIn(Entry) : 1 <= u) \/ Entry \in liveOut
      BY DEF LiveBefore
    <2>2. D = Entry
      BY <1>1, <2>1, ProgramTypes, ProgramFacts, EntryAssumption DEF LiveInv
    <2> QED
      BY SMT, <1>1, <2>2, ProgramTypes DEF LiveBefore
  <1>11. at = D /\ prog.def.at < k => D = Entry /\ prog.def.at = 0
    BY SMT, <1>1, ProgramTypes
  <1>12. RunInv'
    BY <1>1, <1>2, <1>8, <1>9, <1>10, <1>11, Determined DEF RunInv
  <1> QED
    BY <1>5, <1>6, <1>7, <1>12 DEF ReloadInv

(* The claim of StackMap.h: V is live only across operations that its        *)
(* definition dominates.                                                     *)
LEMMA LiveIsDominated ==
  ASSUME ReloadTypes, LiveInv, NEW b \in Block, NEW i \in Nat, LiveAcross(b, i), ~IsDef(b, i)
  PROVE  Dominates(D, prog.def.at, b, i)
  <1>1. CASE b = D
    BY SMT, <1>1, ProgramTypes DEF LiveAcross, IsDef, Dominates
  <1>2. CASE b # D
    <2>1. (\E u \in UsesIn(b) : i < u) => b \in prog.dom[D]
      BY <1>2, ProgramFacts
    <2>2. b \in liveOut => b \in prog.dom[D]
      BY <1>2 DEF LiveInv
    <2> QED
      BY <1>2, <2>1, <2>2 DEF LiveAcross, Dominates
  <1> QED
    BY <1>1, <1>2

(* A real call V is live across is rewritten: V has a slot, the map of the   *)
(* call marks it, and V is reloaded after the call.                          *)
LEMMA CallsCovered ==
  ASSUME ReloadInv, phase = "run", prog.how # "remat",
         NEW b \in Block, NEW i \in DOMAIN Code(b), Code(b)[i] \in RealCall,
         ~IsDef(b, i), LiveAcross(b, i)
  PROVE  rooted /\ <<b, i>> \in reloads /\ <<b, i>> \in marks
  <1> DEFINE p == <<b, i>>
  <1>1. ReloadTypes /\ LiveInv /\ RewriteInv
    BY DEF ReloadInv
  <1>2. i \in Nat
    BY SMT, <1>1, ProgramTypes
  <1>3. p \in Points /\ OpAt(p) = Code(b)[i] /\ p[1] = b /\ p[2] = i
    BY SMT DEF Points, OpAt
  <1>4. isSafepoint(OpAt(p)) /\ IsSite(OpAt(p), prog.how)
    BY <1>3 DEF isSafepoint, IsSite
  <1>5. p \in Sites
    BY <1>3, <1>4 DEF Sites
  <1>6. p \in Records
    <2>1. Dominates(D, prog.def.at, b, i)
      BY <1>1, <1>2, LiveIsDominated
    <2> QED
      BY <1>3, <1>4, <2>1 DEF Records, Recorded, Live
  <1>7. Rooted
    BY <1>1, <1>5, <1>6, ProgramTypes DEF Rooted
  <1>8. Feeds(i, b, i)
    BY SMT, <1>2 DEF Feeds
  <1>9. Takes(p)
    BY <1>3, <1>6, <1>8 DEF Takes
  <1> QED
    BY <1>1, <1>3, <1>5, <1>7, <1>9 DEF RewriteInv

(* Nothing is reloaded where V is computed again.                            *)
LEMMA RematHasNoSlot ==
  ASSUME RewriteInv, phase = "run", prog.how = "remat"
  PROVE  ~rooted /\ reloads = {} /\ marks = {}
  BY DEF RewriteInv, Rooted

(* One operation of the rewritten function.                                  *)
LEMMA ExecuteInv ==
  ASSUME ReloadInv, NEW moves \in BOOLEAN, Execute(moves)
  PROVE  ReloadInv'
  <1>1. ReloadTypes /\ LiveInv /\ RewriteInv /\ RunInv /\ phase = "run" /\ k < End(at)
    BY DEF ReloadInv, Execute
  <1>2. /\ prog' = prog /\ work' = work /\ liveIn' = liveIn /\ liveOut' = liveOut
        /\ at' = at /\ k' = k + 1 /\ phase' = phase
        /\ rooted' = rooted /\ reloads' = reloads /\ marks' = marks
    BY DEF Execute, analysis, rewritten
  <1>3. at \in Block /\ k \in Nat /\ k \in DOMAIN Code(at) /\ k + 1 \in 1 .. End(at)
    BY SMT, <1>1, ProgramTypes DEF ReloadTypes
  <1>4. reg \in Held /\ slot \in Held /\ rooted \in BOOLEAN
    BY <1>1 DEF ReloadTypes
  <1>5. reg' \in Held /\ slot' \in Held
    BY <1>4 DEF Execute, Define, RegAfter, SlotAfter, WhenMoved, Held
  <1>6. ReloadTypes'
    BY <1>1, <1>2, <1>3, <1>5, Determined DEF ReloadTypes
  <1>7. LiveInv' /\ RewriteInv'
    BY SMT, <1>1, <1>2, Determined DEF LiveInv, RewriteInv
  <1>8. CASE IsDef(at, k)
    <2>1. reg' = "current" /\ (rooted' => slot' = "current")
      BY <1>2, <1>8 DEF Execute, Define
    <2>2. RunInv'
      BY <2>1 DEF RunInv
    <2> QED
      BY <1>6, <1>7, <2>2 DEF ReloadInv
  <1>9. CASE ~IsDef(at, k)
    <2>1. reg' = RegAfter(moves) /\ slot' = SlotAfter(moves)
      BY <1>9 DEF Execute
    <2>2. D \in Block /\ prog.def.at \in Nat
      BY <1>1, ProgramTypes
    <2>3. Dominates(D, prog.def.at, at, k + 1) => Dominates(D, prog.def.at, at, k)
      BY SMT, <1>3, <1>9, <2>2 DEF Dominates, IsDef
    <2>4. ASSUME Dominates(D, prog.def.at, at, k)
          PROVE  reg' # "none" /\ (rooted => slot' # "none")
      <3>1. reg # "none" /\ (rooted => slot # "none")
        BY <1>1, <2>4 DEF RunInv
      <3>2. ~rooted => reloads = {}
        BY SMT, <1>1 DEF RewriteInv
      <3> QED
        BY <2>1, <3>1, <3>2, <1>4 DEF RegAfter, SlotAfter, WhenMoved, Held
    <2>5. LiveBefore(at, k + 1) => LiveBefore(at, k) /\ LiveAcross(at, k)
      <3> SUFFICES ASSUME LiveBefore(at, k + 1) PROVE LiveBefore(at, k) /\ LiveAcross(at, k)
        OBVIOUS
      <3>1. ~(at = D /\ k <= prog.def.at)
        BY SMT, <1>3, <1>9, <2>2 DEF LiveBefore, IsDef
      <3>2. \A u \in UsesIn(at) : u \in Nat
        BY SMT, <1>1, <1>3, ProgramTypes, ProgramFacts
      <3>3. (\E u \in UsesIn(at) : k < u) \/ at \in liveOut
        BY SMT, <1>3, <3>2 DEF LiveBefore
      <3> QED
        BY SMT, <1>3, <2>2, <3>1, <3>2, <3>3 DEF LiveBefore, LiveAcross
    <2>6. ASSUME prog.how # "remat", LiveBefore(at, k + 1)
          PROVE  reg' = "current" /\ (rooted => slot' = "current")
      <3>1. reg = "current" /\ (rooted => slot = "current") /\ LiveAcross(at, k)
        BY <1>1, <2>5, <2>6 DEF RunInv
      <3>2. ~rooted => reloads = {}
        BY SMT, <1>1 DEF RewriteInv
      <3>3. moves => rooted /\ <<at, k>> \in reloads /\ <<at, k>> \in marks
        BY <1>1, <1>3, <1>9, <2>6, <3>1, CallsCovered DEF Execute
      <3> QED
        BY <2>1, <3>1, <3>2, <3>3, <1>4 DEF RegAfter, SlotAfter, WhenMoved
    <2>7. ASSUME prog.how = "remat", at = D, prog.def.at < k + 1, Unmoved(k + 1)
          PROVE  reg' = "current"
      <3>1. prog.def.at < k
        BY SMT, <1>3, <1>9, <2>2, <2>7 DEF IsDef
      <3>2. Unmoved(k)
        BY SMT, <1>3, <2>2, <2>7 DEF Unmoved
      <3>3. ~isSafepoint(Code(at)[k])
        BY SMT, <1>3, <2>2, <2>7, <3>1 DEF Unmoved
      <3>4. ~moves
        BY <3>3 DEF Execute, isSafepoint
      <3>5. reg = "current"
        BY <1>1, <2>7, <3>1, <3>2 DEF RunInv
      <3>6. reloads = {}
        BY <1>1, <2>7, RematHasNoSlot
      <3> QED
        BY <2>1, <3>4, <3>5, <3>6 DEF RegAfter
    <2>8. RunInv'
      <3>1. /\ D' = D /\ prog.def.at' = prog.def.at /\ prog.how' = prog.how
            /\ Dominates(D, prog.def.at, at, k)' = Dominates(D, prog.def.at, at, k + 1)
            /\ LiveBefore(at, k)' = LiveBefore(at, k + 1)
            /\ Unmoved(k)' = Unmoved(k + 1)
        BY <1>2 DEF D, Dominates, LiveBefore, UsesIn, Unmoved, Code, End
      <3> QED
        BY <1>2, <2>3, <2>4, <2>6, <2>7, <3>1 DEF RunInv
    <2> QED
      BY <1>6, <1>7, <2>8 DEF ReloadInv
  <1> QED
    BY <1>8, <1>9

(* What V's definition dominates at the start of a block it dominates at the *)
(* end of each predecessor.                                                  *)
LEMMA JumpDominated ==
  ASSUME ReloadTypes, NEW b \in Block, NEW a \in Block, b \in prog.succ[a],
         Dominates(D, prog.def.at, b, 1)
  PROVE  Dominates(D, prog.def.at, a, End(a))
  <1>1. /\ D \in Block /\ prog.def.at \in Nat /\ Len(Code(D)) \in Nat /\ End(D) = Len(Code(D)) + 1
        /\ b # Entry /\ (prog.def.at = 0 => D = Entry) /\ prog.def.at <= Len(Code(D))
    BY ProgramTypes, ProgramFacts
  <1>2. b # D /\ b \in prog.dom[D]
    BY SMT, <1>1 DEF Dominates
  <1>3. a = D \/ a \in prog.dom[D]
    BY <1>1, <1>2, ProgramFacts
  <1>4. prog.def.at < End(D)
    BY SMT, <1>1
  <1> QED
    BY <1>3, <1>4 DEF Dominates

(* A branch: what is needed at the start of a block was needed at the end of *)
(* each predecessor, because the worklist visited the block.                 *)
LEMMA JumpInv ==
  ASSUME ReloadInv, NEW b \in Block, Jump(b)
  PROVE  ReloadInv'
  <1>1. /\ ReloadTypes /\ LiveInv /\ RewriteInv /\ RunInv /\ phase = "run" /\ k = End(at)
        /\ b \in prog.succ[at] /\ at \in Block /\ work = {}
    BY DEF ReloadInv, Jump, ReloadTypes, RewriteInv
  <1>2. /\ prog' = prog /\ work' = work /\ liveIn' = liveIn /\ liveOut' = liveOut
        /\ at' = b /\ k' = 1 /\ phase' = phase
        /\ rooted' = rooted /\ reloads' = reloads /\ marks' = marks
        /\ reg' = reg /\ slot' = slot
    BY DEF Jump, analysis, rewritten
  <1>3. /\ D \in Block /\ prog.def.at \in Nat /\ Len(Code(b)) \in Nat /\ End(b) = Len(Code(b)) + 1
        /\ Len(Code(at)) \in Nat /\ End(at) = Len(Code(at)) + 1
        /\ Len(Code(D)) \in Nat /\ End(D) = Len(Code(D)) + 1
    BY <1>1, ProgramTypes
  <1>4. ReloadTypes'
    <2>1. End(b)' = End(b)
      BY <1>2, Determined
    <2>2. 1 \in 1 .. End(b)
      BY SMTT(30), <1>3
    <2> QED
      BY <1>1, <1>2, <2>1, <2>2 DEF ReloadTypes
  <1>5. LiveInv' /\ RewriteInv'
    BY SMT, <1>1, <1>2, Determined DEF LiveInv, RewriteInv
  <1>6. b # Entry
    BY <1>1, ProgramFacts
  <1>7. b = D => 1 <= prog.def.at
    BY SMT, <1>1, <1>3, <1>6, ProgramFacts
  <1>8. ASSUME at = D
        PROVE  prog.def.at < k
    BY SMT, <1>1, <1>3, <1>8, ProgramFacts
  <1>9. Dominates(D, prog.def.at, b, 1) => Dominates(D, prog.def.at, at, k)
    BY <1>1, JumpDominated
  <1>10. LiveBefore(b, 1) => LiveBefore(at, k)
    <2> SUFFICES ASSUME LiveBefore(b, 1) PROVE LiveBefore(at, k)
      OBVIOUS
    <2>1. b # D
      BY <1>7 DEF LiveBefore
    <2>2. b \in liveIn
      BY <1>1, <2>1 DEF LiveBefore, LiveInv, Exposed
    <2>3. at \in Preds(b)
      BY <1>1 DEF Preds
    <2>4. at \in liveOut
      BY <1>1, <2>2, <2>3 DEF LiveInv
    <2> QED
      BY SMT, <1>1, <1>3, <1>8, <2>4 DEF LiveBefore
  <1>11. ~(b = D /\ prog.def.at < 1)
    BY SMT, <1>3, <1>7
  <1>12. RunInv'
    <2>1. /\ D' = D /\ prog.def.at' = prog.def.at /\ prog.how' = prog.how
          /\ Dominates(D, prog.def.at, at, k)' = Dominates(D, prog.def.at, b, 1)
          /\ LiveBefore(at, k)' = LiveBefore(b, 1)
      BY <1>2 DEF D, Dominates, LiveBefore, UsesIn, Code, End
    <2> QED
      BY <1>1, <1>2, <1>9, <1>10, <1>11, <2>1 DEF RunInv
  <1> QED
    BY <1>4, <1>5, <1>12 DEF ReloadInv

(* The inductive invariant of the analysis, the rewrite and the rewritten    *)
(* function (CrossCallLiveness, rewriteWithSafepointReloads, publish).       *)
THEOREM ReloadInvariant == ReloadSpec => []ReloadInv
  <1>1. ReloadInv /\ [ReloadNext]_reloadVars => ReloadInv'
    <2> SUFFICES ASSUME ReloadInv, [ReloadNext]_reloadVars PROVE ReloadInv'
      OBVIOUS
    <2>1. ASSUME NEW b \in Block, Propagate(b) PROVE ReloadInv'
      BY <2>1, PropagateInv
    <2>2. ASSUME NEW b \in Block, Jump(b) PROVE ReloadInv'
      BY <2>2, JumpInv
    <2>3. CASE Rewrite
      BY <2>3, RewriteStepInv
    <2>4. ASSUME NEW moves \in BOOLEAN, Execute(moves) PROVE ReloadInv'
      BY <2>4, ExecuteInv
    <2>5. CASE UNCHANGED reloadVars
      <3>1. /\ prog' = prog /\ phase' = phase /\ work' = work /\ liveIn' = liveIn
            /\ liveOut' = liveOut /\ rooted' = rooted /\ reloads' = reloads /\ marks' = marks
            /\ at' = at /\ k' = k /\ reg' = reg /\ slot' = slot
        BY <2>5 DEF reloadVars
      <3>2. ReloadTypes' /\ LiveInv' /\ RewriteInv'
        BY SMT, <3>1, Determined DEF ReloadInv, ReloadTypes, LiveInv, RewriteInv
      <3>3. /\ D' = D /\ Dominates(D, prog.def.at, at, k)' = Dominates(D, prog.def.at, at, k)
            /\ LiveBefore(at, k)' = LiveBefore(at, k) /\ Unmoved(k)' = Unmoved(k)
        BY <3>1 DEF D, Dominates, LiveBefore, UsesIn, Unmoved, Code, End
      <3>4. RunInv'
        BY <3>1, <3>3 DEF ReloadInv, RunInv
      <3> QED
        BY <3>2, <3>4 DEF ReloadInv
    <2> QED
      BY <2>1, <2>2, <2>3, <2>4, <2>5 DEF ReloadNext
  <1> QED
    BY InitInv, <1>1, PTL DEF ReloadSpec

(* No use of a stack address reads a stale one, in any function and along    *)
(* any path (goc-stackmap, goc-reanchor, rematCrossSafepointUses).           *)
THEOREM UsesReadCurrentAddresses == ReloadSpec => []UsesCurrent
  <1>1. ReloadInv => UsesCurrent
    <2> SUFFICES ASSUME ReloadInv, phase = "run", k \in UsesIn(at)
                 PROVE  Read(at, k) = "current"
      BY DEF UsesCurrent
    <2>1. ReloadTypes /\ RunInv /\ at \in Block
      BY DEF ReloadInv, ReloadTypes
    <2>2. D \in Block /\ prog.def.at \in Nat /\ k \in Nat
      BY SMT, <2>1, ProgramTypes, ProgramFacts
    <2>3. IF at = D THEN prog.def.at < k ELSE at \in prog.dom[D]
      BY <2>1, ProgramFacts
    <2>4. LiveBefore(at, k)
      BY SMT, <2>2, <2>3 DEF LiveBefore
    <2>5. CASE prog.how # "remat"
      BY <2>1, <2>4, <2>5 DEF RunInv, Read
    <2>6. CASE prog.how = "remat" /\ Separated(at, k)
      BY <2>6 DEF Read
    <2>7. CASE prog.how = "remat" /\ ~Separated(at, k)
      <3>1. at = D /\ prog.def.at < k /\ Unmoved(k)
        BY <2>7 DEF Separated, Unmoved
      <3> QED
        BY <2>1, <2>7, <3>1 DEF RunInv, Read
    <2> QED
      BY <2>5, <2>6, <2>7
  <1> QED
    BY ReloadInvariant, <1>1, PTL

(* A block that some path from the entry leads to.                           *)
Reached(b) ==
  \A S \in SUBSET Block : Entry \in S /\ (\A x \in S : prog.succ[x] \subseteq S) => b \in S

(* A use of V in a block no path leads to: every other block dominates it.   *)
DeadUse == \E c \in Block : UsesIn(c) # {} /\ ~Reached(c)

(* Between a record and the call that takes it, the slot is current.  With   *)
(* a dead use, liveAt records every safepoint that V's definition dominates. *)
RootInv ==
  /\ Reached(at)
  /\ phase = "run" /\ rooted =>
       /\ \A q \in Records : q[1] = at /\ Feeds(q[2], at, k) => slot = "current"
       /\ DeadUse /\ Dominates(D, prog.def.at, at, k) => slot = "current"

(* Domination as LLVM's verifier has it: a set of blocks with the entry that *)
(* is left only through b does not hold c.                                   *)
LEMMA Bypassed ==
  ASSUME ReloadTypes, NEW b \in Block, NEW c \in prog.dom[b]
  PROVE  \E S \in SUBSET Block : /\ Entry \in S /\ c \notin S
                                /\ \A x \in S : x # b => prog.succ[x] \subseteq S
  <1>1. c \in Dominated(prog, b)
    BY ProgramFacts
  <1> QED
    BY <1>1 DEF Dominated

(* What a block without a path to it dominates has no path to it either, and *)
(* two blocks that dominate each other have none.                            *)
LEMMA DeadDominates ==
  ASSUME ReloadTypes, NEW b \in Block, NEW c \in Block, c \in prog.dom[b],
         ~Reached(b) \/ b \in prog.dom[c]
  PROVE  ~Reached(c)
  <1>1. PICK S \in SUBSET Block : /\ Entry \in S /\ c \notin S
                                  /\ \A x \in S : x # b => prog.succ[x] \subseteq S
    BY Bypassed
  <1>2. PICK T \in SUBSET Block : /\ Entry \in T /\ b \notin T
                                  /\ \A x \in T : x # c => prog.succ[x] \subseteq T
    BY Bypassed DEF Reached
  <1>3. Entry \in S \cap T /\ S \cap T \in SUBSET Block /\ c \notin S \cap T
    BY <1>1, <1>2
  <1>4. \A x \in S \cap T : prog.succ[x] \subseteq S \cap T
    BY <1>1, <1>2
  <1> QED
    BY <1>3, <1>4 DEF Reached

(* A record stands where V is needed, unless a use is dead: a use that the   *)
(* record dominates can be reached from it (liveAt asks the dominator tree,  *)
(* not the worklist).                                                        *)
LEMMA RecordLive ==
  ASSUME ReloadTypes, LiveInv, work = {}, ~DeadUse, NEW q \in Records
  PROVE  LiveBefore(q[1], q[2])
  <1> DEFINE b == q[1]
             i == q[2]
  <1>1. /\ b \in Block /\ i \in DOMAIN Code(b) /\ OpAt(q) = Code(b)[i]
        /\ Dominates(D, prog.def.at, b, i) /\ Live(b, i)
    BY SMT DEF Records, Recorded, Points, OpAt
  <1>2. i \in Nat /\ prog.def.at \in Nat /\ D \in Block
    BY SMT, <1>1, ProgramTypes
  <1> HIDE DEF b, i
  <1>3. ~(b = D /\ i <= prog.def.at)
    BY SMT, <1>1, <1>2 DEF Dominates
  <1>4. CASE LiveAcross(b, i)
    <2>1. \A u \in UsesIn(b) : u \in Nat
      BY SMT, <1>1, ProgramTypes, ProgramFacts
    <2>2. \A u \in UsesIn(b) : i < u => i <= u
      BY SMT, <1>2, <2>1
    <2> QED
      BY <1>3, <1>4, <2>2 DEF LiveAcross, LiveBefore, b, i
  <1>5. CASE Code(b)[i] \in {"callarg", "softarg"}
    <2>1. i \in UsesIn(b) /\ i <= i
      BY SMT, <1>1, <1>2, <1>5 DEF UsesIn, Uses
    <2> QED
      BY <1>3, <2>1 DEF LiveBefore, b, i
  <1>6. ASSUME NEW c \in Block, NEW u \in UsesIn(c), Dominates(b, i, c, u)
        PROVE  LiveBefore(b, i)
    <2>1. CASE b = c
      <3>1. u \in Nat
        BY SMT, <1>6, ProgramTypes, ProgramFacts
      <3>2. i <= u
        BY SMT, <1>2, <1>6, <2>1, <3>1 DEF Dominates
      <3> QED
        BY <1>3, <2>1, <3>2 DEF LiveBefore
    <2>2. CASE b # c
      <3> SUFFICES ASSUME b \notin liveOut PROVE FALSE
        BY <1>3 DEF LiveBefore
      <3>1. c \in prog.dom[b] /\ (b # D => b \in prog.dom[D])
        BY <1>1, <1>6, <2>2 DEF Dominates
      <3>2. Reached(c)
        BY DEF DeadUse
      <3>3. c # D => c \in prog.dom[D]
        BY ProgramFacts
      <3>4. D \notin prog.dom[b] \/ b = D
        <4> SUFFICES ASSUME D \in prog.dom[b], b # D PROVE FALSE
          OBVIOUS
        <4>1. ~Reached(D)
          BY <1>1, <1>2, <3>1, DeadDominates
        <4> QED
          BY <1>2, <3>2, <3>3, <4>1, DeadDominates
      <3>5. D \notin prog.dom[b]
        BY <1>2, <3>4, ProgramFacts
      <3>6. c \in liveIn
        BY <3>1, <3>5 DEF LiveInv, Exposed
      <3> DEFINE Y == prog.dom[b] \cap liveIn
      <3>7. ASSUME NEW y \in Y, NEW x \in Block, y \in prog.succ[x]
            PROVE  x \in Y
        <4>1. y \in Block /\ y \in liveIn /\ y \in prog.dom[b]
          BY <3>7 DEF ReloadTypes
        <4>2. x \in liveOut
          BY <3>7, <4>1 DEF LiveInv, Preds
        <4>3. x # b /\ x \in prog.dom[b]
          BY <1>1, <3>7, <4>1, <4>2, ProgramFacts
        <4>4. x \in liveIn
          BY <3>5, <4>2, <4>3 DEF LiveInv
        <4> QED
          BY <4>3, <4>4
      <3>8. /\ Block \ Y \in SUBSET Block /\ c \notin Block \ Y /\ Entry \in Block \ Y
        BY <1>1, <3>1, <3>6, EntryAssumption, ProgramFacts
      <3>9. \A x \in Block \ Y : prog.succ[x] \subseteq Block \ Y
        <4> SUFFICES ASSUME NEW x \in Block \ Y, NEW y \in prog.succ[x] PROVE y \in Block \ Y
          OBVIOUS
        <4>1. y \in Block
          BY ProgramTypes
        <4> QED
          BY <3>7, <4>1
      <3> QED
        BY <3>2, <3>8, <3>9 DEF Reached
    <2> QED
      BY <2>1, <2>2
  <1> QED
    BY <1>1, <1>4, <1>5, <1>6 DEF Live, b, i

(* With a dead use every real call that V's definition dominates is marked.  *)
LEMMA DeadUseMarks ==
  ASSUME ReloadTypes, RewriteInv, phase = "run", rooted, DeadUse, Reached(at),
         k \in DOMAIN Code(at), Code(at)[k] \in RealCall, ~IsDef(at, k),
         Dominates(D, prog.def.at, at, k)
  PROVE  <<at, k>> \in marks
  <1> DEFINE p == <<at, k>>
  <1>0. at \in Block /\ Rooted
    BY DEF ReloadTypes, RewriteInv
  <1>1. at \in Block /\ k \in Nat /\ Rooted
    BY SMT, <1>0, ProgramTypes
  <1>2. p \in Points /\ OpAt(p) = Code(at)[k] /\ p[1] = at /\ p[2] = k
    BY SMT, <1>1 DEF Points, OpAt
  <1>3. IsSite(OpAt(p), prog.how)
    BY <1>2 DEF isSafepoint, IsSite
  <1>4. PICK c \in Block : UsesIn(c) # {} /\ ~Reached(c)
    BY DEF DeadUse
  <1>5. c \in Dominated(prog, at)
    <2>1. PICK S \in SUBSET Block : Entry \in S /\ (\A x \in S : prog.succ[x] \subseteq S) /\ c \notin S
      BY <1>4 DEF Reached
    <2> QED
      BY <1>1, <1>4, <2>1 DEF Dominated
  <1>6. Live(at, k)
    <2>1. \A u \in UsesIn(c) : Dominates(at, k, c, u)
      BY <1>1, <1>4, <1>5, ProgramFacts DEF Dominates
    <2> QED
      BY <1>4, <2>1 DEF Live
  <1>7. p \in Records
    BY <1>2, <1>3, <1>6 DEF Records, Recorded
  <1>8. Feeds(k, at, k)
    BY SMT, <1>1 DEF Feeds
  <1>9. Takes(p)
    BY <1>2, <1>7, <1>8 DEF Takes
  <1> QED
    BY <1>1, <1>2, <1>9 DEF RewriteInv

(* What RootInv is about is a function of the program, liveOut and the place *)
(* the execution has reached.                                                *)
LEMMA RootsDetermined ==
  ASSUME prog' = prog, liveOut' = liveOut
  PROVE  /\ Records' = Records /\ (DeadUse' <=> DeadUse)
         /\ \A b : Reached(b)' <=> Reached(b)
         /\ \A j, b, i : Feeds(j, b, i)' <=> Feeds(j, b, i)
  <1>1. /\ Records' = Records /\ \A b : UsesIn(b)' = UsesIn(b) /\ Code(b)' = Code(b)
    BY Determined
  <1>2. \A b : Reached(b)' <=> Reached(b)
    BY DEF Reached
  <1>3. DeadUse' <=> DeadUse
    BY <1>1, <1>2 DEF DeadUse
  <1>4. \A j, b, i : Feeds(j, b, i)' <=> Feeds(j, b, i)
    BY <1>1 DEF Feeds
  <1> QED
    BY <1>1, <1>2, <1>3, <1>4

(* A record stands at an operation of its block that V's definition          *)
(* dominates, and so does every operation after it.                          *)
LEMMA RecordDominated ==
  ASSUME ReloadTypes, NEW q \in Records, NEW i \in Nat, q[2] <= i
  PROVE  q[2] \in Nat /\ q[2] >= 1 /\ Dominates(D, prog.def.at, q[1], i)
  <1>1. q[1] \in Block /\ q[2] \in DOMAIN Code(q[1]) /\ Dominates(D, prog.def.at, q[1], q[2])
    BY SMT DEF Records, Recorded, Points
  <1>2. q[2] \in Nat /\ q[2] >= 1 /\ prog.def.at \in Nat
    BY SMT, <1>1, ProgramTypes
  <1> QED
    BY SMT, <1>1, <1>2 DEF Dominates

(* One operation: a call that is not marked comes before the record or where *)
(* V is not needed.                                                          *)
LEMMA ExecuteRoots ==
  ASSUME ReloadInv, RootInv, NEW moves \in BOOLEAN, Execute(moves)
  PROVE  RootInv'
  <1>1. ReloadTypes /\ LiveInv /\ RewriteInv /\ phase = "run" /\ k < End(at) /\ work = {}
    BY DEF ReloadInv, Execute, RewriteInv
  <1>2. /\ prog' = prog /\ liveOut' = liveOut /\ at' = at /\ k' = k + 1 /\ phase' = phase
        /\ rooted' = rooted
    BY DEF Execute, analysis, rewritten
  <1>3. /\ at \in Block /\ k \in Nat /\ k \in DOMAIN Code(at) /\ D \in Block /\ prog.def.at \in Nat
    BY SMT, <1>1, ProgramTypes DEF ReloadTypes
  <1>4. ASSUME rooted
        PROVE  /\ IsDef(at, k) => slot' = "current"
               /\ ~IsDef(at, k) => slot' = SlotAfter(moves)
               /\ prog.how # "remat"
               /\ moves => Code(at)[k] \in RealCall
    BY <1>1, <1>4, RematHasNoSlot DEF Execute, Define
  <1>5. ASSUME rooted, DeadUse, Dominates(D, prog.def.at, at, k + 1)
        PROVE  slot' = "current"
    <2>1. CASE IsDef(at, k)
      BY <1>4, <1>5, <2>1
    <2>2. CASE ~IsDef(at, k)
      <3>1. Dominates(D, prog.def.at, at, k)
        BY SMT, <1>3, <1>5, <2>2 DEF Dominates, IsDef
      <3>2. slot = "current" /\ Reached(at)
        BY <1>1, <1>5, <3>1 DEF RootInv
      <3>3. moves => <<at, k>> \in marks
        BY <1>1, <1>3, <1>4, <1>5, <2>2, <3>1, <3>2, DeadUseMarks
      <3> QED
        BY <1>4, <1>5, <2>2, <3>2, <3>3 DEF SlotAfter
    <2> QED
      BY <2>1, <2>2
  <1>6. ASSUME rooted, NEW q \in Records, q[1] = at, Feeds(q[2], at, k + 1)
        PROVE  slot' = "current"
    <2>1. /\ q[2] <= k + 1 /\ q[2] \in Nat /\ k + 1 \in Nat
          /\ Dominates(D, prog.def.at, at, k + 1)
      <3>1. k + 1 \in Nat /\ q[2] <= k + 1
        BY SMT, <1>3, <1>6 DEF Feeds
      <3> QED
        BY <1>1, <1>6, <3>1, RecordDominated
    <2>2. CASE DeadUse
      BY <1>5, <1>6, <2>1, <2>2
    <2>3. CASE ~DeadUse /\ q[2] = k + 1
      <3>1. LiveBefore(at, k + 1)
        BY <1>1, <1>6, <2>3, RecordLive
      <3>2. LiveBefore(at, k)'
        BY <1>2, <3>1, Determined
      <3>3. RunInv' /\ rooted' /\ phase' = "run" /\ prog'.how # "remat"
        BY <1>1, <1>2, <1>4, <1>6, ExecuteInv DEF ReloadInv
      <3> QED
        BY <3>2, <3>3 DEF RunInv
    <2>4. CASE q[2] # k + 1
      <3>1. q[2] <= k /\ k \in q[2] .. (k + 1) - 1 /\ \A n \in q[2] .. k - 1 : n \in q[2] .. (k + 1) - 1
        BY SMT, <1>3, <2>1, <2>4
      <3>2. Feeds(q[2], at, k) /\ Code(at)[k] \notin RealCall
        BY <1>6, <3>1 DEF Feeds
      <3>3. slot = "current" /\ ~moves
        BY <1>1, <1>4, <1>6, <3>2 DEF RootInv
      <3> QED
        BY <1>4, <1>6, <3>3 DEF SlotAfter
    <2> QED
      BY <2>2, <2>3, <2>4
  <1>7. Reached(at)
    BY DEF RootInv
  <1>8. /\ D' = D /\ prog'.def.at = prog.def.at
        /\ (Dominates(D, prog.def.at, at, k)' <=> Dominates(D, prog.def.at, at, k + 1))
    BY <1>2 DEF D, Dominates
  <1>9. \A q \in Records : Feeds(q[2], at, k)' <=> Feeds(q[2], at, k + 1)
    BY <1>2, Determined DEF Feeds
  <1> QED
    BY <1>2, <1>5, <1>6, <1>7, <1>8, <1>9, RootsDetermined DEF RootInv

(* A branch.                                                                 *)
LEMMA JumpRoots ==
  ASSUME ReloadInv, RootInv, NEW b \in Block, Jump(b)
  PROVE  RootInv'
  <1>1. /\ ReloadTypes /\ LiveInv /\ RewriteInv /\ phase = "run" /\ k = End(at) /\ work = {}
        /\ b \in prog.succ[at] /\ at \in Block
    BY DEF ReloadInv, Jump, RewriteInv, ReloadTypes
  <1>2. /\ prog' = prog /\ liveOut' = liveOut /\ at' = b /\ k' = 1 /\ phase' = phase
        /\ rooted' = rooted /\ slot' = slot
    BY DEF Jump, analysis, rewritten
  <1>3. rooted => prog.how # "remat"
    BY <1>1, RematHasNoSlot
  <1>4. ASSUME rooted, DeadUse, Dominates(D, prog.def.at, b, 1)
        PROVE  slot' = "current"
    <2>1. Dominates(D, prog.def.at, at, k)
      BY <1>1, <1>4, JumpDominated
    <2> QED
      BY <1>1, <1>2, <1>4, <2>1 DEF RootInv
  <1>5. ASSUME rooted, NEW q \in Records, q[1] = b, Feeds(q[2], b, 1)
        PROVE  slot' = "current"
    <2>1. q[2] <= 1 /\ 1 \in Nat
      BY <1>5 DEF Feeds
    <2>2. q[2] \in Nat /\ q[2] >= 1 /\ Dominates(D, prog.def.at, b, 1)
      BY <1>1, <1>5, <2>1, RecordDominated
    <2>3. q[2] = 1
      BY SMT, <2>1, <2>2
    <2>4. CASE DeadUse
      BY <1>4, <1>5, <2>2, <2>4
    <2>5. CASE ~DeadUse
      <3>1. LiveBefore(b, 1)
        BY <1>1, <1>5, <2>3, <2>5, RecordLive
      <3>2. LiveBefore(at, k)'
        BY <1>2, <3>1, Determined
      <3>3. RunInv' /\ rooted' /\ phase' = "run" /\ prog'.how # "remat"
        BY <1>1, <1>2, <1>3, <1>5, JumpInv DEF ReloadInv
      <3> QED
        BY <3>2, <3>3 DEF RunInv
    <2> QED
      BY <2>4, <2>5
  <1>6. Reached(b)
    BY <1>1 DEF RootInv, Reached
  <1>7. /\ D' = D /\ prog'.def.at = prog.def.at
        /\ (Dominates(D, prog.def.at, at, k)' <=> Dominates(D, prog.def.at, b, 1))
    BY <1>2 DEF D, Dominates
  <1>8. \A q \in Records : Feeds(q[2], at, k)' <=> Feeds(q[2], b, 1)
    BY <1>2, Determined DEF Feeds
  <1> QED
    BY <1>2, <1>4, <1>5, <1>6, <1>7, <1>8, RootsDetermined DEF RootInv

(* The rewritten function starts at the entry, where only an argument is     *)
(* defined.                                                                  *)
LEMMA RewriteRoots ==
  ASSUME ReloadInv, RootInv, Rewrite
  PROVE  RootInv'
  <1>1. ReloadTypes /\ at = Entry /\ k = 1
    BY DEF ReloadInv, Rewrite, ReloadTypes
  <1>2. /\ prog' = prog /\ liveOut' = liveOut /\ at' = Entry /\ k' = 1
        /\ rooted' = Rooted
        /\ slot' = IF prog.def.at = 0 /\ Rooted THEN "current" ELSE "none"
    BY <1>1 DEF Rewrite, analysis
  <1>3. ASSUME Dominates(D, prog.def.at, Entry, 1), Rooted
        PROVE  slot' = "current"
    <2>1. D \in Block /\ prog.def.at \in Nat /\ Entry \notin prog.dom[D]
      BY <1>1, ProgramTypes, ProgramFacts
    <2>2. prog.def.at = 0
      BY SMT, <1>3, <2>1 DEF Dominates
    <2> QED
      BY <1>2, <1>3, <2>2
  <1>4. ASSUME Rooted, NEW q \in Records, q[1] = Entry, Feeds(q[2], Entry, 1)
        PROVE  slot' = "current"
    <2>1. q[2] <= 1 /\ 1 \in Nat
      BY <1>4 DEF Feeds
    <2> QED
      BY <1>1, <1>3, <1>4, <2>1, RecordDominated
  <1>5. Reached(Entry)
    BY DEF Reached
  <1>6. /\ D' = D /\ prog'.def.at = prog.def.at
        /\ (Dominates(D, prog.def.at, at, k)' <=> Dominates(D, prog.def.at, Entry, 1))
    BY <1>2 DEF D, Dominates
  <1>7. \A q \in Records : Feeds(q[2], at, k)' <=> Feeds(q[2], Entry, 1)
    BY <1>2, Determined DEF Feeds
  <1> QED
    BY <1>2, <1>3, <1>4, <1>5, <1>6, <1>7, RootsDetermined DEF RootInv

(* RootInv holds throughout.                                                 *)
THEOREM RootInvariant == ReloadSpec => [](ReloadInv /\ RootInv)
  <1>1. ReloadInit => RootInv
    BY DEF ReloadInit, Analyse, RootInv, Reached
  <1>2. ReloadInv /\ RootInv /\ [ReloadNext]_reloadVars => RootInv'
    <2> SUFFICES ASSUME ReloadInv, RootInv, [ReloadNext]_reloadVars PROVE RootInv'
      OBVIOUS
    <2>1. ASSUME NEW b \in Block, Propagate(b) PROVE RootInv'
      BY <2>1 DEF Propagate, RootInv, Reached
    <2>2. ASSUME NEW b \in Block, Jump(b) PROVE RootInv'
      BY <2>2, JumpRoots
    <2>3. CASE Rewrite
      BY <2>3, RewriteRoots
    <2>4. ASSUME NEW moves \in BOOLEAN, Execute(moves) PROVE RootInv'
      BY <2>4, ExecuteRoots
    <2>5. CASE UNCHANGED reloadVars
      <3>1. /\ prog' = prog /\ phase' = phase /\ liveOut' = liveOut /\ rooted' = rooted
            /\ at' = at /\ k' = k /\ slot' = slot
        BY <2>5 DEF reloadVars
      <3>2. D' = D /\ (Dominates(D, prog.def.at, at, k)' <=> Dominates(D, prog.def.at, at, k))
        BY <3>1 DEF D, Dominates
      <3>3. \A q \in Records : Feeds(q[2], at, k)' <=> Feeds(q[2], at, k)
        BY <3>1, Determined DEF Feeds
      <3> QED
        BY <3>1, <3>2, <3>3, RootsDetermined DEF RootInv
    <2> QED
      BY <2>1, <2>2, <2>3, <2>4, <2>5 DEF ReloadNext
  <1> QED
    BY <1>1, <1>2, ReloadInvariant, PTL DEF ReloadSpec

(* A map marks a slot only where the slot holds an address of the stack the  *)
(* goroutine has now: saved on every path that leads there (the claim of     *)
(* StackMap.h), and moved by every call since (GocStackmapPlacement and      *)
(* GocObjTables).                                                            *)
THEOREM RootsAreCurrent == ReloadSpec => []RootsCurrent
  <1>1. ReloadInv /\ RootInv => RootsCurrent
    <2> SUFFICES ASSUME ReloadInv, RootInv, phase = "run", <<at, k>> \in marks
                 PROVE  slot = "current"
      BY DEF RootsCurrent
    <2>1. Rooted /\ rooted /\ Takes(<<at, k>>)
      <3>1. RewriteInv
        BY DEF ReloadInv
      <3> QED
        BY SMT, <3>1 DEF RewriteInv
    <2>2. PICK q \in Records : q[1] = at /\ Feeds(q[2], at, k)
      BY <2>1 DEF Takes
    <2> QED
      BY <2>1, <2>2 DEF RootInv
  <1> QED
    BY RootInvariant, <1>1, PTL

(* Every live block leads to an exposed use without passing the definition,  *)
(* and every block of liveOut to a live one (what the worklist adds).        *)
Needed ==
  /\ \A y \in liveIn : \A T \in SUBSET Block : y \in T /\ Closed(T) => T \cap Exposed # {}
  /\ \A x \in liveOut : prog.succ[x] \cap liveIn # {}

(* The first worklist holds the exposed uses.                                *)
LEMMA NeededInitially ==
  ASSUME ReloadInit
  PROVE  Needed
  BY DEF ReloadInit, Analyse, Needed

(* A block is added before a live one, and only outside the definition's     *)
(* block: a path from it goes on to that one (CrossCallLiveness).            *)
LEMMA PropagateNeeded ==
  ASSUME Needed, LiveInv, NEW b \in Block, Propagate(b)
  PROVE  Needed'
  <1>1. /\ prog' = prog /\ D' = D /\ Exposed' = Exposed
        /\ \A T : Closed(T)' = Closed(T)
    BY DEF Propagate, D, Exposed, UsesIn, End, Code, Closed
  <1>2. b \in liveIn /\ liveOut' = liveOut \cup Preds(b) /\ liveIn' = liveIn \cup Grown(b)
    BY DEF Propagate, LiveInv
  <1>3. \A x \in Preds(b) : b \in prog.succ[x]
    BY DEF Preds
  <1>4. ASSUME NEW y \in liveIn', NEW T \in SUBSET Block, y \in T, Closed(T)
        PROVE  T \cap Exposed # {}
    <2>1. CASE y \in liveIn
      BY <1>4, <2>1 DEF Needed
    <2>2. CASE y \in Grown(b)
      <3>1. y \in Preds(b) /\ y # D
        BY <2>2 DEF Grown
      <3>2. b \in T
        BY <1>3, <1>4, <3>1 DEF Closed
      <3> QED
        BY <1>2, <1>4, <3>2 DEF Needed
    <2> QED
      BY <1>2, <1>4, <2>1, <2>2
  <1>5. ASSUME NEW x \in liveOut'
        PROVE  prog.succ[x] \cap liveIn' # {}
    <2>1. prog.succ[x] \cap liveIn # {}
      BY <1>2, <1>3, <1>5 DEF Needed
    <2> QED
      BY <1>2, <2>1
  <1> QED
    BY <1>1, <1>4, <1>5 DEF Needed

(* The analysis keeps the worklist's promise; later steps do not touch it.   *)
THEOREM NeededInvariant == ReloadSpec => []Needed
  <1>1. ReloadInv /\ Needed /\ [ReloadNext]_reloadVars => Needed'
    <2> SUFFICES ASSUME ReloadInv, Needed, [ReloadNext]_reloadVars PROVE Needed'
      OBVIOUS
    <2>1. CASE \E b \in Block : Propagate(b)
      BY <2>1, PropagateNeeded DEF ReloadInv
    <2>2. CASE prog' = prog /\ liveIn' = liveIn /\ liveOut' = liveOut
      <3>1. Exposed' = Exposed /\ \A T : Closed(T)' = Closed(T)
        BY <2>2 DEF D, Exposed, UsesIn, End, Code, Closed
      <3> QED
        BY <2>2, <3>1 DEF Needed
    <2> QED
      BY <2>1, <2>2 DEF ReloadNext, Jump, Rewrite, Execute, reloadVars, analysis
  <1>2. ReloadInit => Needed
    BY NeededInitially
  <1> QED
    BY <1>1, <1>2, ReloadInvariant, PTL DEF ReloadSpec

(* What is free of the definition from S is closed, and holds S.             *)
LEMMA FreeIsClosed ==
  ASSUME ReloadTypes, NEW S \in SUBSET Block
  PROVE  Free(S) \in SUBSET Block /\ S \subseteq Free(S) /\ Closed(Free(S))
  <1>1. Free(S) \in SUBSET Block /\ S \subseteq Free(S)
    BY DEF Free
  <1>2. ASSUME NEW b \in Free(S) \ {D}, NEW c \in prog.succ[b]
        PROVE  c \in Free(S)
    <2>1. c \in Block
      BY <1>1, <1>2, ProgramTypes
    <2>2. ASSUME NEW T \in SUBSET Block, S \subseteq T, Closed(T)
          PROVE  c \in T
      BY <1>2, <2>2 DEF Free, Closed
    <2> QED
      BY <2>1, <2>2 DEF Free
  <1> QED
    BY <1>1, <1>2 DEF Closed

(* When the worklist is empty, the blocks that are not live are closed, so a *)
(* path that meets no live block meets no use.                               *)
LEMMA LiveOutExact ==
  ASSUME ReloadInv, Needed, work = {}, NEW x \in Block
  PROVE  x \in liveOut <=> Free(prog.succ[x]) \cap Exposed # {}
  <1>1. /\ ReloadTypes /\ prog.succ[x] \in SUBSET Block
        /\ Exposed \subseteq liveIn /\ liveIn \subseteq Block
        /\ \A b \in liveIn : Preds(b) \subseteq liveOut
        /\ liveOut \subseteq liveIn \cup {D}
    BY ProgramTypes DEF ReloadInv, LiveInv, ReloadTypes
  <1>2. ASSUME x \in liveOut
        PROVE  Free(prog.succ[x]) \cap Exposed # {}
    <2>1. PICK y \in liveIn : y \in prog.succ[x]
      BY <1>2 DEF Needed
    <2> QED
      BY <1>1, <2>1, FreeIsClosed DEF Needed
  <1>3. ASSUME x \notin liveOut
        PROVE  Free(prog.succ[x]) \cap Exposed = {}
    <2> DEFINE T == Block \ liveIn
    <2>1. \A b \in Block : b \notin liveOut => prog.succ[b] \cap liveIn = {}
      BY <1>1 DEF Preds
    <2>2. \A b \in Block : prog.succ[b] \subseteq Block
      BY <1>1, ProgramTypes
    <2>3. Closed(T)
      BY <1>1, <2>1, <2>2 DEF Closed
    <2>4. prog.succ[x] \subseteq T
      BY <1>1, <1>3, <2>1
    <2>5. Free(prog.succ[x]) \subseteq T
      BY <2>3, <2>4 DEF Free
    <2> QED
      BY <1>1, <2>5
  <1> QED
    BY <1>2, <1>3

(* CrossCallLiveness computes what it is for, in every control-flow graph:   *)
(* an address is live across an operation iff a use can be reached from it   *)
(* without passing the definition.                                           *)
THEOREM LivenessAlwaysExact == ReloadSpec => []LivenessExact
  <1>1. ReloadInv /\ Needed => LivenessExact
    <2> SUFFICES ASSUME ReloadInv, Needed, work = {}, NEW p \in Points
                 PROVE  LiveAcross(p[1], p[2]) <=>
                          /\ ~(p[1] = D /\ p[2] < prog.def.at)
                          /\ \/ \E u \in UsesIn(p[1]) : p[2] < u
                             \/ \E b \in Free(prog.succ[p[1]]) : \E u \in UsesIn(b) : b = D => u < prog.def.at
      BY DEF LivenessExact
    <2>1. ReloadTypes /\ p[1] \in Block
      BY SMT DEF ReloadInv, Points
    <2>2. \A b \in Block : b \in Exposed <=> \E u \in UsesIn(b) : b = D => u < prog.def.at
      <3>1. ASSUME NEW b \in Block, NEW u \in UsesIn(b)
            PROVE  ~(b = D /\ prog.def.at < u) <=> (b = D => u < prog.def.at)
        <4>1. u \in 1 .. End(b) /\ (b = D => prog.def.at < u)
          BY <2>1, ProgramFacts
        <4>2. prog.def.at \in Nat
          BY <2>1, ProgramTypes
        <4> QED
          BY SMT, <4>1, <4>2
      <3> QED
        BY <3>1 DEF Exposed
    <2>3. Free(prog.succ[p[1]]) \subseteq Block
      BY DEF Free
    <2>4. p[1] \in liveOut <=> \E b \in Free(prog.succ[p[1]]) : b \in Exposed
      BY <2>1, LiveOutExact
    <2> QED
      BY <2>2, <2>3, <2>4 DEF LiveAcross
  <1> QED
    BY <1>1, ReloadInvariant, NeededInvariant, PTL

-----------------------------------------------------------------------------
(* The stack check of a function prologue.                                 *)

(* The constants' types.                                                     *)
LEMMA ConstantFacts ==
  /\ StackSmall \in Nat /\ StackBig \in Nat /\ StackGuard \in Nat /\ Preempt \in Nat
  /\ WordSize \in Nat /\ PtrSize \in Nat /\ StubBytes \in Nat
  /\ MaxDepth \in Nat /\ MaxPreempt \in Nat
  /\ 0 < StackSmall /\ StackSmall < StackBig /\ Preempt < WordSize /\ 0 < StubBytes
  /\ StubBytes + 2 * PtrSize <= StackGuard - StackSmall
  /\ StackSmall + PtrSize <= StackGuard - StackSmall
  BY StackAssumption, PlacementAssumption

(* Frame sizes are words.                                                    *)
LEMMA FrameFacts == \A f \in Frames \cup {0} : f \in Nat /\ (f \in Frames => f < WordSize)
  <1>1. WordSize \in Nat /\ Frames \subseteq 0 .. WordSize - 1
    BY StackAssumption
  <1> QED BY SMT, <1>1

(* What TypeOK says of the stack and of single calls.                        *)
LEMMA TypeFacts ==
  ASSUME TypeOK
  PROVE  /\ hi \in Nat /\ size \in Nat /\ hi - size > StackBig /\ hi <= Preempt
         /\ used \in Nat /\ depth \in 0 .. MaxDepth /\ depth \in Nat
         /\ entering.frame \in Nat /\ entering.calls \in BOOLEAN
         /\ \A i \in 0 .. MaxDepth : /\ call[i].kind \in Kinds /\ call[i].used \in Nat
                                     /\ call[i].calls \in BOOLEAN
  <1>1. hi \in StackTops /\ size \in StackSizes
    BY DEF TypeOK
  <1>2. entering.frame \in Frames \cup {0} /\ entering.calls \in BOOLEAN
    BY DEF TypeOK
  <1>3. call \in [0 .. MaxDepth -> [kind : Kinds, calls : BOOLEAN, used : Nat]]
    BY DEF TypeOK
  <1>4. used \in Nat /\ depth \in 0 .. MaxDepth
    BY DEF TypeOK
  <1>5. hi \in Nat /\ size \in Nat /\ hi - size > StackBig /\ hi <= Preempt
    BY <1>1, StackAssumption, PlacementAssumption
  <1>6. entering.frame \in Nat
    BY <1>2, FrameFacts
  <1>7. depth \in Nat
    BY SMT, <1>4, ConstantFacts
  <1> QED BY <1>2, <1>3, <1>4, <1>5, <1>6, <1>7

(* The branch of the check, tier by tier.                                    *)
LEMMA Tiers ==
  ASSUME NEW f \in Nat, NEW sp \in Nat, NEW g \in Nat
  PROVE  /\ f <= StackSmall => (ToStub(f, sp, g) <=> sp <= g)
         /\ f > StackSmall /\ f <= StackBig =>
              (ToStub(f, sp, g) <=> Word(sp - (f - StackSmall)) <= g)
         /\ f > StackBig =>
              (ToStub(f, sp, g) <=> \/ sp < f - StackSmall
                                   \/ Word(sp - (f - StackSmall)) <= g)
  <1>1. ASSUME f <= StackSmall PROVE ToStub(f, sp, g) <=> sp <= g
    <2>1. Tier(f) = "Small"
      BY SMT, <1>1, ConstantFacts DEF Tier
    <2> QED BY <2>1 DEF ToStub
  <1>2. ASSUME f > StackSmall, f <= StackBig
        PROVE  ToStub(f, sp, g) <=> Word(sp - (f - StackSmall)) <= g
    <2>1. Tier(f) = "Big"
      BY SMT, <1>2, ConstantFacts DEF Tier
    <2> QED BY <2>1 DEF ToStub
  <1>3. ASSUME f > StackBig
        PROVE  ToStub(f, sp, g) <=> \/ sp < f - StackSmall
                                    \/ Word(sp - (f - StackSmall)) <= g
    <2>1. Tier(f) = "Huge"
      BY SMT, <1>3, ConstantFacts DEF Tier
    <2> QED BY <2>1 DEF ToStub
  <1> QED BY <1>1, <1>2, <1>3

(* A check that lets a function in leaves the nosplit budget below its frame *)
(* and was made against the true guard.                                      *)
LEMMA CheckIsSound ==
  ASSUME NEW h \in Nat, NEW n \in Nat, NEW u \in Nat, NEW f \in Nat, NEW g \in Nat,
         h - n > StackBig, h <= Preempt, f < WordSize, u <= n,
         g \in {h - n + StackGuard, Preempt},
         ~ToStub(f, h - u, g)
  PROVE  /\ n - (u + f) > StackGuard - StackSmall
         /\ g # Preempt
  <1>0. h - u \in Nat
    BY SMT, ConstantFacts
  <1>1. CASE f <= StackSmall
    BY SMT, <1>0, <1>1, Tiers, ConstantFacts
  <1>2. CASE f > StackSmall /\ f <= StackBig
    BY SMT, <1>0, <1>2, Tiers, ConstantFacts DEF Word
  <1>3. CASE f > StackBig
    BY SMT, <1>0, <1>3, Tiers, ConstantFacts DEF Word
  <1> QED BY SMT, <1>1, <1>2, <1>3, ConstantFacts

(* A stack the runtime grew for a frame passes the check.                    *)
LEMMA GrownPasses ==
  ASSUME NEW h \in Nat, NEW n \in Nat, NEW u \in Nat, NEW f \in Nat,
         NEW sp, sp = h - u, NEW g, g = h - n + StackGuard, h - n > StackBig,
         n - (u + StubBytes) >= MaxSPDelta(f) + StackGuard
  PROVE  ~ToStub(f, sp, g)
  <1>1. MaxSPDelta(f) >= f /\ MaxSPDelta(f) \in Nat
    BY SMT, ConstantFacts DEF MaxSPDelta
  <1>0. sp \in Nat /\ g \in Nat
    BY SMT, <1>1, ConstantFacts
  <1>2. CASE f <= StackSmall
    BY SMT, <1>0, <1>1, <1>2, Tiers, ConstantFacts
  <1>3. CASE f > StackSmall /\ f <= StackBig
    BY SMT, <1>0, <1>1, <1>3, Tiers, ConstantFacts DEF Word
  <1>4. CASE f > StackBig
    BY SMT, <1>0, <1>1, <1>4, Tiers, ConstantFacts DEF Word
  <1> QED BY SMT, <1>2, <1>3, <1>4, ConstantFacts

(* A goroutine that has only run Go satisfies the invariant.                 *)
THEOREM StackInitially == Init => StackInv
  <1> SUFFICES ASSUME Init PROVE StackInv
    OBVIOUS
  <1>1. /\ hi \in StackTops /\ size \in StackSizes /\ size \in Nat
        /\ used \in Nat /\ size - used > StackGuard - StackSmall
    BY StackAssumption DEF Init
  <1>2. \A i \in 0 .. MaxDepth :
          call[i].kind = "go" /\ call[i].calls = TRUE /\ call[i].used = used
    BY DEF Init
  <1>3. TypeOK
    <2>1. call \in [0 .. MaxDepth -> [kind : Kinds, calls : BOOLEAN, used : Nat]]
      BY <1>1 DEF Init, Kinds
    <2>2. depth \in 0 .. MaxDepth /\ preempts \in 0 .. MaxPreempt
      BY SMT, ConstantFacts DEF Init
    <2>3. entering \in [frame : Frames \cup {0}, calls : BOOLEAN]
      BY DEF Init
    <2> QED BY <1>1, <2>1, <2>2, <2>3 DEF Init, TypeOK
  <1>4. depth = 0 /\ pc = "run"
    BY DEF Init
  <1>5. 0 \in 0 .. MaxDepth
    BY SMT, ConstantFacts
  <1> QED BY SMT, <1>1, <1>2, <1>3, <1>4, <1>5 DEF StackInv, Room, Linked

(* A call or a body's entry pushes a frame that has the room its kind needs. *)
LEMMA PushKeeps ==
  ASSUME StackInv, pc \in {"run", "check"}, depth < MaxDepth,
         NEW kind \in Kinds, NEW calls \in BOOLEAN, NEW u \in Nat, u >= used,
         Push(kind, calls, u), pc' = "run",
         kind \in {"go", "checked"} => size - u > StackGuard - StackSmall,
         kind = "thunk" => calls /\ depth = 0 /\ Linked(u + PtrSize),
         kind = "nosplit" => ~calls /\ size >= u,
         entering' \in [frame : Frames \cup {0}, calls : BOOLEAN],
         UNCHANGED <<hi, size, guard0, preempts>>
  PROVE  StackInv'
  <1>1. TypeOK
    BY DEF StackInv
  <1>2. depth \in 0 .. MaxDepth /\ depth + 1 \in 0 .. MaxDepth /\ used \in Nat
    BY SMT, <1>1, TypeFacts, ConstantFacts
  <1>3. /\ depth' = depth + 1 /\ used' = u
        /\ call' = [call EXCEPT ![depth + 1] = [kind |-> kind, calls |-> calls, used |-> u]]
    BY DEF Push
  <1>4. call' \in [0 .. MaxDepth -> [kind : Kinds, calls : BOOLEAN, used : Nat]]
    BY <1>1, <1>3 DEF TypeOK
  <1>5. \A i \in 0 .. MaxDepth :
          call'[i] = IF i = depth + 1 THEN [kind |-> kind, calls |-> calls, used |-> u]
                                      ELSE call[i]
    BY <1>1, <1>3 DEF TypeOK
  <1>6. TypeOK'
    <2>1. guard0' \in {lo' + StackGuard, Preempt}
      BY <1>1 DEF TypeOK, lo
    <2>2. used' \in Nat /\ depth' \in 0 .. MaxDepth
      BY <1>2, <1>3
    <2> QED BY <1>1, <1>4, <2>1, <2>2 DEF TypeOK
  <1>10. call'[0] = call[0] /\ call[0].kind = "go"
    <2>1. 0 \in 0 .. MaxDepth /\ 0 # depth + 1
      BY SMT, <1>2, ConstantFacts
    <2> QED BY <1>5, <2>1 DEF StackInv
  <1>7. \A i \in 0 .. depth : /\ Room(i)
                              /\ \A j \in 0 .. i : call[j].used <= call[i].used
                              /\ call[i].kind = "thunk" => call[i].calls
                              /\ call[i].used \in Nat /\ i \in 0 .. MaxDepth
    <2>1. \A i \in 0 .. depth : i \in 0 .. MaxDepth
      BY SMT, <1>2, ConstantFacts
    <2> QED BY <1>1, <2>1, TypeFacts DEF StackInv
  <1>8. ASSUME NEW i \in 0 .. depth'
        PROVE  /\ Room(i)' /\ (call'[i].kind = "thunk" => call'[i].calls)
               /\ \A j \in 0 .. i : call'[j].used <= call'[i].used
    <2>0. depth \in 0 .. depth
      BY SMT, <1>2
    <2>3. call[depth].used <= used
      <3>1. call[depth].used \in Nat
        BY <1>7, <2>0
      <3> QED BY SMT, <1>2, <3>1, ConstantFacts DEF StackInv
    <2>1. CASE i = depth + 1
      <3>1. \A j \in 0 .. depth : call'[j].used = call[j].used /\ call[j].used <= call[depth].used
        BY SMT, <1>2, <1>5, <1>7, <2>0
      <3>2. \A j \in 0 .. depth : call'[j].used <= u
        BY SMT, <1>2, <1>7, <2>0, <2>3, <3>1
      <3>3. Room(i)' /\ (call'[i].kind = "thunk" => call'[i].calls) /\ call'[i].used = u
        BY SMT, <1>2, <1>3, <1>5, <1>10, <2>1 DEF Room, Linked
      <3> QED BY SMT, <1>2, <2>1, <3>2, <3>3
    <2>2. CASE i # depth + 1
      <3>1. /\ i \in 0 .. depth /\ call'[i] = call[i]
            /\ \A j \in 0 .. i : j \in 0 .. depth /\ call'[j] = call[j]
        BY SMT, <1>2, <1>3, <1>5, <1>8, <2>2
      <3>2. \A j \in 0 .. i : call'[j].used <= call'[i].used
        BY <1>7, <3>1
      <3> QED BY <1>3, <1>7, <1>10, <3>1, <3>2 DEF Room, Linked
    <2> QED BY <2>1, <2>2
  <1>9. used' = call'[depth'].used
    BY SMT, <1>2, <1>3, <1>5
  <1> QED BY <1>6, <1>8, <1>9, <1>10 DEF StackInv

(* Calls of thunks and of nosplit functions.                                 *)
LEMMA CallThunkKeeps ==
  ASSUME StackInv, NEW frame \in ThunkFrames, CallThunk(frame)
  PROVE  StackInv'
  <1>1. TypeOK /\ pc = "run" /\ depth = 0 /\ depth < MaxDepth
    BY DEF StackInv, CallThunk
  <1>2. used \in Nat /\ frame \in Nat
    BY <1>1, TypeFacts, StackAssumption
  <1> DEFINE u == used + PtrSize + frame
  <1>3. u \in Nat /\ u >= used
    BY SMT, <1>2, ConstantFacts
  <1>4. /\ Push("thunk", TRUE, u) /\ pc' = "run" /\ entering' = entering /\ Linked(u + PtrSize)
        /\ UNCHANGED <<hi, size, guard0, preempts>>
    BY <1>1 DEF CallThunk
  <1>5. entering' \in [frame : Frames \cup {0}, calls : BOOLEAN]
    BY <1>1, <1>4 DEF TypeOK
  <1>6. "thunk" \in Kinds
    BY DEF Kinds
  <1> HIDE DEF u
  <1> QED BY <1>1, <1>3, <1>4, <1>5, <1>6, PushKeeps

(* What a caller leaves for the entry of its callee: below Go and below a    *)
(* checked body the whole budget, below a thunk what the linker left of it.  *)
LEMMA CallerRoom ==
  ASSUME StackInv, pc # "dead", call[depth].kind # "nosplit"
  PROVE  /\ call[depth].used \in Nat /\ call[0].used \in Nat /\ size \in Nat
         /\ size - call[depth].used > PtrSize
         /\ call[depth].kind # "thunk" => size - call[depth].used > StackGuard - StackSmall
         /\ call[depth].kind = "thunk" => size - call[0].used > StackGuard - StackSmall
  <1>1. TypeOK
    BY DEF StackInv
  <1>2. depth \in 0 .. depth /\ depth \in 0 .. MaxDepth /\ 0 \in 0 .. depth /\ 0 \in 0 .. MaxDepth
    <2>1. depth \in 0 .. MaxDepth
      BY <1>1 DEF TypeOK
    <2> QED BY SMT, <2>1, ConstantFacts
  <1>3. /\ Room(depth) /\ call[depth].used \in Nat /\ size \in Nat /\ call[depth].kind \in Kinds
        /\ Room(0) /\ call[0].used \in Nat /\ call[0].kind = "go"
    BY <1>1, <1>2, TypeFacts DEF StackInv
  <1>4. size - call[0].used > StackGuard - StackSmall
    BY <1>3 DEF Room
  <1>5. call[depth].kind # "thunk" => size - call[depth].used > StackGuard - StackSmall
    BY <1>3 DEF Room, Kinds
  <1>6. size - call[depth].used > PtrSize
    BY SMT, <1>3, <1>4, <1>5, ConstantFacts DEF Room, Linked
  <1> QED BY <1>3, <1>4, <1>5, <1>6

(* A call of a C function, checked or not, keeps the invariant.              *)
LEMMA CallCKeeps ==
  ASSUME StackInv, NEW frame \in Frames, NEW calls \in BOOLEAN, CallC(frame, calls)
  PROVE  StackInv'
  <1>1. /\ TypeOK /\ pc = "run" /\ depth < MaxDepth /\ call[depth].kind # "go"
        /\ call[depth].calls /\ (frame = 0 => ~calls)
        /\ UNCHANGED <<hi, size, guard0, preempts>>
    BY DEF StackInv, CallC
  <1>2. /\ depth \in 0 .. depth /\ depth \in 0 .. MaxDepth /\ used \in Nat /\ size \in Nat
        /\ used = call[depth].used /\ frame \in Nat
    BY SMT, <1>1, TypeFacts, FrameFacts DEF StackInv
  <1>3. call[depth].kind # "nosplit"
    BY <1>1, <1>2 DEF StackInv, Room, Linked
  <1>4. /\ size - used > PtrSize /\ call[0].used \in Nat
        /\ call[depth].kind # "thunk" => size - used > StackGuard - StackSmall
        /\ call[depth].kind = "thunk" => size - call[0].used > StackGuard - StackSmall
    BY <1>1, <1>2, <1>3, CallerRoom
  <1>5. CASE NoSplit(frame, calls)
    <2> DEFINE u == used + PtrSize + frame
    <2>1. /\ Push("nosplit", calls, u) /\ pc' = "run" /\ entering' = entering
          /\ call[depth].kind = "thunk" => Linked(u)
      BY <1>1, <1>5 DEF CallC
    <2>2. ~calls /\ frame <= StackSmall
      BY SMT, <1>1, <1>2, <1>5, ConstantFacts DEF NoSplit, Leaf
    <2>3. u \in Nat /\ u >= used /\ size >= u
      BY SMT, <1>2, <1>4, <2>1, <2>2, ConstantFacts DEF Linked
    <2>4. entering' \in [frame : Frames \cup {0}, calls : BOOLEAN]
      BY <1>1, <2>1 DEF TypeOK
    <2>5. "nosplit" \in Kinds
      BY DEF Kinds
    <2> HIDE DEF u
    <2> QED BY <1>1, <2>1, <2>2, <2>3, <2>4, <2>5, PushKeeps
  <1>6. CASE ~NoSplit(frame, calls)
    <2>1. /\ pc' = "check" /\ entering' = [frame |-> frame, calls |-> calls]
          /\ used' = used + PtrSize /\ depth' = depth /\ call' = call
      BY <1>6 DEF CallC
    <2>2. TypeOK'
      <3>1. guard0' \in {lo' + StackGuard, Preempt}
        BY <1>1 DEF TypeOK, lo
      <3>2. used' \in Nat /\ entering' \in [frame : Frames \cup {0}, calls : BOOLEAN]
        BY SMT, <1>2, <2>1, ConstantFacts
      <3> QED BY <1>1, <2>1, <3>1, <3>2 DEF TypeOK
    <2> QED BY <1>1, <1>2, <1>3, <2>1, <2>2 DEF StackInv, Room, Linked
  <1> QED BY <1>5, <1>6

(* The check lets a function in only where its frame fits.                   *)
LEMMA CheckKeeps == ASSUME StackInv, Check PROVE StackInv'
  <1>1. /\ TypeOK /\ pc = "check" /\ used = call[depth].used + PtrSize
        /\ call[depth].kind # "nosplit" /\ depth < MaxDepth /\ entering.frame \in Frames
        /\ UNCHANGED <<hi, size, guard0, entering, preempts>>
    BY DEF StackInv, Check
  <1>2. CASE ToStub(entering.frame, SP, guard0)
    <2>1. pc' = "stub" /\ UNCHANGED <<used, depth, call>>
      BY <1>2 DEF Check
    <2>2. TypeOK'
      BY <1>1, <2>1 DEF TypeOK, lo
    <2> QED BY <1>1, <2>1, <2>2 DEF StackInv, Room, Linked
  <1>3. CASE ~ToStub(entering.frame, SP, guard0)
    <2> DEFINE f == entering.frame
    <2>1. /\ hi \in Nat /\ size \in Nat /\ used \in Nat /\ f \in Nat /\ f < WordSize
          /\ hi - size > StackBig /\ hi <= Preempt /\ entering.calls \in BOOLEAN
      BY <1>1, TypeFacts, FrameFacts
    <2>2. used <= size
      BY SMT, <1>1, <2>1, CallerRoom, ConstantFacts
    <2>3. guard0 \in {hi - size + StackGuard, Preempt} /\ guard0 \in Nat
      BY SMT, <1>1, <2>1, ConstantFacts DEF TypeOK, lo
    <2>4. size - (used + f) > StackGuard - StackSmall
      BY <1>3, <2>1, <2>2, <2>3, CheckIsSound DEF SP
    <2>5. pc' = "run" /\ Push("checked", entering.calls, used + f)
      BY <1>3 DEF Check
    <2>6. entering' \in [frame : Frames \cup {0}, calls : BOOLEAN]
      BY <1>1 DEF TypeOK
    <2>7. "checked" \in Kinds /\ used + f \in Nat /\ used + f >= used
      BY SMT, <2>1 DEF Kinds
    <2> QED BY <1>1, <2>1, <2>4, <2>5, <2>6, <2>7, PushKeeps
  <1> QED BY <1>2, <1>3

(* A return gives the caller back the stack it had.                          *)
LEMMA ReturnKeeps == ASSUME StackInv, Return PROVE StackInv'
  <1>1. /\ TypeOK /\ pc = "run" /\ depth > 0
        /\ depth' = depth - 1 /\ used' = call[depth - 1].used
        /\ call' = [call EXCEPT ![depth] = call[0]]
        /\ UNCHANGED <<hi, size, guard0, pc, entering, preempts>>
    BY DEF StackInv, Return
  <1>2. /\ depth \in Nat /\ depth \in 0 .. MaxDepth /\ depth - 1 \in 0 .. MaxDepth
        /\ depth - 1 \in 0 .. depth
    BY SMT, <1>1, TypeFacts, ConstantFacts
  <1>3. TypeOK'
    <2>1. guard0' \in {lo' + StackGuard, Preempt}
      BY <1>1 DEF TypeOK, lo
    <2>2. used' \in Nat
      BY <1>1, <1>2, TypeFacts
    <2>3. call' \in [0 .. MaxDepth -> [kind : Kinds, calls : BOOLEAN, used : Nat]]
      <3>1. 0 \in 0 .. MaxDepth
        BY SMT, ConstantFacts
      <3> QED BY <1>1, <3>1 DEF TypeOK
    <2> QED BY <1>1, <1>2, <2>1, <2>2, <2>3 DEF TypeOK
  <1>4. \A i \in 0 .. depth' : i \in 0 .. depth /\ i \in 0 .. MaxDepth /\ i # depth
    BY SMT, <1>1, <1>2, ConstantFacts
  <1>5. \A i \in 0 .. depth' : call'[i] = call[i] /\ (\A j \in 0 .. i : call'[j] = call[j])
    <2>1. \A i \in 0 .. depth' : \A j \in 0 .. i : j \in 0 .. depth'
      BY SMT, <1>1, <1>2
    <2>2. \A i \in 0 .. depth' : call'[i] = call[i]
      BY <1>1, <1>4 DEF TypeOK
    <2> QED BY <2>1, <2>2
  <1>6. 0 \in 0 .. depth' /\ depth' \in 0 .. depth' /\ depth' = depth - 1
    BY SMT, <1>1, <1>2
  <1>7. call'[0] = call[0]
    BY <1>5, <1>6
  <1>8. \A i \in 0 .. depth' : Room(i)' /\ (call'[i].kind = "thunk" => call'[i].calls)
    <2> TAKE i \in 0 .. depth'
    <2>1. Room(i) /\ (call[i].kind = "thunk" => call[i].calls) /\ call'[i] = call[i] /\ size' = size
      BY <1>1, <1>4, <1>5 DEF StackInv
    <2>2. Room(i)'
      BY <1>7, <2>1 DEF Room, Linked
    <2> QED BY <2>1, <2>2
  <1>9. \A i \in 0 .. depth' : \A j \in 0 .. i : call'[j].used <= call'[i].used
    BY <1>4, <1>5 DEF StackInv
  <1>10. used' = call'[depth'].used
    BY <1>1, <1>5, <1>6
  <1> QED BY <1>1, <1>3, <1>7, <1>8, <1>9, <1>10 DEF StackInv

(* A larger stack, or a smaller one the runtime may move to, keeps the room. *)
LEMMA CopyKeeps ==
  ASSUME StackInv, pc = "stub", pc' = "check", NEW n \in StackSizes,
         n >= size \/ Shrinkable(n),
         CopyStack(n), UNCHANGED <<used, depth, call, entering, preempts>>
  PROVE  StackInv'
  <1>1. /\ TypeOK /\ used = call[depth].used + PtrSize
        /\ call[depth].kind # "nosplit" /\ depth < MaxDepth /\ entering.frame \in Frames
    BY DEF StackInv
  <1>2. /\ size \in Nat /\ n \in Nat /\ used \in Nat
        /\ depth \in 0 .. depth /\ depth \in 0 .. MaxDepth
        /\ \A i \in 0 .. depth : i \in 0 .. MaxDepth
    BY SMT, <1>1, TypeFacts, StackAssumption
  <1>3. \A i \in 0 .. depth : /\ call[i].used \in Nat /\ call[i].kind \in Kinds
                              /\ call[i].used <= used
    <2>1. \A i \in 0 .. depth : call[i].used \in Nat /\ call[i].kind \in Kinds
      BY <1>1, <1>2, TypeFacts
    <2>2. \A i \in 0 .. depth : call[i].used <= call[depth].used
      BY <1>2 DEF StackInv
    <2> QED BY SMT, <1>1, <1>2, <2>1, <2>2, ConstantFacts
  <1>4. size' = n
    BY DEF CopyStack
  <1>5. TypeOK'
    BY <1>1, <1>4 DEF TypeOK, CopyStack, lo
  <1>6. \A i \in 0 .. depth : Room(i)'
    <2>1. CASE n >= size
      BY SMT, <1>2, <1>3, <1>4, <2>1, ConstantFacts DEF StackInv, Room, Linked
    <2>2. CASE Shrinkable(n)
      <3>1. n - used > StackGuard - StackSmall
        BY SMT, <1>2, <2>2, ConstantFacts DEF Shrinkable
      <3>2. \A i \in 0 .. depth : n - call[i].used > StackGuard - StackSmall
        BY SMT, <1>2, <1>3, <3>1, ConstantFacts
      <3>3. \A i \in 0 .. depth : call[i].kind = "nosplit" => ~call[i].calls
        BY DEF StackInv, Room, Linked
      <3>4. \A i \in 0 .. depth : n >= call[i].used
        BY SMT, <1>2, <1>3, <3>2, ConstantFacts
      <3>5. \A i \in 0 .. depth : call[i].kind = "thunk" => i = 1 /\ Linked(call[i].used + PtrSize)
        BY DEF StackInv, Room, Linked
      <3> QED BY <1>4, <3>2, <3>3, <3>4, <3>5 DEF Room, Linked
    <2> QED BY <2>1, <2>2
  <1> QED BY <1>1, <1>5, <1>6 DEF StackInv

(* Morestack, in its three outcomes.                                         *)
LEMMA RuntimeKeeps == ASSUME StackInv, Grow \/ Preempted PROVE StackInv'
  <1>1. TypeOK /\ size \in Nat
    <2>1. TypeOK
      BY DEF StackInv
    <2> QED BY <2>1, TypeFacts
  <1>2. CASE Grow /\ pc' = "check"
    <2>1. PICK n \in Fitting : CopyStack(n)
      BY <1>2 DEF Grow
    <2>2. n \in StackSizes /\ n >= 2 * size /\ n \in Nat
      BY <2>1, StackAssumption DEF Fitting
    <2>3. n >= size
      BY SMT, <1>1, <2>2
    <2> QED BY <1>2, <2>1, <2>2, <2>3, CopyKeeps DEF Grow
  <1>3. CASE Grow /\ pc' = "dead"
    <2>1. UNCHANGED <<hi, size, guard0, used, depth, call, entering, preempts>>
      BY <1>3 DEF Grow
    <2>2. TypeOK'
      BY <1>1, <1>3, <2>1 DEF TypeOK, lo
    <2> QED BY <1>3, <2>1, <2>2 DEF StackInv, Room, Linked
  <1>4. CASE Preempted /\ UNCHANGED <<hi, size>>
    <2>1. /\ pc = "stub" /\ pc' = "check"
          /\ UNCHANGED <<hi, size, used, depth, call, entering, preempts>>
      BY <1>4 DEF Preempted
    <2>2. TypeOK'
      BY <1>1, <1>4, <2>1 DEF Preempted, CopyStack, TypeOK, lo
    <2> QED BY <2>1, <2>2 DEF StackInv, Room, Linked
  <1>5. ASSUME Preempted, NEW n \in StackSizes, Shrinkable(n), CopyStack(n)
        PROVE  StackInv'
    BY <1>5, CopyKeeps DEF Preempted
  <1> QED BY <1>2, <1>3, <1>4, <1>5 DEF Grow, Preempted

(* Every step of the goroutine and of the runtime keeps the invariant.       *)
THEOREM StackStep == StackInv /\ [Next]_vars => StackInv'
  <1> SUFFICES ASSUME StackInv, [Next]_vars PROVE StackInv'
    OBVIOUS
  <1>1. CASE RequestPreempt
    <2>1. UNCHANGED <<hi, size, used, depth, call, pc, entering>> /\ guard0' = Preempt
      BY <1>1 DEF RequestPreempt
    <2>2. preempts' \in 0 .. MaxPreempt
      BY SMT, <1>1, ConstantFacts DEF RequestPreempt, StackInv, TypeOK
    <2>3. TypeOK'
      BY <2>1, <2>2 DEF StackInv, TypeOK, lo
    <2> QED BY <2>1, <2>3 DEF StackInv, Room, Linked
  <1>2. CASE UNCHANGED vars
    <2>1. TypeOK'
      BY <1>2 DEF vars, StackInv, TypeOK, lo
    <2> QED BY <1>2, <2>1 DEF vars, StackInv, Room, Linked
  <1> QED BY <1>1, <1>2, CallThunkKeeps, CallCKeeps, CheckKeeps, ReturnKeeps, RuntimeKeeps
      DEF Next

(* The room below every call is kept for ever.                               *)
THEOREM StackInvariant == Spec => []StackInv
  <1> QED BY StackInitially, StackStep, PTL DEF Spec

(* Whatever ran before, a body has its frame and the nosplit budget, and a   *)
(* cold block the room for its saves, below every thunk whose frame leaves   *)
(* it that much.                                                             *)
THEOREM BodiesFit == Spec => []FrameFits
  <1>1. ASSUME StackInv, pc = "run"
        PROVE  /\ call[depth].kind = "checked" => SP - lo > StackGuard - StackSmall
               /\ SP >= lo
    <2>1. TypeOK
      BY <1>1 DEF StackInv
    <2>2. /\ hi \in Nat /\ size \in Nat /\ used \in Nat /\ used = call[depth].used
          /\ call[depth].kind \in Kinds /\ Room(depth)
      BY SMT, <1>1, <2>1, TypeFacts DEF StackInv
    <2>3. SP - lo = size - used
      BY SMT, <2>2 DEF SP, lo
    <2>4. call[depth].kind # "nosplit" => size - used > PtrSize
      BY <1>1, <2>2, CallerRoom
    <2>5. size >= used
      BY SMT, <2>2, <2>4, ConstantFacts DEF Room
    <2>6. SP >= lo
      BY SMT, <2>2, <2>5 DEF SP, lo
    <2> QED BY <2>2, <2>3, <2>6 DEF Room
  <1>2. ASSUME StackInv, pc = "stub",
               call[depth].kind = "thunk" => Linked(used + StubBytes + PtrSize)
        PROVE  SP - StubBytes - PtrSize >= lo
    <2>1. TypeOK /\ used = call[depth].used + PtrSize /\ call[depth].kind # "nosplit"
      BY <1>2 DEF StackInv
    <2>2. hi \in Nat /\ size \in Nat /\ used \in Nat
      BY <2>1, TypeFacts
    <2>3. /\ call[depth].used \in Nat /\ call[0].used \in Nat
          /\ call[depth].kind # "thunk" => size - call[depth].used > StackGuard - StackSmall
          /\ call[depth].kind = "thunk" => size - call[0].used > StackGuard - StackSmall
      BY <1>2, <2>1, CallerRoom
    <2> QED BY SMT, <1>2, <2>1, <2>2, <2>3, ConstantFacts DEF SP, lo, Linked
  <1>3. StackInv => FrameFits
    BY <1>1, <1>2 DEF FrameFits
  <1> QED BY <1>3, StackInvariant, PTL

(* No body starts while a preemption is pending.                             *)
THEOREM PreemptionIsSeen == Spec => PreemptSeen
  <1>1. StackInv /\ [Next]_vars => [pc = "check" /\ pc' = "run" => guard0 # Preempt]_vars
    <2> SUFFICES ASSUME StackInv, Next, pc = "check", pc' = "run" PROVE guard0 # Preempt
      OBVIOUS
    <2>1. CASE Check
      <3>1. /\ TypeOK /\ used = call[depth].used + PtrSize
            /\ call[depth].kind # "nosplit" /\ entering.frame \in Frames
        BY DEF StackInv
      <3>2. /\ hi \in Nat /\ size \in Nat /\ used \in Nat /\ entering.frame \in Nat
            /\ entering.frame < WordSize /\ hi - size > StackBig /\ hi <= Preempt
        BY <3>1, TypeFacts, FrameFacts
      <3>3. used <= size
        BY SMT, <3>1, <3>2, CallerRoom, ConstantFacts
      <3>4. guard0 \in {hi - size + StackGuard, Preempt} /\ guard0 \in Nat
        BY SMT, <3>1, <3>2, ConstantFacts DEF TypeOK, lo
      <3>5. ~ToStub(entering.frame, hi - used, guard0)
        BY <2>1 DEF Check, SP
      <3> QED BY <3>2, <3>3, <3>4, <3>5, CheckIsSound
    <2> QED BY <2>1 DEF Next, CallThunk, CallC, Return, Grow, Preempted, RequestPreempt
  <1> QED BY <1>1, StackInvariant, PTL DEF Spec, PreemptSeen

(* One growth is enough.                                                     *)
THEOREM OneGrowthIsEnough == Spec => GrowsOnce
  <1>1. StackInv /\ [Next]_vars =>
          [pc = "stub" /\ guard0 # Preempt /\ pc' = "check"
             => ~ToStub(entering.frame, SP', guard0')]_vars
    <2> SUFFICES ASSUME StackInv, Next, pc = "stub", guard0 # Preempt, pc' = "check"
                 PROVE  ~ToStub(entering.frame, SP', guard0')
      OBVIOUS
    <2>1. CASE Grow
      <3>1. TypeOK
        BY DEF StackInv
      <3>2. used \in Nat /\ entering.frame \in Nat /\ used' = used
        BY <2>1, <3>1, TypeFacts DEF Grow
      <3>3. PICK n \in Fitting : CopyStack(n)
        BY <2>1 DEF Grow
      <3>4. /\ n \in StackSizes /\ n \in Nat
            /\ n - (used + StubBytes) >= MaxSPDelta(entering.frame) + StackGuard
        BY <3>3, StackAssumption DEF Fitting
      <3>5. hi' \in StackTops /\ guard0' = hi' - n + StackGuard
        BY <3>3 DEF CopyStack
      <3>6. hi' \in Nat /\ hi' - n > StackBig
        BY <3>4, <3>5, PlacementAssumption
      <3>7. SP' = hi' - used
        BY <3>2 DEF SP
      <3> QED BY <3>2, <3>4, <3>5, <3>6, <3>7, GrownPasses
    <2> QED BY <2>1 DEF Next, CallThunk, CallC, Check, Return, Preempted, RequestPreempt
  <1> QED BY <1>1, StackInvariant, PTL DEF Spec, GrowsOnce

=============================================================================
