--------------------------- MODULE ParallelMove ---------------------------
(***************************************************************************)
(* The register moves of a thunk: parallelGPR, parallelXMM,                *)
(* parallelArm64GPR and parallelArm64FPR are one algorithm with four       *)
(* scratch registers.  It turns moves that are meant to happen at once     *)
(* into a sequence of single moves.                                        *)
(*                                                                         *)
(* from[d] is the pending source of destination d: a parameter has one     *)
(* place in each convention, so a destination is written once.  The code   *)
(* takes the first move that is ready; any ready move will do.             *)
(***************************************************************************)
EXTENDS Naturals, FiniteSets, Functions

CONSTANTS Reg,       \* the registers of one bank that carry parameters
          Scratch,   \* r12, xmm15, x16 or d16
          Value

ASSUME ScratchAssumption == Scratch \notin Reg /\ IsFiniteSet(Reg)

VARIABLES regs, from,
          want       \* what every register is to hold at the end

moveVars == <<regs, from, want>>

Pending == DOMAIN from
Sources == {from[d] : d \in Pending}

(* A move to itself is dropped at once.                                      *)
Start(moves) ==
  LET real == {d \in DOMAIN moves : moves[d] # d}
  IN [d \in real |-> moves[d]]

MoveInit ==
  \E moves \in UNION {[D -> Reg] : D \in SUBSET Reg} :
    /\ regs \in [Reg \cup {Scratch} -> Value]
    /\ from = Start(moves)
    /\ want = [r \in Reg |-> IF r \in DOMAIN moves THEN regs[moves[r]] ELSE regs[r]]

Ready(d) == d \notin Sources

(* The source of d is free to go once d is nobody's source.                  *)
Emit(d) ==
  /\ d \in Pending /\ Ready(d)
  /\ regs' = [regs EXCEPT ![d] = regs[from[d]]]
  /\ from' = [e \in Pending \ {d} |-> from[e]]
  /\ UNCHANGED want

(* Only cycles are left: save one source, and every move that reads it       *)
(* reads the copy.                                                           *)
Redirected_None(d) == from

Redirected(d) == [e \in Pending |-> IF from[e] = from[d] THEN Scratch ELSE from[e]]

Break(d) ==
  /\ d \in Pending /\ \A e \in Pending : ~Ready(e)
  /\ regs' = [regs EXCEPT ![Scratch] = regs[from[d]]]
  /\ from' = Redirected(d)
  /\ UNCHANGED want

MoveNext == \E d \in Reg : Emit(d) \/ Break(d)

MoveSpec == MoveInit /\ [][MoveNext]_moveVars

(* The loop runs until nothing is pending.                                   *)
FairMoves == MoveSpec /\ WF_moveVars(MoveNext)

-----------------------------------------------------------------------------

MoveTypes ==
  /\ regs \in [Reg \cup {Scratch} -> Value]
  /\ want \in [Reg -> Value]
  /\ Pending \subseteq Reg
  /\ from \in [Pending -> Reg \cup {Scratch}]

(* Every pending move still finds its value at its source, and every other   *)
(* register holds what it should.                                            *)
MoveInv ==
  /\ MoveTypes
  /\ \A d \in Pending : regs[from[d]] = want[d]
  /\ \A r \in Reg \ Pending : regs[r] = want[r]

(* When nothing is pending every parameter is in its register, and registers *)
(* that are no destination have kept their values.                           *)
MovesHappen == Pending = {} => \A r \in Reg : regs[r] = want[r]

(* The scratch register is not overwritten while a move still needs it.      *)
ScratchFree ==
  [][regs'[Scratch] # regs[Scratch] => Scratch \notin Sources]_moveVars

(* The loop of the four functions ends, whatever cycles the moves form, and  *)
(* leaves what simultaneous moves would have left.                           *)
MovesEnd == <>[](Pending = {} /\ \A r \in Reg : regs[r] = want[r])
=============================================================================
