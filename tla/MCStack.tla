------------------------------ MODULE MCStack ------------------------------
(***************************************************************************)
(* Stack growth from two sides: StackCheck follows the sizes through any   *)
(* nesting of calls, StubArgs the argument registers through one pass of   *)
(* the cold block.                                                         *)
(***************************************************************************)
EXTENDS StackCheck, FiniteSetsExt

CONSTANTS Types, MaxArgs, FrameWords

VARIABLES side, arch, sig, frame, reg, mem, spc

stubVars == <<arch, sig, frame, reg, mem, spc>>

Stub == INSTANCE StubArgs

(* The side that is not followed stays in one of its initial states.         *)
MCInit ==
  \/ /\ side = "sizes" /\ Init
     /\ arch = "amd64" /\ sig = <<>> /\ frame = Min(FrameWords) /\ Stub!Init
  \/ /\ side = "arguments" /\ Stub!Init
     /\ hi = Min(StackTops) /\ size = Min(StackSizes) /\ used = Min(GoUsed) /\ Init

MCNext ==
  /\ UNCHANGED side
  /\ \/ side = "sizes" /\ Next /\ UNCHANGED stubVars
     \/ side = "arguments" /\ Stub!Next /\ UNCHANGED vars

MCSpec == MCInit /\ [][MCNext]_<<side, vars, stubVars>>

(* goc-llc's cold block and the pointer map of its call move every pointer   *)
(* argument with the stack, and nothing else.                                *)
ArgsMove == Stub!ArgsMove
=============================================================================
