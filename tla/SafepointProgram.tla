-------------------------- MODULE SafepointProgram --------------------------
(***************************************************************************)
(* The functions SafepointReload is about: control-flow graphs whose       *)
(* blocks are sequences of operations, with one stack address V.           *)
(***************************************************************************)
EXTENDS Naturals, Sequences

CONSTANTS Block, Entry

ASSUME EntryAssumption == Entry \in Block

(* A program: succ, the graph; code, each block's operations; phi, the       *)
(* blocks at whose end V is used by a PHI of a successor; def, where V is    *)
(* defined; dom[b], the blocks b strictly dominates; how, the pass that      *)
(* treats V.  An argument is defined before the first operation of Entry.    *)
Op == {"def", "defcall", "use", "call", "callarg", "soft", "softarg", "note"}

(* V defined; V returned by a call; V used; a call, without and with V as    *)
(* an argument; an intrinsic that goc-llc expands in place; va_start and the *)
(* like, a safepoint to goc-stackmap's records only.                         *)
Defs == {"def", "defcall"}
Uses == {"use", "callarg", "softarg"}
RealCall == {"defcall", "call", "callarg"}

isSafepoint(op) == op \in RealCall \cup {"soft", "softarg"}

IsSite(op, how) == isSafepoint(op) \/ (how = "stackmap" /\ op = "note")

Program ==
  [succ : [Block -> SUBSET Block], code : [Block -> Seq(Op)], phi : SUBSET Block,
   def : [block : Block, at : Nat], dom : [Block -> SUBSET Block],
   how : {"stackmap", "reanchor", "remat"}]

(* The blocks that b strictly dominates: every path from the entry to them   *)
(* leads through b.  S is any set of blocks the other paths do not leave.  A *)
(* block that no path leads to is dominated by all others, as in LLVM.       *)
Dominated(p, b) ==
  {c \in Block \ {b} : \E S \in SUBSET Block :
     Entry \in S /\ c \notin S /\ \A x \in S \ {b} : p.succ[x] \subseteq S}

(* LLVM's verifier: nothing branches to the entry block, V is defined once,  *)
(* and its definition dominates its uses.  goc-stackmap leaves arguments to  *)
(* goc-reanchor; a call result is no frame address.                          *)
WellFormed(p) ==
  LET used(b, i) == \/ i \in DOMAIN p.code[b] /\ p.code[b][i] \in Uses
                    \/ i = Len(p.code[b]) + 1 /\ b \in p.phi
  IN /\ \A b \in Block : Entry \notin p.succ[b] /\ p.dom[b] = Dominated(p, b)
     /\ p.def.at = 0 => p.def.block = Entry /\ p.how # "stackmap"
     /\ p.how = "remat" => \A b \in Block : \A i \in DOMAIN p.code[b] : p.code[b][i] # "defcall"
     /\ p.def.at <= Len(p.code[p.def.block])
     /\ \A b \in Block : \A i \in DOMAIN p.code[b] :
          p.code[b][i] \in Defs <=> b = p.def.block /\ i = p.def.at
     /\ \A b \in Block : \A i \in 1 .. Len(p.code[b]) + 1 :
          used(b, i) => IF b = p.def.block THEN p.def.at < i ELSE b \in p.dom[p.def.block]
=============================================================================
