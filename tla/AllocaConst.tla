---------------------------- MODULE AllocaConst ----------------------------
(* The constants of the alloca pool and what is assumed of them.             *)
EXTENDS Integers

CONSTANTS PoolBytes,  \* 16 MiB: DynPoolBytes
          PoolBase,   \* the address of goc.alloca.pool
          WordSize,   \* 2^64
          Request, MaxDepth

(* The pool is 16-byte aligned, in memory and far from the end of it.        *)
ASSUME PoolAssumption ==
  /\ PoolBytes \in Nat /\ PoolBytes % 16 = 0
  /\ PoolBase \in Nat \ {0} /\ PoolBase % 16 = 0
  /\ WordSize \in Nat /\ WordSize % 16 = 0 /\ WordSize >= 16
  /\ PoolBase + PoolBytes < WordSize
  /\ Request \subseteq 0 .. WordSize - 1
  /\ MaxDepth \in Nat
=============================================================================
