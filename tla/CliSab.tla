------------------------------ MODULE CliSab ------------------------------
(***************************************************************************)
(* SharedArrayBuffers that travel between the runtimes of CliWorker        *)
(* (goc_qjs_cli_sab_alloc, _dup, _free, and the messages that carry them). *)
(* A buffer's header counts its references and names the runtime whose     *)
(* allocator it came from; the runtime that drops the last reference gives *)
(* it back to that allocator.                                              *)
(***************************************************************************)
EXTENDS Integers, Sequences, FiniteSets, SequencesExt, FiniteSetsExt

CONSTANTS Worker, Main, Buffer,
          MaxQueue,        \* bound on the messages of one queue
          MaxRefs          \* bound on the references to one buffer

VARIABLES alive,           \* runtimes not freed yet
          owner, refs,     \* of each header; owner is "none" before alloc
          freed,           \* buffers given back, each with: was its owner alive
          held,            \* how many JavaScript objects of a runtime use a buffer
          queue            \* messages to and from a worker: sets of buffers

vars == <<alive, owner, refs, freed, held, queue>>

Runtime == Worker \cup {Main}
Way == {"in", "out"}

Init ==
  /\ alive = Runtime
  /\ owner = [b \in Buffer |-> "none"]
  /\ refs = [b \in Buffer |-> 0]
  /\ freed = {}
  /\ held = [r \in Runtime |-> [b \in Buffer |-> 0]]
  /\ queue = [w \in Worker |-> [d \in Way |-> <<>>]]

(* n[b] references to b are dropped.                                         *)
Drop(n) ==
  /\ refs' = [b \in Buffer |-> refs[b] - n[b]]
  /\ freed' = freed \cup {[buffer |-> b, ownerAlive |-> owner[b] \in alive] :
                            b \in {c \in Buffer : n[c] > 0 /\ refs'[c] = 0}}

Times(S, b) == IF b \in S THEN 1 ELSE 0

Carried(q, b) == Cardinality({i \in DOMAIN q : b \in q[i]})

Alloc(r, b) ==
  /\ r \in alive /\ owner[b] = "none"
  /\ owner' = [owner EXCEPT ![b] = r]
  /\ refs' = [refs EXCEPT ![b] = 1]
  /\ held' = [held EXCEPT ![r][b] = 1]
  /\ UNCHANGED <<alive, freed, queue>>

(* JS_WriteObject2 and the sab_dup of every buffer in the message.           *)
Post(w, d, S) ==
  /\ w \in alive
  /\ \A b \in S : held[IF d = "in" THEN Main ELSE w][b] > 0 /\ refs[b] < MaxRefs
  /\ Len(queue[w][d]) < MaxQueue
  /\ queue' = [queue EXCEPT ![w][d] = Append(@, S)]
  /\ refs' = [b \in Buffer |-> refs[b] + Times(S, b)]
  /\ UNCHANGED <<alive, owner, freed, held>>

(* read_message: the new objects take their references (JS_ReadObject2)      *)
(* before the message gives up its own.                                      *)
Deliver(w, d) ==
  LET r == IF d = "in" THEN w ELSE Main
      S == Head(queue[w][d])
  IN /\ w \in alive /\ queue[w][d] # <<>>
     /\ queue' = [queue EXCEPT ![w][d] = Tail(@)]
     /\ held' = [held EXCEPT ![r] = [b \in Buffer |-> @[b] + Times(S, b)]]
     /\ UNCHANGED <<alive, owner, refs, freed>>

(* An object of b in r is collected.                                         *)
Collect(r, b) ==
  /\ r \in alive /\ held[r][b] > 0
  /\ held' = [held EXCEPT ![r][b] = @ - 1]
  /\ Drop([c \in Buffer |-> Times({b}, c)])
  /\ UNCHANGED <<alive, owner, queue>>

(* stop_worker: both queues, then the objects of the runtime, then it.       *)
Stop_NotOutgoing(w) ==
  /\ w \in alive
  /\ Drop([b \in Buffer |-> held[w][b] + Carried(queue[w]["in"], b)])
  /\ held' = [held EXCEPT ![w] = [b \in Buffer |-> 0]]
  /\ queue' = [queue EXCEPT ![w] = [d \in Way |-> <<>>]]
  /\ alive' = alive \ {w}
  /\ UNCHANGED owner

Stop(w) ==
  /\ w \in alive
  /\ Drop([b \in Buffer |-> held[w][b] + Carried(queue[w]["in"], b)
                              + Carried(queue[w]["out"], b)])
  /\ held' = [held EXCEPT ![w] = [b \in Buffer |-> 0]]
  /\ queue' = [queue EXCEPT ![w] = [d \in Way |-> <<>>]]
  /\ alive' = alive \ {w}
  /\ UNCHANGED owner

Next ==
  \/ \E r \in Runtime, b \in Buffer : Alloc(r, b) \/ Collect(r, b)
  \/ \E w \in Worker, d \in Way : Deliver(w, d) \/ \E S \in SUBSET Buffer : Post(w, d, S)
  \/ \E w \in Worker : Stop(w)

Spec == Init /\ [][Next]_vars

-----------------------------------------------------------------------------

Holders(b) ==
  MapThenSumSet(LAMBDA r : held[r][b], Runtime)
    + MapThenSumSet(LAMBDA w : Carried(queue[w]["in"], b) + Carried(queue[w]["out"], b), Worker)

(* A header's count is the number of objects and queued messages that use    *)
(* the buffer: none is freed while in use, and none in use by nobody stays,  *)
(* whichever of the runtimes and queues let go of it last.                   *)
SabCounted ==
  \A b \in Buffer :
    /\ refs[b] = Holders(b)
    /\ owner[b] # "none" => (refs[b] = 0 <=> \E f \in freed : f.buffer = b)

(* A buffer goes back to the allocator of a runtime that still exists: the   *)
(* synchronous schedule of goc_qjs_cli keeps all C state safe.               *)
OwnerFrees == \A f \in freed : f.ownerAlive
=============================================================================
