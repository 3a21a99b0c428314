------------------------------ MODULE GocUptr ------------------------------
(***************************************************************************)
(* Stack addresses kept off the stack: the uptr encoding of goc.           *)
(*                                                                         *)
(* A C frame runs on a goroutine stack, which the Go runtime may copy to   *)
(* another place at any call.  The copy adjusts the words the stack maps   *)
(* mark; it cannot see words in the C heap or in globals.  An address      *)
(* stored there is therefore encoded relative to g.stack.hi by the inline  *)
(* helpers of SMUptrInline.cpp, and decoded against the hi of the moment.  *)
(*                                                                         *)
(* heap[h] is a pointer word outside every stack, frame[g][f] a marked     *)
(* pointer word in a frame of goroutine g.  heapRef and frameRef are       *)
(* history variables: what the program means each word to point to.        *)
(***************************************************************************)
EXTENDS Integers

CONSTANTS
  Msb,        \* 2^63 on the real machine: the tag bit GOC_UPTR_MSB
  G,          \* goroutines that run C code
  Holder,     \* pointer words in the C heap or in globals
  Local,      \* marked pointer words of a goroutine's frames
  Owner,      \* Owner[h]: the goroutine whose context holds h
  CAddr,      \* addresses of C-heap objects and globals; 0 is NULL
  Stacks,     \* the places [lo, hi) where the runtime may put a stack
  NoG         \* "not on a stack" in a reference

VARIABLES stack, heap, frame, heapRef, frameRef, trap

vars == <<stack, heap, frame, heapRef, frameRef, trap>>

Word == 0 .. 2 * Msb - 1

Disjoint(s, t) == s.hi <= t.lo \/ t.hi <= s.lo

(* User addresses have the top bit clear; no C object lies in stack memory. *)
ASSUME ConstantsAssumption ==
  /\ Msb \in Nat \ {0}
  /\ NoG \notin G
  /\ Owner \in [Holder -> G]
  /\ CAddr \subseteq 0 .. Msb - 1
  /\ 0 \in CAddr
  /\ \A s \in Stacks : /\ s.lo \in 1 .. Msb /\ s.hi \in 1 .. Msb
                       /\ s.lo < s.hi
                       /\ \A a \in CAddr : a < s.lo \/ a >= s.hi

(* A reference: an object pos bytes below the hi of goroutine own's stack,  *)
(* or, when own = NoG, the C address pos.                                   *)
Ref == [own : G \cup {NoG}, pos : Nat]

Address(r) == IF r.own = NoG THEN r.pos ELSE stack[r.own].hi - r.pos

-----------------------------------------------------------------------------
(* Machine arithmetic on words.                                             *)

Add(a, b) == IF a + b < 2 * Msb THEN a + b ELSE a + b - 2 * Msb

Sub(a, b) == IF a >= b THEN a - b ELSE a - b + 2 * Msb

MsbSet(w) == w >= Msb

OnStack_AboveLo(w, s) == s.lo # 0 /\ s.hi # 0 /\ w > s.lo /\ w < s.hi

OnStack(w, s) == s.lo # 0 /\ s.hi # 0 /\ w >= s.lo /\ w < s.hi

(* goc_uptr_decode *)
Decode_NoTag(w, hi) == Add(hi, w)

Decode(w, hi) == IF MsbSet(w) THEN Add(hi, w) ELSE w

(* goc_uptr_from_ptr; its "offset cleared MSB" branch is FromPtrTraps.      *)
FromPtr(w, s) == IF w # 0 /\ OnStack(w, s) THEN Sub(w, s.hi) ELSE w

FromPtrTraps(w, s) == w # 0 /\ OnStack(w, s) /\ ~MsbSet(FromPtr(w, s))

(* goc_uptr_require_cptr *)
RequireCptrTraps(w, s) == w # 0 /\ OnStack(w, s)

(* The explicit conversions: the word each gives, and when it traps.        *)
FromCptrTraps(w) == MsbSet(w)

AsCptrTraps(w) == MsbSet(w)

FromSptr(w, hi) == Sub(w, hi)

FromSptrTraps(w, hi) == ~MsbSet(FromSptr(w, hi))

AsSptr(w, hi) == Add(hi, w)

AsSptrTraps(w) == ~MsbSet(w)

-----------------------------------------------------------------------------

TypeOK ==
  /\ stack \in [G -> Stacks]
  /\ heap \in [Holder -> Word]
  /\ frame \in [G -> [Local -> Word]]
  /\ heapRef \in [Holder -> Ref]
  /\ frameRef \in [G -> [Local -> Ref]]
  /\ trap \in [op : {"none", "from_ptr", "require_cptr", "from_cptr",
                     "as_cptr", "from_sptr", "as_sptr"},
               by : G \cup {NoG}, ref : Ref]

Null == [own |-> NoG, pos |-> 0]

NoTrap == [op |-> "none", by |-> NoG, ref |-> Null]

Init ==
  /\ stack \in [G -> Stacks]
  /\ \A g1, g2 \in G : g1 # g2 => Disjoint(stack[g1], stack[g2])
  /\ heap = [h \in Holder |-> 0]
  /\ heapRef = [h \in Holder |-> Null]
  /\ frame = [g \in G |-> [f \in Local |-> 0]]
  /\ frameRef = [g \in G |-> [f \in Local |-> Null]]
  /\ trap = NoTrap

SetFrame(g, f, w, r) ==
  /\ frame' = [frame EXCEPT ![g][f] = w]
  /\ frameRef' = [frameRef EXCEPT ![g][f] = r]
  /\ UNCHANGED <<stack, heap, heapRef, trap>>

SetHeap(h, w, r) ==
  /\ heap' = [heap EXCEPT ![h] = w]
  /\ heapRef' = [heapRef EXCEPT ![h] = r]
  /\ UNCHANGED <<stack, frame, frameRef, trap>>

(* uptrFatal: one line on stderr and a trap that ends the process.          *)
Trap(op, g, r) ==
  /\ trap' = [op |-> op, by |-> g, ref |-> r]
  /\ UNCHANGED <<stack, heap, frame, heapRef, frameRef>>

(* The program takes the address of a local, or gets a C pointer.           *)
AddressOf(g, f) ==
  \E d \in 1 .. stack[g].hi - stack[g].lo :
    SetFrame(g, f, stack[g].hi - d, [own |-> g, pos |-> d])

CPointer(g, f) ==
  \E a \in CAddr : SetFrame(g, f, a, [own |-> NoG, pos |-> a])

(* A T* stored into, or loaded from, storage goc-color-escape made a uptr.  *)
StoreAuto(g, h, f) ==
  IF FromPtrTraps(frame[g][f], stack[g])
  THEN Trap("from_ptr", g, frameRef[g][f])
  ELSE SetHeap(h, FromPtr(frame[g][f], stack[g]), frameRef[g][f])

LoadAuto(g, h, f) ==
  SetFrame(g, f, Decode(heap[h], stack[g].hi), heapRef[h])

ReturnCptr(g, f) ==
  /\ RequireCptrTraps(frame[g][f], stack[g])
  /\ Trap("require_cptr", g, frameRef[g][f])

StoreCptr(g, h, f) ==
  IF FromCptrTraps(frame[g][f])
  THEN Trap("from_cptr", g, frameRef[g][f])
  ELSE SetHeap(h, frame[g][f], frameRef[g][f])

LoadCptr(g, h, f) ==
  IF AsCptrTraps(heap[h])
  THEN Trap("as_cptr", g, heapRef[h])
  ELSE SetFrame(g, f, heap[h], heapRef[h])

StoreSptr(g, h, f) ==
  IF FromSptrTraps(frame[g][f], stack[g].hi)
  THEN Trap("from_sptr", g, frameRef[g][f])
  ELSE SetHeap(h, FromSptr(frame[g][f], stack[g].hi), frameRef[g][f])

LoadSptr(g, h, f) ==
  IF AsSptrTraps(heap[h])
  THEN Trap("as_sptr", g, heapRef[h])
  ELSE SetFrame(g, f, AsSptr(heap[h], stack[g].hi), heapRef[h])

(* The Go runtime's copystack: a new place, clear of the other stacks and    *)
(* deep enough for what is in use; marked words inside the old stack move    *)
(* with it, words outside stay as they are.                                  *)
Used(g, r) == IF r.own = g THEN r.pos ELSE 0

CopyStack(g) ==
  \E s \in Stacks :
    LET old   == stack[g]
        Adjust(w) == IF w >= old.lo /\ w < old.hi
                     THEN w + (s.hi - old.hi) ELSE w
    IN /\ \A k \in G \ {g} : Disjoint(s, stack[k])
       /\ \A k \in G, f \in Local : Used(g, frameRef[k][f]) <= s.hi - s.lo
       /\ \A h \in Holder : Used(g, heapRef[h]) <= s.hi - s.lo
       /\ stack' = [stack EXCEPT ![g] = s]
       /\ frame' = [frame EXCEPT ![g] = [f \in Local |-> Adjust(@[f])]]
       /\ UNCHANGED <<heap, heapRef, frameRef, trap>>

-----------------------------------------------------------------------------
(* The contract of the language (docs/language.md 3.2, 3.3 and 8.3), which   *)
(* the C program keeps: a holder is used on its owner's goroutine, a value   *)
(* given to the cptr conversion is a cptr and one given to the sptr          *)
(* conversion an address on this stack.  NULL, a legal sptr, is kept out of  *)
(* the latter: it is encoded like an address (see the README).               *)

Owns(g, h) == Owner[h] = g

IsSptr(g, f) == frameRef[g][f].own = g

Running == trap.op = "none"

Use(g, h, f) ==
  \/ StoreAuto(g, h, f)
  \/ LoadAuto(g, h, f)
  \/ StoreCptr(g, h, f) /\ ~IsSptr(g, f)
  \/ LoadCptr(g, h, f)
  \/ StoreSptr(g, h, f) /\ IsSptr(g, f)
  \/ LoadSptr(g, h, f)

Next ==
  /\ Running
  /\ \/ \E g \in G, f \in Local : AddressOf(g, f)
     \/ \E g \in G, f \in Local : CPointer(g, f)
     \/ \E g \in G, f \in Local : ReturnCptr(g, f)
     \/ \E g \in G, h \in Holder, f \in Local : Owns(g, h) /\ Use(g, h, f)
     \/ \E g \in G : CopyStack(g)

Spec == Init /\ [][Next]_vars

(* The same program, with a holder used on a goroutine that does not own it. *)
CrossNext ==
  \/ Next
  \/ /\ Running
     /\ \E g \in G, h \in Holder, f \in Local : LoadSptr(g, h, f)

CrossSpec == Init /\ [][CrossNext]_vars

-----------------------------------------------------------------------------

(* Every word in the heap decodes, on its owner's goroutine, to the address  *)
(* its object has now, however often the stack was copied since it was       *)
(* stored (docs/design/runtime.md 4.5: hi' + enc == abs').                   *)
HeapWordsDenote ==
  \A h \in Holder :
    Decode(heap[h], stack[Owner[h]].hi) = Address(heapRef[h])

(* What the decoding helpers put in a marked local is the object's address,  *)
(* and stays so through the copies that adjust it in place.                  *)
FramesDenote ==
  \A g \in G, f \in Local : frame[g][f] = Address(frameRef[g][f])

(* A helper traps only for the mismatch its message names: as_cptr on a      *)
(* stack object, as_sptr on one that is not, require_cptr on the running     *)
(* stack.  The conversions the compiler inserts by itself and the from_      *)
(* conversions of a program that keeps the contract never trap.              *)
TrapsAreTagErrors ==
  \/ trap.op = "none"
  \/ trap.op = "as_cptr" /\ trap.ref.own = trap.by
  \/ trap.op = "as_sptr" /\ trap.ref.own = NoG
  \/ trap.op = "require_cptr" /\ trap.ref.own = trap.by

(* A local loaded through goc_uptr_as_cptr never points into the stack: the  *)
(* value the program goes on to treat as immovable is a C address.           *)
AsCptrGivesCAddress ==
  [][\A g \in G, h \in Holder, f \in Local :
       LoadCptr(g, h, f) /\ frame' # frame => frame'[g][f] \in CAddr]_vars

(* include/goc_uptr.h line 8: "wrong tag / cross-g -> FATAL".  An as_sptr    *)
(* of a word that another goroutine encoded ends in a trap.                  *)
CrossGoroutineTraps ==
  [][\A g \in G, h \in Holder, f \in Local :
       LoadSptr(g, h, f) /\ heapRef[h].own \notin {g, NoG} => trap' # trap]_vars

-----------------------------------------------------------------------------
(* What the proofs need besides: a word's tag tells what it refers to, and   *)
(* every reference stays inside its owner's stack.                           *)
RefOK(g, r) ==
  \/ r.own = NoG /\ r.pos \in CAddr
  \/ r.own = g /\ r.pos \in 1 .. stack[g].hi - stack[g].lo

(* The inductive invariant behind HeapWordsDenote and FramesDenote: beyond   *)
(* them, the tag bit of a heap word says whether it was stored from a stack  *)
(* address, and references never leave the goroutine that made them.         *)
UptrInv ==
  /\ TypeOK
  /\ \A h \in Holder : RefOK(Owner[h], heapRef[h])
  /\ \A h \in Holder : MsbSet(heap[h]) <=> heapRef[h].own # NoG
  /\ \A g \in G, f \in Local : RefOK(g, frameRef[g][f])
  /\ HeapWordsDenote
  /\ FramesDenote
  /\ TrapsAreTagErrors
=============================================================================
