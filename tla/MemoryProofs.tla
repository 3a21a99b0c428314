---------------------------- MODULE MemoryProofs ----------------------------
(***************************************************************************)
(* Values and memory under C code.  The uptr encoding is right for every   *)
(* word width, every set of stack places and any number of goroutines,     *)
(* holders and locals.  The alloca pool keeps its promises for every pool  *)
(* size, call depth and request, and implements AllocaScope.  The move     *)
(* sequences of the Go ABI thunks are right for every register file and    *)
(* every set of moves, with one scratch register.                          *)
(***************************************************************************)
EXTENDS GocUptr, AllocaPool, ParallelMove, FiniteSetTheorems, TLAPS

(* The leaves are first-order reasoning for Zenon, where they do not name    *)
(* another prover.                                                           *)
USE Zenon

-----------------------------------------------------------------------------
(* The encoding of user pointers.                                          *)

(* Encoding an address on the running stack gives a tagged word that decodes *)
(* back (goc_uptr_from_sptr, and goc_uptr_from_ptr inside [lo, hi)).         *)
LEMMA EncodeStack ==
  ASSUME NEW s \in Stacks, NEW d \in 1 .. s.hi - s.lo
  PROVE  LET w == s.hi - d IN
         /\ w \in Word /\ w # 0 /\ OnStack(w, s)
         /\ Sub(w, s.hi) = 2 * Msb - d
         /\ Sub(w, s.hi) \in Word
         /\ MsbSet(Sub(w, s.hi))
  BY SMT, ConstantsAssumption DEF Word, OnStack, Sub, MsbSet

(* A tagged word d below zero decodes, against any stack deep enough, to     *)
(* the address d below that stack's hi.                                      *)
LEMMA DecodeStack ==
  ASSUME NEW s \in Stacks, NEW d \in 1 .. s.hi - s.lo
  PROVE  /\ Decode(2 * Msb - d, s.hi) = s.hi - d
         /\ AsSptr(2 * Msb - d, s.hi) = s.hi - d
         /\ MsbSet(2 * Msb - d)
         /\ s.hi - d \in Word
  BY SMT, ConstantsAssumption DEF Word, Add, Decode, AsSptr, MsbSet

(* A C address passes through the conversions unchanged and untagged.        *)
LEMMA CAddressPasses ==
  ASSUME NEW s \in Stacks, NEW a \in CAddr
  PROVE  /\ a \in Word /\ a \in Nat
         /\ ~OnStack(a, s) /\ ~(a >= s.lo /\ a < s.hi)
         /\ ~MsbSet(a)
         /\ FromPtr(a, s) = a
         /\ Decode(a, s.hi) = a
  BY SMT, ConstantsAssumption DEF Word, OnStack, FromPtr, Decode, MsbSet

(* A heap word and the reference it was stored with determine each other,    *)
(* whatever place the owner's stack has.                                     *)
LEMMA HeapWordForm ==
  ASSUME UptrInv, NEW h \in Holder
  PROVE  /\ heapRef[h].own = NoG => heap[h] = heapRef[h].pos /\ heap[h] \in CAddr
         /\ heapRef[h].own # NoG => /\ heapRef[h].own = Owner[h]
                                    /\ heap[h] = 2 * Msb - heapRef[h].pos
  <1> DEFINE g == Owner[h]
             s == stack[g]
             r == heapRef[h]
  <1>1. g \in G /\ s \in Stacks /\ heap[h] \in Word /\ r \in Ref
    BY ConstantsAssumption DEF UptrInv, TypeOK
  <1>2. RefOK(g, r) /\ (MsbSet(heap[h]) <=> r.own # NoG)
        /\ Decode(heap[h], s.hi) = Address(r)
    BY DEF UptrInv, HeapWordsDenote
  <1>3. s.lo \in Nat /\ s.hi \in Nat /\ s.hi <= Msb /\ Msb \in Nat \ {0}
    BY SMT, <1>1, ConstantsAssumption
  <1>4. CASE r.own = NoG
    BY <1>1, <1>2, <1>4, ConstantsAssumption DEF RefOK, Decode, Address
  <1>5. CASE r.own # NoG
    <2>1. r.own = g /\ r.pos \in 1 .. s.hi - s.lo
      BY <1>2, <1>5 DEF RefOK
    <2>2. Add(s.hi, heap[h]) = s.hi - r.pos
      BY <1>2, <1>5, <2>1 DEF Decode, Address
    <2>3. heap[h] = 2 * Msb - r.pos
      BY SMT, <1>1, <1>2, <1>3, <1>5, <2>1, <2>2, ConstantsAssumption
      DEF Add, MsbSet, Word
    <2> QED BY <1>5, <2>1, <2>3
  <1> QED BY <1>4, <1>5

(* Goroutines start with null words only, which satisfy the invariant.       *)
THEOREM UptrInitially == Init => UptrInv
  <1> SUFFICES ASSUME Init PROVE UptrInv
    OBVIOUS
  <1>1. 0 \in Word /\ 0 \in CAddr /\ ~MsbSet(0) /\ Null \in Ref
    BY SMT, ConstantsAssumption DEF Word, MsbSet, Null, Ref
  <1>2. TypeOK
    BY <1>1 DEF Init, TypeOK, NoTrap
  <1>3. \A g \in G : RefOK(g, Null)
    BY <1>1 DEF RefOK, Null
  <1>4. \A s \in Stacks : Decode(0, s.hi) = 0
    BY <1>1 DEF Decode
  <1>5. Address(Null) = 0
    BY DEF Address, Null
  <1> QED
    BY <1>1, <1>2, <1>3, <1>4, <1>5, ConstantsAssumption
    DEF Init, UptrInv, HeapWordsDenote, FramesDenote, TrapsAreTagErrors,
        NoTrap, Null

(* A local may be given a word and a reference that agree.                   *)
LEMMA SetFrameKeeps ==
  ASSUME UptrInv, NEW g \in G, NEW f \in Local, NEW w \in Word, NEW r \in Ref,
         RefOK(g, r), w = Address(r), SetFrame(g, f, w, r)
  PROVE  UptrInv'
  <1>1. TypeOK'
    BY DEF UptrInv, TypeOK, SetFrame
  <1>2. \A k \in G, l \in Local : RefOK(k, frameRef[k][l])'
    BY SMT DEF UptrInv, TypeOK, SetFrame, RefOK
  <1>3. FramesDenote'
    BY DEF UptrInv, TypeOK, SetFrame, FramesDenote, Address
  <1> QED
    BY <1>1, <1>2, <1>3
    DEF UptrInv, SetFrame, RefOK, HeapWordsDenote, Address, TrapsAreTagErrors

(* A holder may be given a word that has the form its reference asks for.    *)
LEMMA SetHeapKeeps ==
  ASSUME UptrInv, NEW h \in Holder, NEW w \in Word, NEW r \in Ref,
         RefOK(Owner[h], r),
         MsbSet(w) <=> r.own # NoG,
         Decode(w, stack[Owner[h]].hi) = Address(r),
         SetHeap(h, w, r)
  PROVE  UptrInv'
  <1>1. TypeOK'
    BY DEF UptrInv, TypeOK, SetHeap
  <1>2. \A k \in Holder : /\ RefOK(Owner[k], heapRef[k])'
                          /\ (MsbSet(heap[k]) <=> heapRef[k].own # NoG)'
    BY DEF UptrInv, TypeOK, SetHeap, RefOK
  <1>3. HeapWordsDenote'
    BY DEF UptrInv, TypeOK, SetHeap, HeapWordsDenote, Address
  <1> QED
    BY SMT, <1>1, <1>2, <1>3
    DEF UptrInv, SetHeap, RefOK, FramesDenote, Address, TrapsAreTagErrors

(* A trap ends the run and changes no word.                                  *)
LEMMA TrapKeeps ==
  ASSUME UptrInv, NEW g \in G, NEW r \in Ref,
         NEW op \in {"as_cptr", "as_sptr", "require_cptr"},
         op \in {"as_cptr", "require_cptr"} => r.own = g,
         op = "as_sptr" => r.own = NoG,
         Trap(op, g, r)
  PROVE  UptrInv'
  BY SMT DEF UptrInv, TypeOK, Trap, RefOK, HeapWordsDenote, FramesDenote, Address,
         TrapsAreTagErrors

(* What a local's reference and its word look like, for the steps below.     *)
LEMMA FrameWordForm ==
  ASSUME UptrInv, NEW g \in G, NEW f \in Local
  PROVE  /\ stack[g] \in Stacks /\ frame[g][f] \in Word /\ frameRef[g][f] \in Ref
         /\ RefOK(g, frameRef[g][f])
         /\ frame[g][f] = Address(frameRef[g][f])
  BY DEF UptrInv, TypeOK, FramesDenote

(* The stores: each of the three encodings gives a word of the right form.   *)
LEMMA StoreKeeps ==
  ASSUME UptrInv, NEW g \in G, NEW h \in Holder, NEW f \in Local, Owns(g, h),
         \/ StoreAuto(g, h, f)
         \/ StoreCptr(g, h, f) /\ ~IsSptr(g, f)
         \/ StoreSptr(g, h, f) /\ IsSptr(g, f)
  PROVE  UptrInv'
  <1> DEFINE s == stack[g]
             w == frame[g][f]
             r == frameRef[g][f]
  <1>1. /\ s \in Stacks /\ w \in Word /\ r \in Ref /\ RefOK(g, r) /\ w = Address(r)
        /\ Owner[h] = g
    BY FrameWordForm DEF Owns
  <1>2. CASE r.own = NoG
    <2>1. w = r.pos /\ w \in CAddr
      BY <1>1, <1>2, ConstantsAssumption DEF RefOK, Address
    <2>2. ~FromPtrTraps(w, s) /\ FromPtr(w, s) = w /\ ~MsbSet(w)
          /\ Decode(w, s.hi) = w
      BY <1>1, <2>1, CAddressPasses DEF FromPtrTraps
    <2>3. SetHeap(h, w, r)
      BY <1>2, <2>2, ConstantsAssumption
      DEF StoreAuto, StoreCptr, FromCptrTraps, IsSptr
    <2> QED
      BY <1>1, <1>2, <2>2, <2>3, SetHeapKeeps
  <1>3. CASE r.own # NoG
    <2>1. r.own = g /\ r.pos \in 1 .. s.hi - s.lo /\ w = s.hi - r.pos
      BY <1>1, <1>3 DEF RefOK, Address
    <2> DEFINE e == 2 * Msb - r.pos
    <2>2. w # 0 /\ OnStack(w, s) /\ Sub(w, s.hi) = e /\ e \in Word /\ MsbSet(e)
      BY SMT, <1>1, <2>1, EncodeStack
    <2>3. Decode(e, s.hi) = w
      BY <1>1, <2>1, DecodeStack
    <2>4. SetHeap(h, e, r)
      BY <2>1, <2>2
      DEF StoreAuto, StoreSptr, FromPtrTraps, FromPtr, FromSptrTraps, FromSptr,
          IsSptr
    <2> QED
      BY <1>1, <1>3, <2>2, <2>3, <2>4, SetHeapKeeps
  <1> QED BY <1>2, <1>3

(* The loads: each gives the object's address, or traps on the wrong tag.    *)
LEMMA LoadKeeps ==
  ASSUME UptrInv, NEW g \in G, NEW h \in Holder, NEW f \in Local, Owns(g, h),
         LoadAuto(g, h, f) \/ LoadCptr(g, h, f) \/ LoadSptr(g, h, f)
  PROVE  UptrInv'
  <1> DEFINE s == stack[g]
             w == heap[h]
             r == heapRef[h]
  <1>1. /\ s \in Stacks /\ w \in Word /\ r \in Ref /\ RefOK(g, r)
        /\ Decode(w, s.hi) = Address(r) /\ (MsbSet(w) <=> r.own # NoG)
    BY DEF UptrInv, TypeOK, Owns, HeapWordsDenote
  <1>2. CASE r.own = NoG
    <2>1. w = r.pos /\ w \in CAddr /\ Address(r) = w /\ ~MsbSet(w)
      BY <1>1, <1>2, HeapWordForm DEF Address
    <2>2. SetFrame(g, f, w, r) \/ Trap("as_sptr", g, r)
      BY <2>1 DEF LoadAuto, LoadCptr, LoadSptr, AsCptrTraps, AsSptrTraps, Decode
    <2> QED
      BY <1>1, <1>2, <2>1, <2>2, SetFrameKeeps, TrapKeeps
  <1>3. CASE r.own # NoG
    <2>1. r.own = g /\ r.pos \in 1 .. s.hi - s.lo /\ w = 2 * Msb - r.pos
      BY <1>1, <1>3, HeapWordForm DEF RefOK
    <2>2. /\ Decode(w, s.hi) = s.hi - r.pos /\ AsSptr(w, s.hi) = s.hi - r.pos
          /\ MsbSet(w) /\ s.hi - r.pos \in Word
      BY <1>1, <2>1, DecodeStack
    <2>3. SetFrame(g, f, s.hi - r.pos, r) \/ Trap("as_cptr", g, r)
      BY <2>2 DEF LoadAuto, LoadCptr, LoadSptr, AsCptrTraps, AsSptrTraps
    <2>4. Address(r) = s.hi - r.pos
      BY <1>3, <2>1 DEF Address
    <2> QED
      BY <1>1, <2>1, <2>2, <2>3, <2>4, SetFrameKeeps, TrapKeeps
  <1> QED BY <1>2, <1>3

(* A copy of g's stack: the words it adjusts and the words it cannot see     *)
(* both go on denoting their objects.                                        *)
LEMMA CopyStackKeeps ==
  ASSUME UptrInv, NEW g \in G, CopyStack(g)
  PROVE  UptrInv'
  <1> DEFINE old == stack[g]
             Adjust(s, w) == IF w >= old.lo /\ w < old.hi
                             THEN w + (s.hi - old.hi) ELSE w
  <1>1. PICK s \in Stacks :
          /\ \A k \in G, f \in Local : Used(g, frameRef[k][f]) <= s.hi - s.lo
          /\ \A h \in Holder : Used(g, heapRef[h]) <= s.hi - s.lo
          /\ stack' = [stack EXCEPT ![g] = s]
          /\ frame' = [frame EXCEPT ![g] = [f \in Local |-> Adjust(s, frame[g][f])]]
          /\ UNCHANGED <<heap, heapRef, frameRef, trap>>
    BY DEF CopyStack, UptrInv, TypeOK
  <1>2. /\ stack'[g] = s /\ \A k \in G \ {g} : stack'[k] = stack[k]
        /\ \A k \in G : stack'[k] \in Stacks
    BY <1>1 DEF UptrInv, TypeOK
  <1>3. ASSUME NEW k \in G, NEW r \in Ref, RefOK(k, r), Used(g, r) <= s.hi - s.lo
        PROVE  RefOK(k, r)'
    <2>1. CASE k = g /\ r.own = g
      BY SMT, <1>2, <1>3, <2>1, ConstantsAssumption DEF RefOK, Used, Ref
    <2>2. CASE ~(k = g /\ r.own = g)
      BY <1>2, <1>3, <2>2 DEF RefOK
    <2> QED BY <2>1, <2>2
  <1>4. ASSUME NEW f \in Local
        PROVE  /\ frame'[g][f] \in Word
               /\ frame'[g][f] = Address(frameRef[g][f])'
    <2> DEFINE r == frameRef[g][f]
               w == frame[g][f]
    <2>1. /\ old \in Stacks /\ w \in Word /\ r \in Ref /\ RefOK(g, r) /\ w = Address(r)
          /\ frame'[g][f] = Adjust(s, w) /\ frameRef' = frameRef
          /\ Used(g, r) <= s.hi - s.lo
      BY <1>1, FrameWordForm DEF UptrInv, TypeOK
    <2>2. CASE r.own = NoG
      <3>1. w = r.pos /\ w \in CAddr
        BY <2>1, <2>2, ConstantsAssumption DEF RefOK, Address
      <3>2. ~(w >= old.lo /\ w < old.hi)
        BY <2>1, <3>1, CAddressPasses
      <3>3. Adjust(s, w) = w
        BY <3>2
      <3> QED BY <2>1, <2>2, <3>1, <3>3 DEF Address
    <2>3. CASE r.own # NoG
      <3>1. r.own = g /\ r.pos \in 1 .. old.hi - old.lo /\ w = old.hi - r.pos
        BY <2>1, <2>3 DEF RefOK, Address
      <3>2. r.pos \in 1 .. s.hi - s.lo
        BY SMT, <2>1, <3>1, ConstantsAssumption DEF Used
      <3>3. Adjust(s, w) = s.hi - r.pos
        BY SMT, <2>1, <3>1, ConstantsAssumption
      <3>4. s.hi - r.pos \in Word
        BY <3>2, DecodeStack
      <3> QED BY <1>2, <2>1, <2>3, <3>1, <3>3, <3>4 DEF Address
    <2> QED BY <2>2, <2>3
  <1>5. ASSUME NEW k \in G \ {g}, NEW f \in Local
        PROVE  /\ frame'[k][f] \in Word
               /\ frame'[k][f] = Address(frameRef[k][f])'
    <2>1. frame'[k][f] = frame[k][f] /\ frameRef' = frameRef /\ stack'[k] = stack[k]
      BY <1>1, <1>2 DEF UptrInv, TypeOK
    <2>2. frame[k][f] \in Word /\ RefOK(k, frameRef[k][f])
          /\ frame[k][f] = Address(frameRef[k][f])
      BY FrameWordForm
    <2> QED BY <2>1, <2>2 DEF RefOK, Address
  <1>6. TypeOK'
    <2>1. stack' \in [G -> Stacks]
      BY <1>1 DEF UptrInv, TypeOK
    <2>2. frame' \in [G -> [Local -> Word]]
      <3>1. frame' = [k \in G |-> IF k = g THEN [f \in Local |-> Adjust(s, frame[g][f])]
                                  ELSE frame[k]]
        BY <1>1 DEF UptrInv, TypeOK
      <3>2. \A f \in Local : Adjust(s, frame[g][f]) \in Word
        BY <1>4, <3>1
      <3> QED BY <3>1, <3>2 DEF UptrInv, TypeOK
    <2> QED BY <1>1, <2>1, <2>2 DEF UptrInv, TypeOK
  <1>7. \A h \in Holder : RefOK(Owner[h], heapRef[h])'
    BY <1>1, <1>3, ConstantsAssumption DEF UptrInv, TypeOK
  <1>8. \A k \in G, f \in Local : RefOK(k, frameRef[k][f])'
    BY <1>1, <1>3 DEF UptrInv, TypeOK
  <1>9. HeapWordsDenote'
    <2> SUFFICES ASSUME NEW h \in Holder
                 PROVE  Decode(heap[h], stack'[Owner[h]].hi) = Address(heapRef[h])'
      BY <1>1 DEF HeapWordsDenote
    <2> DEFINE k == Owner[h]
               r == heapRef[h]
    <2>1. k \in G /\ stack'[k] \in Stacks /\ RefOK(k, r)' /\ heapRef' = heapRef
      BY <1>1, <1>2, <1>7, ConstantsAssumption
    <2>2. CASE r.own = NoG
      <3>1. heap[h] = r.pos /\ heap[h] \in CAddr
        BY <2>2, HeapWordForm
      <3> QED BY <2>1, <2>2, <3>1, CAddressPasses DEF Address
    <2>3. CASE r.own # NoG
      <3>1. r.own = k /\ heap[h] = 2 * Msb - r.pos
        BY <2>3, HeapWordForm
      <3>2. r.pos \in 1 .. stack'[k].hi - stack'[k].lo
        BY <2>1, <2>3 DEF RefOK
      <3> QED BY <2>1, <2>3, <3>1, <3>2, DecodeStack DEF Address
    <2> QED BY <2>2, <2>3
  <1>10. FramesDenote'
    BY <1>4, <1>5 DEF FramesDenote
  <1> QED
    BY <1>1, <1>6, <1>7, <1>8, <1>9, <1>10 DEF UptrInv, TrapsAreTagErrors

(* Every step of a program that keeps the contract preserves the invariant.  *)
THEOREM UptrStep == UptrInv /\ [Next]_vars => UptrInv'
  <1> SUFFICES ASSUME UptrInv, [Next]_vars PROVE UptrInv'
    OBVIOUS
  <1>1. ASSUME NEW g \in G, NEW f \in Local, AddressOf(g, f) PROVE UptrInv'
    <2>1. PICK d \in 1 .. stack[g].hi - stack[g].lo :
            SetFrame(g, f, stack[g].hi - d, [own |-> g, pos |-> d])
      BY <1>1 DEF AddressOf
    <2> DEFINE r == [own |-> g, pos |-> d]
    <2>2. stack[g] \in Stacks
      BY DEF UptrInv, TypeOK
    <2>3. stack[g].hi - d \in Word /\ d \in Nat
      BY SMT, <2>2, EncodeStack, ConstantsAssumption
    <2>4. r \in Ref /\ RefOK(g, r) /\ Address(r) = stack[g].hi - d
      BY <2>3, ConstantsAssumption DEF Ref, RefOK, Address
    <2> QED BY <2>1, <2>3, <2>4, SetFrameKeeps
  <1>2. ASSUME NEW g \in G, NEW f \in Local, CPointer(g, f) PROVE UptrInv'
    <2>1. PICK a \in CAddr : SetFrame(g, f, a, [own |-> NoG, pos |-> a])
      BY <1>2 DEF CPointer
    <2> DEFINE r == [own |-> NoG, pos |-> a]
    <2>2. a \in Word /\ a \in Nat
      BY SMT, ConstantsAssumption DEF Word
    <2>3. r \in Ref /\ RefOK(g, r) /\ Address(r) = a
      BY <2>2 DEF Ref, RefOK, Address
    <2> QED BY <2>1, <2>2, <2>3, SetFrameKeeps
  <1>3. ASSUME NEW g \in G, NEW f \in Local, ReturnCptr(g, f) PROVE UptrInv'
    <2>1. /\ stack[g] \in Stacks /\ frameRef[g][f] \in Ref
          /\ RefOK(g, frameRef[g][f]) /\ frame[g][f] = Address(frameRef[g][f])
      BY FrameWordForm
    <2>2. frameRef[g][f].own = g
      <3>1. CASE frameRef[g][f].own = NoG
        <4>1. frame[g][f] \in CAddr
          BY <2>1, <3>1, ConstantsAssumption DEF RefOK, Address
        <4> QED
          BY <1>3, <2>1, <4>1, CAddressPasses DEF ReturnCptr, RequireCptrTraps
      <3> QED BY <2>1, <3>1 DEF RefOK
    <2> QED BY <1>3, <2>1, <2>2, TrapKeeps DEF ReturnCptr
  <1>4. ASSUME NEW g \in G, NEW h \in Holder, NEW f \in Local,
               Owns(g, h), Use(g, h, f)
        PROVE  UptrInv'
    BY <1>4, StoreKeeps, LoadKeeps DEF Use
  <1>5. ASSUME NEW g \in G, CopyStack(g) PROVE UptrInv'
    BY <1>5, CopyStackKeeps
  <1>6. CASE UNCHANGED vars
    BY SMT, <1>6 DEF vars, UptrInv, TypeOK, RefOK, HeapWordsDenote, FramesDenote,
                Address, TrapsAreTagErrors
  <1> QED
    BY <1>1, <1>2, <1>3, <1>4, <1>5, <1>6 DEF Next

(* The invariant holds throughout: tags, references and words agree in every *)
(* state the helpers and the stack copies lead to.                           *)
THEOREM UptrInvariant == Spec => []UptrInv
  BY UptrInitially, UptrStep, PTL DEF Spec

(* docs/design/runtime.md 4.5, for every program that keeps the contract: a  *)
(* word in the heap goes on denoting its object through any number of stack  *)
(* copies.                                                                   *)
THEOREM HeapWordsSurviveCopies == Spec => []HeapWordsDenote
  <1>1. UptrInv => HeapWordsDenote
    BY DEF UptrInv
  <1> QED BY <1>1, UptrInvariant, PTL

(* Decoded values denote their objects, through the copies that follow.      *)
THEOREM FramesSurviveCopies == Spec => []FramesDenote
  <1>1. UptrInv => FramesDenote
    BY DEF UptrInv
  <1> QED BY <1>1, UptrInvariant, PTL

(* The helpers trap on real tag errors only, so the trap in goc_uptr_from_ptr *)
(* is never reached.                                                         *)
THEOREM OnlyTagErrorsTrap == Spec => []TrapsAreTagErrors
  <1>1. UptrInv => TrapsAreTagErrors
    BY DEF UptrInv
  <1> QED BY <1>1, UptrInvariant, PTL

(* goc_uptr_as_cptr hands out C addresses only.                              *)
THEOREM AsCptrIsSafe == Spec => AsCptrGivesCAddress
  <1>1. ASSUME UptrInv, NEW g \in G, NEW h \in Holder, NEW f \in Local,
               LoadCptr(g, h, f), frame' # frame
        PROVE  frame'[g][f] \in CAddr
    <2>1. ~MsbSet(heap[h]) /\ SetFrame(g, f, heap[h], heapRef[h])
      BY <1>1 DEF LoadCptr, AsCptrTraps, Trap
    <2>2. heap[h] \in CAddr
      BY <1>1, <2>1, HeapWordForm DEF UptrInv
    <2>3. frame'[g][f] = heap[h]
      BY <1>1, <2>1 DEF SetFrame, UptrInv, TypeOK
    <2> QED BY <2>2, <2>3
  <1>2. UptrInv => [\A g \in G, h \in Holder, f \in Local :
                      LoadCptr(g, h, f) /\ frame' # frame
                        => frame'[g][f] \in CAddr]_vars
    BY <1>1
  <1> QED BY <1>2, UptrInvariant, PTL DEF AsCptrGivesCAddress

-----------------------------------------------------------------------------
(* The alloca pool.                                                        *)

(* Rounding up to 16 loses no byte and keeps the cursor aligned.             *)
LEMMA AlignedFacts ==
  ASSUME NEW n \in Nat
  PROVE  /\ Aligned(n) \in Nat /\ Aligned(n) >= n /\ Aligned(n) % 16 = 0
  BY SMT DEF Aligned

(* The types of the pool's constants.                                        *)
LEMMA ConstantFacts ==
  /\ PoolBytes \in Nat /\ PoolBase \in Nat /\ PoolBase # 0
  /\ MaxDepth \in Nat /\ Request \subseteq Nat
  BY SMT, PoolAssumption

(* What PoolTypeOK says of single marks and blocks.                          *)
LEMMA TypeFacts ==
  ASSUME PoolTypeOK
  PROVE  /\ depth \in 0 .. MaxDepth /\ off \in 0 .. PoolBytes /\ off \in Nat
         /\ mark = [i \in 1 .. MaxDepth |-> mark[i]]
         /\ \A i \in 1 .. MaxDepth : mark[i] \in Nat
         /\ \A b \in live : /\ b.depth \in 1 .. MaxDepth
                             /\ b.base \in Nat /\ b.len \in Nat
  <1>1. /\ depth \in 0 .. MaxDepth /\ off \in 0 .. PoolBytes
        /\ mark = [i \in 1 .. MaxDepth |-> mark[i]]
        /\ \A i \in 1 .. MaxDepth :
             mark[i] \in {NULL} \cup (PoolBase .. PoolBase + PoolBytes)
    BY DEF PoolTypeOK
  <1>2. \A b \in live : /\ b.depth \in 1 .. MaxDepth /\ b.len \in 0 .. PoolBytes
                        /\ b.base \in PoolBase .. PoolBase + PoolBytes
    BY DEF PoolTypeOK
  <1> QED BY SMT, <1>1, <1>2, ConstantFacts DEF NULL

(* Nothing is allocated at first, so the invariant holds.                    *)
THEOREM PoolInitially == PoolInit => PoolInv
  BY SMT, PoolAssumption
  DEF PoolInit, PoolInv, PoolTypeOK, NoOverlap, BlocksAligned, NeverCorrupt, Ends, NULL

(* Entering a function leaves the pool as it is.                             *)
LEMMA EnterKeeps ==
  ASSUME PoolInv, Enter
  PROVE  PoolInv'
  <1>1. /\ depth \in 0 .. MaxDepth /\ depth + 1 \in 1 .. MaxDepth /\ depth' = depth + 1
        /\ MaxDepth \in Nat /\ PoolTypeOK
    <2>1. PoolTypeOK
      BY DEF PoolInv
    <2> QED BY SMT, <2>1, ConstantFacts, TypeFacts DEF Enter
  <1>2. mark' = mark
    <2>1. mark[depth + 1] = NULL
      BY SMT, <1>1 DEF PoolInv
    <2>2. mark' = [i \in 1 .. MaxDepth |-> mark[i]]
      BY <1>1, <2>1, TypeFacts DEF Enter
    <2> QED BY <1>1, <2>2, TypeFacts
  <1>3. off' = off /\ live' = live /\ fatal' = fatal
    BY DEF Enter
  <1>4. PoolTypeOK'
    <2>1. depth' \in 0 .. MaxDepth
      BY SMT, <1>1
    <2> QED BY <1>1, <1>2, <1>3, <2>1 DEF PoolTypeOK
  <1>5. \A i \in 1 .. MaxDepth : i > depth' => mark[i] = NULL
    <2>1. \A i \in 1 .. MaxDepth : i > depth => mark[i] = NULL
      BY DEF PoolInv
    <2> QED BY SMT, <1>1, <2>1
  <1>6. \A b \in live : b.depth <= depth'
    <2>1. \A b \in live : b.depth <= depth /\ b.depth \in 1 .. MaxDepth
      BY <1>1, TypeFacts DEF PoolInv
    <2> QED BY SMT, <1>1, <2>1
  <1> QED
    BY <1>2, <1>3, <1>4, <1>5, <1>6 DEF PoolInv, NoOverlap, BlocksAligned,
       NeverCorrupt, Ends

(* A bump takes storage above everything live and below the cursor.          *)
LEMMA BumpKeeps ==
  ASSUME PoolInv, depth > 0, NEW n \in Request, ~Exhausts(n), Bump(n)
  PROVE  PoolInv'
  <1> DEFINE base == PoolBase + off
             len  == Aligned(n)
             new  == [depth |-> depth, base |-> base, len |-> len, asked |-> n]
  <1>1. /\ depth \in 1 .. MaxDepth /\ off \in 0 .. PoolBytes /\ off \in Nat
        /\ PoolBase \in Nat \ {0} /\ PoolBytes \in Nat /\ MaxDepth \in Nat
        /\ PoolTypeOK
    <2>1. PoolTypeOK
      BY DEF PoolInv
    <2> QED BY SMT, <2>1, ConstantFacts, TypeFacts
  <1>0. off % 16 = 0 /\ base % 16 = 0 /\ \A i \in 1 .. MaxDepth : mark[i] % 16 = 0
    <2>1. off % 16 = 0 /\ \A i \in 1 .. MaxDepth : mark[i] % 16 = 0
      BY DEF PoolInv
    <2> QED BY SMT, <1>1, <2>1, PoolAssumption
  <1>2. len \in Nat /\ len <= PoolBytes - off /\ len % 16 = 0
    BY SMT, <1>1, AlignedFacts, ConstantFacts DEF Exhausts
  <1>3. /\ off' = off + len /\ off' \in 0 .. PoolBytes /\ off' % 16 = 0
        /\ depth' = depth /\ fatal' = fatal
        /\ live' = live \cup {new}
    BY SMT, <1>0, <1>1, <1>2 DEF Bump
  <1>4. \A i \in 1 .. MaxDepth :
          mark'[i] = IF i = depth /\ mark[i] = NULL THEN base ELSE mark[i]
    <2>1. mark' = [mark EXCEPT ![depth] = Watermark(mark[depth], base)]
      BY DEF Bump
    <2> QED BY <1>1, <2>1, TypeFacts DEF Watermark
  <1>5. mark' \in [1 .. MaxDepth -> {NULL} \cup PoolBase .. PoolBase + PoolBytes]
    <2>1. mark \in [1 .. MaxDepth -> {NULL} \cup PoolBase .. PoolBase + PoolBytes]
      BY <1>1 DEF PoolTypeOK
    <2>2. base \in PoolBase .. PoolBase + PoolBytes
      BY SMT, <1>1
    <2> QED BY <2>1, <2>2 DEF Bump, Watermark
  <1>6. new \in [depth : 1 .. MaxDepth, base : PoolBase .. PoolBase + PoolBytes,
                 len : 0 .. PoolBytes, asked : Request]
    BY SMT, <1>1, <1>2
  <1>7. PoolTypeOK'
    BY <1>1, <1>3, <1>5, <1>6 DEF PoolTypeOK
  <1>8. \A i \in 1 .. MaxDepth : mark[i] \in Nat /\ mark[i] <= base
    <2>1. \A i \in 1 .. MaxDepth : mark[i] <= base
      BY DEF PoolInv
    <2>2. \A i \in 1 .. MaxDepth : mark[i] \in Nat
      BY <1>1, TypeFacts
    <2> QED BY <2>1, <2>2
  <1>9. \A b \in live : /\ b.depth \in 1 .. MaxDepth /\ b.base \in Nat /\ b.len \in Nat
                        /\ b.depth <= depth /\ mark[b.depth] # NULL
                        /\ mark[b.depth] <= b.base /\ Ends(b) <= base
    <2>1. \A b \in live : b.depth \in 1 .. MaxDepth /\ b.base \in Nat /\ b.len \in Nat
      BY <1>1, TypeFacts
    <2> QED BY <2>1 DEF PoolInv
  <1>10. \A i \in 1 .. MaxDepth : i > depth => mark'[i] = NULL
    BY SMT, <1>1, <1>4 DEF PoolInv
  <1>11. \A i \in 1 .. MaxDepth : mark'[i] <= PoolBase + off'
    BY SMT, <1>1, <1>2, <1>3, <1>4, <1>8
  <1>12. \A i, j \in 1 .. MaxDepth : i < j /\ mark'[j] # NULL => mark'[i] <= mark'[j]
    BY <1>1, <1>4, <1>8, <1>10 DEF PoolInv
  <1>13. \A b \in live' : /\ b.depth <= depth'
                          /\ mark'[b.depth] # NULL
                          /\ mark'[b.depth] <= b.base
                          /\ Ends(b) <= PoolBase + off'
    <2>1. ASSUME NEW b \in live
          PROVE  /\ b.depth <= depth /\ mark'[b.depth] # NULL
                 /\ mark'[b.depth] <= b.base /\ Ends(b) <= PoolBase + off'
      BY SMT, <1>1, <1>2, <1>3, <1>4, <1>9 DEF Ends
    <2>2. /\ mark'[depth] # NULL /\ mark'[depth] <= base
          /\ Ends(new) <= PoolBase + off'
      BY SMT, <1>1, <1>2, <1>3, <1>4, <1>8 DEF Ends, NULL
    <2> QED BY SMT, <1>1, <1>3, <2>1, <2>2
  <1>14. \A b \in live', j \in 1 .. MaxDepth :
           b.depth < j /\ mark'[j] # NULL => Ends(b) <= mark'[j]
    <2>1. ASSUME NEW b \in live, NEW j \in 1 .. MaxDepth,
                 b.depth < j, mark'[j] # NULL
          PROVE  Ends(b) <= mark'[j]
      BY <1>4, <1>9, <2>1 DEF PoolInv
    <2>2. \A j \in 1 .. MaxDepth : depth < j => mark'[j] = NULL
      BY <1>1, <1>10
    <2> QED BY SMT, <1>3, <2>1, <2>2
  <1>15. NoOverlap'
    <2>1. \A b \in live : b.base + b.len <= new.base
      BY <1>9 DEF Ends
    <2> QED BY <1>3, <2>1 DEF PoolInv, NoOverlap
  <1>16. ~(\A i \in 1 .. MaxDepth : mark'[i] = NULL)
    BY SMT, <1>1, <1>4 DEF NULL
  <1>17. ASSUME NEW i \in 1 .. MaxDepth, mark'[i] # NULL,
                \A j \in 1 .. i - 1 : mark'[j] = NULL
         PROVE  mark'[i] = PoolBase
    <2>1. CASE mark[i] # NULL
      <3>1. \A j \in 1 .. i - 1 : mark[j] = NULL
        BY SMT, <1>1, <1>4, <1>17 DEF NULL
      <3>2. mark[i] = PoolBase
        BY <2>1, <3>1 DEF PoolInv
      <3> QED BY <1>4, <2>1, <3>2
    <2>2. CASE mark[i] = NULL
      <3>1. i = depth /\ mark'[i] = base
        BY <1>4, <1>17, <2>2
      <3>2. \A j \in 1 .. MaxDepth : mark[j] = NULL
        <4> SUFFICES ASSUME NEW j \in 1 .. MaxDepth PROVE mark[j] = NULL
          OBVIOUS
        <4>1. CASE j < i
          BY SMT, <1>1, <1>4, <1>17, <3>1, <4>1 DEF NULL
        <4>2. CASE j = i
          BY <2>2, <4>2
        <4>3. CASE j > i
          BY <3>1, <4>3 DEF PoolInv
        <4> QED BY SMT, <4>1, <4>2, <4>3
      <3>3. off = 0
        BY <3>2 DEF PoolInv
      <3> QED BY SMT, <1>1, <3>1, <3>3
    <2> QED BY <2>1, <2>2
  <1>18. NeverCorrupt'
    BY <1>3 DEF PoolInv, NeverCorrupt
  <1>19. (\A i \in 1 .. MaxDepth : mark'[i] % 16 = 0) /\ BlocksAligned'
    BY SMT, <1>0, <1>3, <1>4 DEF PoolInv, BlocksAligned
  <1> QED
    BY <1>19, <1>3, <1>7, <1>10, <1>11, <1>12, <1>13, <1>14, <1>15, <1>16, <1>17, <1>18
    DEF PoolInv

(* A return gives back what the call took and nothing of its callers.        *)
LEMMA ReturnKeeps ==
  ASSUME PoolInv, Return
  PROVE  PoolInv'
  <1> DEFINE m == mark[depth]
  <1>1. PoolTypeOK /\ depth \in 1 .. MaxDepth /\ off \in Nat /\ off \in 0 .. PoolBytes
    <2>1. PoolTypeOK
      BY DEF PoolInv
    <2>2. depth > 0
      BY DEF Return
    <2> QED BY SMT, <2>1, <2>2, ConstantFacts, TypeFacts
  <1>2. m \in Nat /\ m <= PoolBase + off /\ (m # NULL => m >= PoolBase)
    <2>1. m \in {NULL} \cup PoolBase .. PoolBase + PoolBytes
      BY <1>1 DEF PoolTypeOK
    <2>2. m <= PoolBase + off
      BY <1>1 DEF PoolInv
    <2> QED BY SMT, <2>1, <2>2, ConstantFacts DEF NULL
  <1>3. ~WatermarkCorrupt(m)
    BY <1>1, <1>2, ConstantFacts DEF WatermarkCorrupt
  <1>4. /\ off' = (IF m = NULL THEN off ELSE m - PoolBase)
        /\ mark' = [mark EXCEPT ![depth] = NULL]
        /\ depth' = depth - 1
        /\ live' = {b \in live : b.depth < depth}
        /\ fatal' = fatal
    BY <1>3 DEF Return, Released
  <1>5. off' \in 0 .. PoolBytes /\ off' <= off /\ off' \in Nat
    BY SMT, <1>1, <1>2, <1>4, ConstantFacts
  <1>6. \A i \in 1 .. MaxDepth : mark'[i] = IF i = depth THEN NULL ELSE mark[i]
    BY <1>1, <1>4, TypeFacts
  <1>7. PoolTypeOK'
    <2>1. mark' \in [1 .. MaxDepth -> {NULL} \cup PoolBase .. PoolBase + PoolBytes]
      BY <1>1, <1>4 DEF PoolTypeOK
    <2>2. depth' \in 0 .. MaxDepth
      BY SMT, <1>1, <1>4, ConstantFacts
    <2> QED BY <1>1, <1>4, <1>5, <2>1, <2>2 DEF PoolTypeOK
  <1>8. off' % 16 = 0 /\ (\A i \in 1 .. MaxDepth : mark'[i] % 16 = 0)
    <2>1. off % 16 = 0 /\ \A i \in 1 .. MaxDepth : mark[i] % 16 = 0
      BY DEF PoolInv
    <2>2. m % 16 = 0
      BY <1>1, <2>1
    <2>3. off' % 16 = 0
      BY SMT, <1>1, <1>2, <1>4, <2>1, <2>2, PoolAssumption
    <2>4. NULL % 16 = 0
      BY SMT DEF NULL
    <2> QED BY <1>6, <2>1, <2>3, <2>4
  <1>9. \A i \in 1 .. MaxDepth : i > depth' => mark'[i] = NULL
    <2>1. \A i \in 1 .. MaxDepth : i > depth => mark[i] = NULL
      BY DEF PoolInv
    <2> QED BY SMT, <1>1, <1>4, <1>6, <2>1
  <1>10. \A i \in 1 .. MaxDepth : mark'[i] <= PoolBase + off'
    <2> SUFFICES ASSUME NEW i \in 1 .. MaxDepth PROVE mark'[i] <= PoolBase + off'
      OBVIOUS
    <2>1. mark[i] \in Nat /\ mark[i] <= PoolBase + off
      BY <1>1, TypeFacts DEF PoolInv
    <2>2. CASE i >= depth
      BY SMT, <1>5, <1>6, <1>9, <1>4, <1>1, <2>2, ConstantFacts DEF NULL
    <2>3. CASE i < depth /\ m = NULL
      BY <1>4, <1>6, <2>1, <2>3
    <2>4. CASE i < depth /\ m # NULL
      <3>1. mark[i] <= m
        BY <1>1, <2>4 DEF PoolInv
      <3> QED BY SMT, <1>1, <1>2, <1>4, <1>6, <2>1, <2>4, <3>1, ConstantFacts
    <2> QED BY SMT, <1>1, <2>2, <2>3, <2>4
  <1>11. \A i, j \in 1 .. MaxDepth : i < j /\ mark'[j] # NULL => mark'[i] <= mark'[j]
    <2>1. \A i, j \in 1 .. MaxDepth : i < j /\ mark[j] # NULL => mark[i] <= mark[j]
      BY DEF PoolInv
    <2>2. \A i \in 1 .. MaxDepth : mark[i] \in Nat
      BY <1>1, TypeFacts
    <2> QED BY SMT, <1>6, <2>1, <2>2 DEF NULL
  <1>12. \A b \in live' : b \in live /\ b.depth < depth /\ b.depth \in 1 .. MaxDepth
    BY <1>1, <1>4, TypeFacts
  <1>13. \A b \in live' : /\ b.depth <= depth'
                          /\ mark'[b.depth] # NULL
                          /\ mark'[b.depth] <= b.base
                          /\ Ends(b) <= PoolBase + off'
    <2> SUFFICES ASSUME NEW b \in live'
                 PROVE  /\ b.depth <= depth' /\ mark'[b.depth] # NULL
                        /\ mark'[b.depth] <= b.base /\ Ends(b) <= PoolBase + off'
      OBVIOUS
    <2>1. /\ b \in live /\ b.depth < depth /\ b.depth \in 1 .. MaxDepth
          /\ mark[b.depth] # NULL /\ mark[b.depth] <= b.base
          /\ Ends(b) <= PoolBase + off
          /\ m # NULL => Ends(b) <= m
      BY <1>1, <1>12 DEF PoolInv
    <2>2. mark'[b.depth] = mark[b.depth]
      BY SMT, <1>6, <2>1
    <2>3. Ends(b) <= PoolBase + off'
      BY SMT, <1>2, <1>4, <2>1, ConstantFacts
    <2>4. b.depth <= depth'
      BY SMT, <1>1, <1>4, <2>1
    <2> QED BY <2>1, <2>2, <2>3, <2>4
  <1>14. \A b \in live', j \in 1 .. MaxDepth :
           b.depth < j /\ mark'[j] # NULL => Ends(b) <= mark'[j]
    BY <1>6, <1>12 DEF PoolInv
  <1>15. NoOverlap' /\ BlocksAligned'
    BY <1>12 DEF PoolInv, NoOverlap, BlocksAligned
  <1>16. ASSUME \A i \in 1 .. MaxDepth : mark'[i] = NULL PROVE off' = 0
    <2>1. \A i \in 1 .. MaxDepth : i # depth => mark[i] = NULL
      BY <1>6, <1>16
    <2>2. CASE m = NULL
      <3>1. \A i \in 1 .. MaxDepth : mark[i] = NULL
        BY <2>1, <2>2
      <3> QED BY <1>4, <2>2, <3>1 DEF PoolInv
    <2>3. CASE m # NULL
      <3>1. \A j \in 1 .. depth - 1 : mark[j] = NULL
        BY SMT, <1>1, <2>1, ConstantFacts
      <3>2. m = PoolBase
        BY <1>1, <2>3, <3>1 DEF PoolInv
      <3> QED BY SMT, <1>4, <2>3, <3>2, ConstantFacts
    <2> QED BY <2>2, <2>3
  <1>17. ASSUME NEW i \in 1 .. MaxDepth, mark'[i] # NULL,
                \A j \in 1 .. i - 1 : mark'[j] = NULL
         PROVE  mark'[i] = PoolBase
    <2>1. i < depth /\ mark'[i] = mark[i]
      <3>1. ~(i > depth')
        BY <1>9, <1>17
      <3> QED BY SMT, <1>1, <1>4, <1>6, <3>1
    <2>2. \A j \in 1 .. i - 1 : mark[j] = NULL
      BY SMT, <1>1, <1>6, <1>17, <2>1, ConstantFacts
    <2> QED BY <1>17, <2>1, <2>2 DEF PoolInv
  <1>18. NeverCorrupt'
    BY <1>4 DEF PoolInv, NeverCorrupt
  <1> QED
    BY <1>7, <1>8, <1>9, <1>10, <1>11, <1>13, <1>14, <1>15, <1>16, <1>17, <1>18
    DEF PoolInv

(* The two traps of an allocation leave everything but the process alone.    *)
LEMMA FatalKeeps ==
  ASSUME PoolInv, NEW message, Fatal(message),
         message \in {"dynamic alloca size overflow", "alloca pool exhausted"}
  PROVE  PoolInv'
  <1>1. /\ fatal' = message /\ depth' = depth /\ off' = off
        /\ mark' = mark /\ live' = live
    BY DEF Fatal
  <1>2. PoolTypeOK'
    BY <1>1 DEF PoolInv, PoolTypeOK
  <1>3. NeverCorrupt'
    BY <1>1 DEF NeverCorrupt
  <1> QED
    BY <1>1, <1>2, <1>3 DEF PoolInv, NoOverlap, BlocksAligned, Ends

(* Every step of calls, allocations and returns keeps the invariant.         *)
THEOREM PoolStep == PoolInv /\ [PoolNext]_poolVars => PoolInv'
  <1> SUFFICES ASSUME PoolInv, [PoolNext]_poolVars PROVE PoolInv'
    OBVIOUS
  <1>1. CASE Enter
    BY <1>1, EnterKeeps
  <1>2. ASSUME depth > 0, NEW n \in Request, DynAlloc(n) PROVE PoolInv'
    <2>1. n \in Nat
      BY ConstantFacts
    <2>2. CASE Fatal("dynamic alloca size overflow")
      BY <2>2, FatalKeeps
    <2>3. CASE Fatal("alloca pool exhausted")
      BY <2>3, FatalKeeps
    <2>4. CASE ~Exhausts(n) /\ Bump(n)
      BY <1>2, <2>1, <2>4, BumpKeeps
    <2> QED BY <1>2, <2>2, <2>3, <2>4 DEF DynAlloc
  <1>3. CASE Return
    BY <1>3, ReturnKeeps
  <1>4. CASE UNCHANGED poolVars
    BY <1>4 DEF poolVars, PoolInv, PoolTypeOK, NoOverlap, BlocksAligned, NeverCorrupt, Ends
  <1> QED BY <1>1, <1>2, <1>3, <1>4 DEF PoolNext

(* The cursor, the watermarks and the storage keep their order for ever.     *)
THEOREM PoolInvariant == PoolSpec => []PoolInv
  <1> QED BY PoolInitially, PoolStep, PTL DEF PoolSpec

(* goc_dynalloc hands out aligned storage of its own to every caller.        *)
THEOREM PoolStorageIsDisjoint == PoolSpec => [](NoOverlap /\ BlocksAligned)
  <1>1. PoolInv => NoOverlap /\ BlocksAligned
    BY DEF PoolInv
  <1> QED BY <1>1, PoolInvariant, PTL

(* When every call has returned the pool is whole again.                     *)
THEOREM PoolDrains == PoolSpec => []Drained
  <1>1. PoolInv => Drained
    <2> SUFFICES ASSUME PoolInv, depth = 0 PROVE off = 0
      BY DEF Drained
    <2>1. \A i \in 1 .. MaxDepth : mark[i] = NULL
      BY SMT, ConstantFacts DEF PoolInv
    <2> QED BY <2>1 DEF PoolInv
  <1> QED BY <1>1, PoolInvariant, PTL

(* goc_dynrelease never meets a watermark outside the pool.                  *)
THEOREM PoolNeverCorrupt == PoolSpec => []NeverCorrupt
  <1>1. PoolInv => NeverCorrupt
    BY DEF PoolInv
  <1> QED BY <1>1, PoolInvariant, PTL

(* The pool lowering implements the promise of alloca: every step is a step  *)
(* of AllocaScope or leaves what a program sees of it unchanged.             *)
THEOREM PoolImplementsScope == PoolSpec => ScopeSpec
  <1>1. PoolInit => Scope!Init
    BY DEF PoolInit, Scope!Init
  <1>2. PoolInv /\ [PoolNext]_poolVars => [Scope!Next]_Scope!vars
    <2> SUFFICES ASSUME PoolInv, [PoolNext]_poolVars PROVE [Scope!Next]_Scope!vars
      OBVIOUS
    <2>0. PoolTypeOK
      BY DEF PoolInv
    <2>1. CASE fatal = "none" /\ Enter
      BY <2>1 DEF Enter, Scope!Next, Scope!Enter
    <2>2. ASSUME fatal = "none", depth > 0, NEW n \in Request, DynAlloc(n)
          PROVE  Scope!Next
      <3>1. CASE Fatal("dynamic alloca size overflow")
        BY <2>2, <3>1 DEF Fatal, Scope!Next, Scope!Trap
      <3>2. CASE Fatal("alloca pool exhausted")
        BY <2>2, <3>2 DEF Fatal, Scope!Next, Scope!Trap
      <3>3. CASE Bump(n)
        <4> DEFINE new == [depth |-> depth, base |-> PoolBase + off, len |-> Aligned(n),
                           asked |-> n]
        <4>1. /\ live' = live \cup {new} /\ depth' = depth /\ fatal' = fatal
          BY <3>3 DEF Bump
        <4>2. n \in Nat /\ new.depth = depth /\ new.asked = n /\ new.len >= n
          BY ConstantFacts, AlignedFacts
        <4>3. \A c \in live : ~Scope!Overlap(new, c)
          <5>1. \A c \in live : c.base \in Nat /\ c.len \in Nat /\ Ends(c) <= PoolBase + off
            BY <2>0, TypeFacts DEF PoolInv
          <5>2. PoolBase + off \in Nat
            BY SMT, <2>0, TypeFacts, ConstantFacts
          <5> QED BY SMT, <5>1, <5>2 DEF Ends, Scope!Overlap
        <4>4. Scope!Alloca(n)
          BY <2>2, <4>1, <4>2, <4>3 DEF Scope!Alloca
        <4> QED BY <2>2, <4>4 DEF Scope!Next
      <3> QED BY <2>2, <3>1, <3>2, <3>3 DEF DynAlloc
    <2>3. CASE fatal = "none" /\ Return
      <3>1. depth > 0
        BY <2>3 DEF Return
      <3>2. CASE WatermarkCorrupt(mark[depth])
        BY <2>3, <3>2 DEF Return, Fatal, Scope!Next, Scope!Trap
      <3>3. CASE ~WatermarkCorrupt(mark[depth])
        BY <2>3, <3>1, <3>3 DEF Return, Scope!Next, Scope!Return
      <3> QED BY <3>2, <3>3
    <2>4. CASE UNCHANGED poolVars
      BY <2>4 DEF poolVars, Scope!vars
    <2> QED BY <2>1, <2>2, <2>3, <2>4 DEF PoolNext
  <1> QED BY <1>1, <1>2, PoolInvariant, PTL DEF PoolSpec, ScopeSpec, Scope!Spec

-----------------------------------------------------------------------------
(* The moves of a thunk.                                                   *)

(* When no move is ready, every destination is a source.  Destinations are   *)
(* distinct, so there are at least as many sources that carry parameters as  *)
(* there are moves, and none is left for the scratch register to be one.     *)
LEMMA OnlyCyclesLeft ==
  ASSUME MoveTypes, \A e \in Pending : ~Ready(e)
  PROVE  Scratch \notin Sources
<1> SUFFICES ASSUME Scratch \in Sources PROVE FALSE
  OBVIOUS
<1> DEFINE Others == Sources \ {Scratch}
<1>1. Pending \subseteq Reg /\ Pending \subseteq Others /\ IsFiniteSet(Pending)
  <2>1. Pending \subseteq Reg /\ Scratch \notin Pending /\ IsFiniteSet(Reg)
    BY ScratchAssumption DEF MoveTypes
  <2>2. Pending \subseteq Sources
    BY DEF Ready
  <2> QED BY <2>1, <2>2, FS_Subset
<1>2. IsFiniteSet(Sources) /\ Cardinality(Sources) <= Cardinality(Pending)
  <2> DEFINE f == [d \in Pending |-> from[d]]
  <2>1. f \in Surjection(Pending, Sources)
    BY DEF Surjection, Sources
  <2> QED BY <1>1, <2>1, FS_Surjection
<1>3. /\ IsFiniteSet(Others) /\ Cardinality(Others) = Cardinality(Sources) - 1
      /\ Cardinality(Sources) \in Nat /\ Cardinality(Pending) \in Nat
  BY <1>1, <1>2, FS_RemoveElement, FS_CardinalityType
<1>4. Cardinality(Pending) <= Cardinality(Others)
  BY <1>1, <1>3, FS_Subset
<1> QED BY SMT, <1>2, <1>3, <1>4

(* Before the first move every source holds the value meant for its          *)
(* destination.                                                              *)
THEOREM MovesInitially == MoveInit => MoveInv
<1> SUFFICES ASSUME MoveInit PROVE MoveInv
  OBVIOUS
<1>0. PICK moves \in UNION {[E -> Reg] : E \in SUBSET Reg} :
        /\ regs \in [Reg \cup {Scratch} -> Value]
        /\ from = Start(moves)
        /\ want = [r \in Reg |-> IF r \in DOMAIN moves THEN regs[moves[r]] ELSE regs[r]]
  BY DEF MoveInit
<1> DEFINE Dests == DOMAIN moves
<1>1. Dests \in SUBSET Reg /\ moves \in [Dests -> Reg]
  BY <1>0
<1>2. /\ DOMAIN moves = Dests
      /\ Pending = {d \in Dests : moves[d] # d}
      /\ \A d \in Pending : from[d] = moves[d] /\ from[d] \in Reg
      /\ from = [d \in Pending |-> from[d]]
  BY <1>0, <1>1 DEF Start, Pending
<1>3. MoveTypes
  BY <1>0, <1>1, <1>2 DEF MoveTypes
<1> QED BY <1>0, <1>1, <1>2, <1>3 DEF MoveInv, MoveTypes

(* A ready destination is nobody's source, so writing it loses no value.     *)
LEMMA EmitKeeps ==
  ASSUME MoveInv, NEW d \in Reg, Emit(d)
  PROVE  MoveInv'
<1>1. MoveTypes
  BY DEF MoveInv
<1>2. /\ d \in Pending /\ \A e \in Pending : from[e] # d
      /\ regs' = [regs EXCEPT ![d] = regs[from[d]]]
      /\ Pending' = Pending \ {d}
      /\ \A e \in Pending \ {d} : from'[e] = from[e]
      /\ from' = [e \in Pending \ {d} |-> from[e]] /\ want' = want
  BY DEF Emit, Ready, Sources, Pending
<1>3. MoveTypes'
  BY <1>1, <1>2 DEF MoveTypes
<1>4. \A e \in Pending' : regs'[from'[e]] = want'[e]
  BY <1>1, <1>2 DEF MoveInv, MoveTypes
<1>5. \A r \in Reg \ Pending' : regs'[r] = want'[r]
  BY <1>1, <1>2 DEF MoveInv, MoveTypes
<1> QED BY <1>3, <1>4, <1>5 DEF MoveInv

(* Breaking a cycle overwrites a scratch register nobody reads.              *)
LEMMA BreakKeeps ==
  ASSUME MoveInv, NEW d \in Reg, Break(d)
  PROVE  MoveInv'
<1>1. MoveTypes
  BY DEF MoveInv
<1>2. Scratch \notin Sources
  BY <1>1, OnlyCyclesLeft DEF Break
<1>3. /\ d \in Pending /\ \A e \in Pending : from[e] # Scratch
      /\ regs' = [regs EXCEPT ![Scratch] = regs[from[d]]]
      /\ Pending' = Pending
      /\ \A e \in Pending : from'[e] = IF from[e] = from[d] THEN Scratch ELSE from[e]
      /\ from' = [e \in Pending |-> from'[e]] /\ want' = want
  BY <1>2 DEF Break, Redirected, Sources, Pending
<1>4. MoveTypes'
  BY <1>1, <1>3 DEF MoveTypes
<1>5. \A e \in Pending' : regs'[from'[e]] = want'[e]
  BY <1>1, <1>3 DEF MoveInv, MoveTypes
<1>6. \A r \in Reg \ Pending' : regs'[r] = want'[r]
  BY <1>1, <1>3, ScratchAssumption DEF MoveInv, MoveTypes
<1> QED BY <1>4, <1>5, <1>6 DEF MoveInv

(* A step that changes nothing keeps the invariant.                          *)
LEMMA StutterKeeps ==
  ASSUME MoveInv, UNCHANGED moveVars
  PROVE  MoveInv'
  BY DEF MoveInv, MoveTypes, Pending, moveVars

(* Every step of the move loop keeps each pending value at its source.       *)
THEOREM MoveInvariant == MoveSpec => []MoveInv
<1>1. MoveInv /\ [MoveNext]_moveVars => MoveInv'
  BY EmitKeeps, BreakKeeps, StutterKeeps DEF MoveNext
<1> QED BY <1>1, MovesInitially, PTL DEF MoveSpec

(* The sequence emitted by parallelGPR and its three copies does what the    *)
(* moves done at once would do, whatever the registers and the cycles.       *)
THEOREM MovesAreSimultaneous == MoveSpec => []MovesHappen
<1>1. MoveInv => MovesHappen
  BY DEF MoveInv, MovesHappen
<1> QED BY <1>1, MoveInvariant, PTL

(* A second cycle is broken only after the first one gave the scratch        *)
(* register back.                                                            *)
THEOREM ScratchIsFree == MoveSpec => ScratchFree
<1>1. MoveInv /\ [MoveNext]_moveVars => [regs'[Scratch] # regs[Scratch] => Scratch \notin Sources]_moveVars
  <2> SUFFICES ASSUME MoveInv, NEW d \in Reg, Emit(d) \/ Break(d),
                      regs'[Scratch] # regs[Scratch]
               PROVE  Scratch \notin Sources
    BY DEF MoveNext
  <2>1. MoveTypes
    BY DEF MoveInv
  <2>2. CASE Emit(d)
    BY <2>1, <2>2, ScratchAssumption DEF Emit, MoveTypes
  <2>3. CASE Break(d)
    BY <2>1, <2>3, OnlyCyclesLeft DEF Break
  <2> QED BY <2>2, <2>3
<1> QED BY <1>1, MoveInvariant, PTL DEF MoveSpec, ScratchFree


=============================================================================
