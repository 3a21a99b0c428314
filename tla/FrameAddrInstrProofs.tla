------------------------ MODULE FrameAddrInstrProofs ------------------------
(***************************************************************************)
(* Proofs about FrameAddrFix, first part: the lattice's join, and the      *)
(* instructions that compute an address or replace a register preserve     *)
(* Sound (LEA, two-operand arithmetic, CMOV, loads, everything else).     *)
(***************************************************************************)
EXTENDS FrameAddrFix, TLAPS

(* The leaves are first-order reasoning for Zenon, where they do not name    *)
(* another prover.                                                           *)
USE Zenon

(* The constructors of abstract values (mk and fa in the header).            *)
LEMMA MkType ==
  ASSUME NEW K \in Kind
  PROVE  mk(K) \in Val /\ mk(K).K = K /\ mk(K).Alias = NoSlot /\ mk(K).Copy = 0
  BY SMT DEF mk, Val, FrameBase

(* The same for fa: exactly base + off, a copy of nothing.                   *)
LEMMA FaType ==
  ASSUME NEW base \in FrameBase, NEW off \in Int
  PROVE  /\ fa(base, off) \in Val /\ fa(base, off).K = "FA" /\ fa(base, off).Base = base
         /\ fa(base, off).Off = off /\ fa(base, off).Alias = NoSlot /\ fa(base, off).Copy = 0
  BY DEF fa, mk, Val, FrameBase, Kind

(* What a join says of a value that one of its sides describes: it says no   *)
(* more than that side, and it calls it a copy only if that side does.       *)
LEMMA JoinSound ==
  ASSUME NEW a \in Val, NEW b \in Val
  PROVE  /\ join(a, b) \in Val
         /\ a.K # "Bot" => /\ join(a, b).Alias \in {a.Alias, NoSlot}
                           /\ join(a, b).Copy \in {a.Copy, 0}
                           /\ a.K = "Taint" => join(a, b).K = "Taint"
         /\ b.K # "Bot" => /\ join(a, b).Alias \in {b.Alias, NoSlot}
                           /\ join(a, b).Copy \in {b.Copy, 0}
                           /\ b.K = "Taint" => join(a, b).K = "Taint"
         /\ \A v : Describes(a, v) \/ Describes(b, v) => Describes(join(a, b), v)
<1> DEFINE j == joinKind(a, b)
<1>1. j \in Val /\ j.K \in Kind
  <2>1. mk("D1") \in Val /\ mk("MS") \in Val /\ mk("Taint") \in Val
    BY MkType DEF Kind
  <2> QED BY <2>1 DEF joinKind, Val
<1>2. j.K = IF Same(a, b) THEN a.K
            ELSE IF moves(a) /\ moves(b) THEN "D1"
            ELSE IF {a.K, b.K} \subseteq {"FA", "D1", "MS", "NotFA"} THEN "MS" ELSE "Taint"
  <2>1. mk("D1").K = "D1" /\ mk("MS").K = "MS" /\ mk("Taint").K = "Taint"
    BY MkType DEF Kind
  <2> QED BY <2>1 DEF joinKind
<1>3. Same(a, b) => j = a
  BY DEF joinKind
<1> DEFINE r == [j EXCEPT !.Alias = NoSlot, !.Copy = 0]
<1>4. /\ r \in Val /\ r.K = j.K /\ r.Base = j.Base /\ r.Off = j.Off
      /\ r.Alias = NoSlot /\ r.Copy = 0
  BY <1>1 DEF Val
<1>5. join(a, b) = IF a.K = "Bot" THEN b ELSE IF b.K = "Bot" THEN a
                   ELSE IF Same(a, b) /\ a.Alias = b.Alias /\ a.Copy = b.Copy THEN a ELSE r
  BY DEF join
<1> HIDE DEF j, r
<1>6. join(a, b) \in Val
  BY <1>4, <1>5
<1>7. a.K = "Taint" /\ b.K # "Bot" => j.K = "Taint"
  BY <1>2 DEF Same, moves
<1>8. b.K = "Taint" /\ a.K # "Bot" => j.K = "Taint"
  BY <1>2 DEF Same, moves
<1>9. ASSUME NEW v, Describes(a, v) \/ Describes(b, v), a.K # "Bot", b.K # "Bot"
      PROVE  Describes(r, v)
  <2> DEFINE w == Rel(r.Base) + r.Off
  <2>1. CASE Same(a, b)
    <3>1. r.K = a.K /\ r.K = b.K /\ (r.K = "FA" => r.Base = a.Base /\ r.Off = a.Off /\ r.Base = b.Base /\ r.Off = b.Off)
      BY <1>3, <1>4, <2>1 DEF Same
    <3> QED BY <3>1, <1>9 DEF Describes
  <2>2. CASE ~Same(a, b) /\ moves(a) /\ moves(b)
    BY <1>2, <1>4, <1>9, <2>2 DEF Describes, moves
  <2>3. CASE ~Same(a, b) /\ ~(moves(a) /\ moves(b)) /\ {a.K, b.K} \subseteq {"FA", "D1", "MS", "NotFA"}
    <3>1. r.K = "MS"
      BY <1>2, <1>4, <2>3
    <3>2. v.k # "undef" => (v.own => v.k = "stk")
      BY <1>9, <2>3 DEF Describes
    <3> QED BY <3>1, <3>2 DEF Describes
  <2>4. CASE ~Same(a, b) /\ ~(moves(a) /\ moves(b)) /\ ~({a.K, b.K} \subseteq {"FA", "D1", "MS", "NotFA"})
    <3>1. r.K = "Taint"
      BY <1>2, <1>4, <2>4
    <3> QED BY <3>1 DEF Describes
  <2> QED BY <2>1, <2>2, <2>3, <2>4
<1>10. ASSUME NEW v, Describes(a, v) \/ Describes(b, v)
       PROVE  Describes(join(a, b), v)
  <2>1. a.K = "Bot" /\ Describes(a, v) => v.k = "undef"
    BY DEF Describes
  <2>2. b.K = "Bot" /\ Describes(b, v) => v.k = "undef"
    BY DEF Describes
  <2>3. v.k = "undef" => Describes(join(a, b), v)
    BY DEF Describes
  <2>4. CASE a.K = "Bot"
    <3>1. join(a, b) = b
      BY <1>5, <2>4
    <3> QED BY <3>1, <2>1, <2>3, <2>4, <1>10
  <2>5. CASE a.K # "Bot" /\ b.K = "Bot"
    <3>1. join(a, b) = a
      BY <1>5, <2>5
    <3> QED BY <3>1, <2>2, <2>3, <2>5, <1>10
  <2>6. CASE a.K # "Bot" /\ b.K # "Bot" /\ Same(a, b) /\ a.Alias = b.Alias /\ a.Copy = b.Copy
    <3>1. join(a, b) = a
      BY <1>5, <2>6
    <3> QED BY <3>1, <2>6, <1>10 DEF Same, Describes
  <2>7. CASE a.K # "Bot" /\ b.K # "Bot" /\ ~(Same(a, b) /\ a.Alias = b.Alias /\ a.Copy = b.Copy)
    <3>1. join(a, b) = r
      BY <1>5, <2>7
    <3>2. Describes(r, v)
      BY <1>9, <1>10, <2>7
    <3> QED BY <3>1, <3>2
  <2> QED BY <2>4, <2>5, <2>6, <2>7
<1>11. a.K # "Bot" => /\ join(a, b).Alias \in {a.Alias, NoSlot}
                      /\ join(a, b).Copy \in {a.Copy, 0}
                      /\ a.K = "Taint" => join(a, b).K = "Taint"
  BY <1>4, <1>5, <1>7
<1>12. b.K # "Bot" => /\ join(a, b).Alias \in {b.Alias, NoSlot}
                      /\ join(a, b).Copy \in {b.Copy, 0}
                      /\ b.K = "Taint" => join(a, b).K = "Taint"
  BY <1>4, <1>5, <1>8 DEF Same
<1> QED
  BY <1>6, <1>10, <1>11, <1>12

(* Init has no frame address, no copy and no defined slot.                   *)
LEMMA InitSound == Init => Sound
<1> SUFFICES ASSUME Init PROVE Sound
  OBVIOUS
<1>1. \A l \in Loc : val[l] \in Value /\ ~val[l].own /\ val[l].lag = 0
  <2> SUFFICES ASSUME NEW l \in Loc PROVE val[l] \in Value /\ ~val[l].own /\ val[l].lag = 0
    OBVIOUS
  <2>1. val[l] \in Loaded \cup {Undef}
    BY DEF Init
  <2>2. Undef \in Value /\ ~Undef.own /\ Undef.lag = 0
    BY SMT DEF Undef, Value
  <2> QED BY <2>1, <2>2, InputAssumption
<1>2. val \in [Loc -> Value]
  BY <1>1 DEF Init
<1>3. \A l \in Loc : abs[l] \in Val /\ abs[l].Alias = NoSlot /\ abs[l].Copy = 0
                     /\ abs[l].K = IF l \in Reg THEN "NotFA" ELSE "Bot"
  BY MkType DEF Init, Kind
<1>4. abs \in [Loc -> Val]
  BY <1>3 DEF Init
<1>5. Typed /\ dead \subseteq Csr \cup Spill
  BY <1>2, <1>4, InputAssumption DEF Typed, Init
<1>6. AllDescribed
  <2> SUFFICES ASSUME NEW l \in Loc PROVE Describes(abs[l], val[l])
    BY DEF AllDescribed
  <2>1. l \in Slot => val[l].k = "undef"
    BY SMT DEF Init, Undef, Slot, Loc
  <2>2. l \notin Reg => l \in Slot
    BY DEF Loc
  <2> QED BY <1>1, <1>3, <2>1, <2>2 DEF Describes
<1>7. Current /\ SlotCopies /\ GroupCopies /\ RootsFixed
  <2>1. Current /\ SlotCopies
    BY <1>1, <1>3 DEF Current, SlotCopies
  <2>2. GroupCopies /\ RootsFixed
    <3>1. n = 0
      BY DEF Init
    <3> QED BY SMT, <1>1, <1>3, <3>1 DEF GroupCopies, RootsFixed, Loc, Slot
  <2> QED BY <2>1, <2>2
<1> QED BY <1>5, <1>6, <1>7 DEF Sound

(* An instruction that writes register d keeps Sound if what it says of the  *)
(* new value is true of it.                                                  *)
LEMMA WriteKeeps ==
  ASSUME Sound, NEW d \in Reg, NEW v \in Value, NEW a \in Val, Write(d, v, a),
         n' = n + 1, Describes(a, v),
         v.k # "undef" /\ a.K # "Taint" => v.lag = 0,
         v.k # "undef" /\ a.Alias # NoSlot => SameValue(v, val[a.Alias]),
         v.k # "undef" /\ a.Copy # 0 =>
           \A m \in Loc \ {d} : Known(m) /\ abs[m].Copy = a.Copy => SameValue(v, val[m]),
         v.k # "undef" => a.Copy <= n + 1
  PROVE  Sound'
<1>1. d \in Loc /\ d \notin Slot
  BY LocAssumption DEF Loc
<1>2. /\ val' = [val EXCEPT ![d] = v] /\ abs' = [abs EXCEPT ![d] = a]
      /\ dead' = dead \ {d} /\ rsp' = rsp
  BY DEF Write
<1>3. Typed /\ val \in [Loc -> Value] /\ abs \in [Loc -> Val] /\ n \in Nat
  BY DEF Sound, Typed
<1>4. Typed' /\ dead' \subseteq Csr \cup Spill
  BY SMT, <1>1, <1>2 DEF Sound, Typed
<1>5. /\ val'[d] = v /\ abs'[d] = a
      /\ \A l \in Loc \ {d} : val'[l] = val[l] /\ abs'[l] = abs[l]
  BY <1>1, <1>2, <1>3
<1>6. Current'
  BY ZenonT(30), <1>1, <1>2, <1>5 DEF Sound, Current
<1>7. AllDescribed'
  <2> SUFFICES ASSUME NEW l \in Loc PROVE Describes(abs[l], val[l])'
    BY DEF AllDescribed
  <2>1. l # d => Describes(abs[l], val[l])
    BY DEF Sound, AllDescribed
  <2> QED BY SMT, <1>2, <1>5, <2>1 DEF Describes, Rel
<1>8. SlotCopies'
  <2> SUFFICES ASSUME NEW l \in Loc, val'[l].k # "undef", abs'[l].Alias # NoSlot
               PROVE  SameValue(val'[l], val'[abs'[l].Alias])
    BY DEF SlotCopies, Known
  <2>1. abs'[l].Alias \in Slot
    BY <1>4 DEF Typed, Val
  <2>2. val'[abs'[l].Alias] = val[abs'[l].Alias]
    BY <1>1, <1>5, <2>1 DEF Loc
  <2> QED BY <1>5, <2>2 DEF Sound, SlotCopies, Known
<1>9. GroupCopies'
  <2>1. ASSUME NEW l \in Loc, NEW m \in Loc, val'[l].k # "undef", val'[m].k # "undef",
               abs'[l].Copy # 0, abs'[l].Copy = abs'[m].Copy
        PROVE  SameValue(val'[l], val'[m])
    <3>1. CASE l # d /\ m # d
      BY <1>5, <2>1, <3>1 DEF Sound, GroupCopies, Known
    <3>2. CASE l = d /\ m # d
      BY <1>5, <2>1, <3>2 DEF Known
    <3>3. CASE l # d /\ m = d
      <4>1. SameValue(v, val[l])
        BY <1>5, <2>1, <3>3 DEF Known
      <4> QED BY <4>1, <1>5, <3>3 DEF SameValue
    <3>4. CASE l = d /\ m = d
      BY <3>4 DEF SameValue
    <3> QED BY <3>1, <3>2, <3>3, <3>4
  <2>2. ASSUME NEW l \in Loc, val'[l].k # "undef" PROVE abs'[l].Copy <= n'
    <3>1. abs'[l].Copy \in Nat
      BY <1>4 DEF Typed, Val
    <3>2. l # d => abs'[l].Copy <= n
      BY <1>5, <2>2 DEF Sound, GroupCopies, Known
    <3> QED BY SMT, <1>3, <1>5, <2>2, <3>1, <3>2
  <2> QED BY <2>1, <2>2 DEF GroupCopies, Known
<1>10. RootsFixed'
  BY <1>1, <1>5 DEF Sound, RootsFixed, Known, Slot, Loc
<1> QED BY <1>4, <1>6, <1>7, <1>8, <1>9, <1>10 DEF Sound

(* What an instruction knows of a location it reads.                         *)
LEMMA ReadFacts ==
  ASSUME Sound, NEW l \in Loc, Readable(l)
  PROVE  /\ val[l] \in Value /\ val[l].k \in {"abs", "stk"} /\ abs[l] \in Val
         /\ val[l].o \in Int /\ val[l].lag \in Int /\ val[l].own \in BOOLEAN
         /\ abs[l].K \in Kind \ {"Bot"} /\ abs[l].Copy \in Nat /\ abs[l].Copy <= n
         /\ abs[l].Base \in FrameBase /\ abs[l].Off \in Int
         /\ readReg(l) = abs[l]
         /\ Describes(abs[l], val[l])
         /\ abs[l].K # "Taint" => val[l].lag = 0
         /\ abs[l].Alias # NoSlot => SameValue(val[l], val[abs[l].Alias])
         /\ abs[l].Copy # 0 =>
              \A m \in Loc : Known(m) /\ abs[m].Copy = abs[l].Copy => SameValue(val[l], val[m])
<1>1. val[l] \in Value /\ abs[l] \in Val /\ val[l].k # "undef" /\ l \notin dead
  BY DEF Sound, Typed, Readable, Known
<1>2. Describes(abs[l], val[l])
  BY DEF Sound, AllDescribed
<1>3. abs[l].K # "Bot"
  BY <1>1, <1>2 DEF Describes
<1>4. readReg(l) = abs[l]
  BY <1>3, LocAssumption DEF readReg
<1>5. abs[l].K # "Taint" => val[l].lag = 0
  BY <1>1 DEF Sound, Current
<1>6. abs[l].Alias # NoSlot => SameValue(val[l], val[abs[l].Alias])
  BY <1>1 DEF Sound, SlotCopies, Known
<1>7. /\ abs[l].Copy # 0 =>
           \A m \in Loc : Known(m) /\ abs[m].Copy = abs[l].Copy => SameValue(val[l], val[m])
      /\ abs[l].Copy <= n
  BY <1>1 DEF Sound, GroupCopies, Known
<1>8. /\ val[l].k \in {"abs", "stk"} /\ val[l].o \in Int /\ val[l].lag \in Int
      /\ val[l].own \in BOOLEAN
  BY <1>1 DEF Value
<1>9. /\ abs[l].K \in Kind \ {"Bot"} /\ abs[l].Copy \in Nat /\ abs[l].Base \in FrameBase
      /\ abs[l].Off \in Int
  BY <1>1, <1>3 DEF Val
<1> QED BY <1>1, <1>2, <1>4, <1>5, <1>6, <1>7, <1>8, <1>9

(* The same for a source operand, which may be RBP or RSP (readReg).         *)
LEMMA SourceFacts ==
  ASSUME Sound, NEW r \in Source, CanUse(r)
  PROVE  /\ Get(r) \in Value /\ Get(r).k \in {"abs", "stk"} /\ readReg(r) \in Val
         /\ Get(r).o \in Int /\ Get(r).lag \in Int /\ Get(r).own \in BOOLEAN
         /\ readReg(r).K \in Kind \ {"Bot"} /\ readReg(r).Copy \in Nat /\ readReg(r).Copy <= n
         /\ readReg(r).Base \in FrameBase /\ readReg(r).Off \in Int
         /\ Describes(readReg(r), Get(r))
         /\ readReg(r).K # "Taint" => Get(r).lag = 0
         /\ readReg(r).Alias # NoSlot => SameValue(Get(r), val[readReg(r).Alias])
         /\ readReg(r).Copy # 0 =>
              \A m \in Loc : Known(m) /\ abs[m].Copy = readReg(r).Copy => SameValue(Get(r), val[m])
<1>1. CASE r \in Reg
  <2>1. r \in Loc /\ Readable(r) /\ r \notin FrameBase
    BY <1>1, LocAssumption DEF CanUse, Loc
  <2>2. Get(r) = val[r]
    BY <2>1 DEF Get
  <2>3. readReg(r) = abs[r]
    BY <2>1, ReadFacts
  <2> QED BY <2>1, <2>2, <2>3, ReadFacts
<1>2. CASE r \in FrameBase
  <2>1. readReg(r) = fa(r, 0) /\ Get(r) = BaseValue(r)
    BY <1>2 DEF readReg, Get
  <2>2. rsp \in Int /\ n \in Nat
    BY DEF Sound, Typed
  <2>3. /\ Get(r).k = "stk" /\ Get(r).o = Rel(r) /\ Get(r).own = TRUE /\ Get(r).lag = 0
        /\ Rel(r) \in Int /\ Get(r) \in Value
    BY SMT, <2>1, <2>2 DEF BaseValue, Rel, Value
  <2>4. /\ readReg(r) \in Val /\ readReg(r).K = "FA" /\ readReg(r).Base = r /\ readReg(r).Off = 0
        /\ readReg(r).Alias = NoSlot /\ readReg(r).Copy = 0
    BY SMT, <1>2, <2>1, FaType
  <2>5. Describes(readReg(r), Get(r))
    BY SMT, <2>3, <2>4 DEF Describes
  <2>6. Get(r).own \in BOOLEAN
    BY <2>3
  <2> QED BY SMT, <1>2, <2>2, <2>3, <2>4, <2>5, <2>6 DEF Kind
<1> QED BY <1>1, <1>2 DEF Source

(* What LEA is taken to compute, by the kinds of its operands.               *)
LEMMA LeaValFacts ==
  ASSUME Sound, NEW base \in Source, CanUse(base), NEW index \in Reg \cup {NoSlot},
         index # NoSlot => Readable(index), NEW scale \in {1, 2}, NEW c \in Int
  PROVE  LET a == LeaVal(base, index, scale, c)
             VB == readReg(base)
             KI == IF index = NoSlot THEN "NotFA" ELSE readReg(index).K
         IN /\ a \in Val /\ a.Alias = NoSlot /\ a.Copy = 0
            /\ a.K = "NotFA" => VB.K = "NotFA" /\ KI = "NotFA"
            /\ a.K = "FA" => VB.K = "FA" /\ index = NoSlot /\ a.Base = VB.Base /\ a.Off = VB.Off + c
            /\ a.K = "D1" => \/ VB.K \in {"FA", "D1"} /\ KI = "NotFA"
                             \/ VB.K = "NotFA" /\ KI \in {"FA", "D1"} /\ scale = 1
            /\ a.K = "MS" => \/ VB.K = "MS" /\ KI = "NotFA"
                             \/ VB.K = "NotFA" /\ KI = "MS" /\ scale = 1
            /\ a.K # "Bot"
<1> DEFINE VB == readReg(base)
           VI == IF index = NoSlot THEN mk("NotFA") ELSE readReg(index)
           KI == IF index = NoSlot THEN "NotFA" ELSE readReg(index).K
           a == LeaVal(base, index, scale, c)
<1>1. VB.K \in Kind \ {"Bot"} /\ VB.Base \in FrameBase /\ VB.Off \in Int
  BY SourceFacts
<1>2. VI.K = KI /\ KI \in Kind \ {"Bot"}
  <2>1. CASE index = NoSlot
    BY <2>1, MkType DEF Kind
  <2>2. CASE index # NoSlot
    <3>1. index \in Loc
      BY <2>2 DEF Loc
    <3>2. readReg(index) = abs[index] /\ abs[index].K \in Kind \ {"Bot"}
      BY <2>2, <3>1, ReadFacts
    <3> QED BY <2>2, <3>2
  <2> QED BY <2>1, <2>2
<1>3. a = CASE ~frameish(VB) /\ ~frameish(VI) -> mk("NotFA")
            [] VB.K = "FA" /\ index = NoSlot -> fa(VB.Base, VB.Off + c)
            [] \/ moves(VB) /\ ~frameish(VI) /\ ~(VB.K = "FA" /\ index = NoSlot)
               \/ ~frameish(VB) /\ moves(VI) /\ scale = 1 -> mk("D1")
            [] \/ VB.K = "MS" /\ ~frameish(VI)
               \/ ~frameish(VB) /\ VI.K = "MS" /\ scale = 1 -> mk("MS")
            [] OTHER -> mk("Taint")
  BY DEF LeaVal
<1> HIDE DEF VB, VI, KI, a
<1>4. index = NoSlot => VI.K = "NotFA"
  BY MkType DEF VI, Kind
<1>5. CASE ~frameish(VB) /\ ~frameish(VI)
  <2>1. a = mk("NotFA")
    BY <1>3, <1>5 DEF frameish, moves
  <2> QED BY <2>1, <1>1, <1>2, <1>5, MkType DEF Kind, frameish, a, VB, KI
<1>6. CASE VB.K = "FA" /\ index = NoSlot
  <2>1. a = fa(VB.Base, VB.Off + c)
    BY <1>3, <1>4, <1>6 DEF frameish, moves
  <2>2. VB.Off + c \in Int
    BY SMTT(30), <1>1
  <2> QED BY SMT, <2>1, <2>2, <1>1, <1>6, FaType DEF a, VB, KI
<1>7. CASE \/ moves(VB) /\ ~frameish(VI) /\ ~(VB.K = "FA" /\ index = NoSlot)
           \/ ~frameish(VB) /\ moves(VI) /\ scale = 1
  <2>1. a = mk("D1")
    BY <1>3, <1>4, <1>7 DEF frameish, moves
  <2> QED BY <2>1, <1>1, <1>2, <1>7, MkType DEF Kind, frameish, moves, a, VB, KI
<1>8. CASE \/ VB.K = "MS" /\ ~frameish(VI)
           \/ ~frameish(VB) /\ VI.K = "MS" /\ scale = 1
  <2>1. a = mk("MS")
    BY <1>3, <1>4, <1>8 DEF frameish, moves
  <2> QED BY <2>1, <1>1, <1>2, <1>8, MkType DEF Kind, frameish, a, VB, KI
<1>9. CASE ~(\/ ~frameish(VB) /\ ~frameish(VI)
             \/ VB.K = "FA" /\ index = NoSlot
             \/ moves(VB) /\ ~frameish(VI) /\ ~(VB.K = "FA" /\ index = NoSlot)
             \/ ~frameish(VB) /\ moves(VI) /\ scale = 1
             \/ VB.K = "MS" /\ ~frameish(VI)
             \/ ~frameish(VB) /\ VI.K = "MS" /\ scale = 1)
  <2>1. a = mk("Taint")
    BY <1>3, <1>9
  <2> QED BY <2>1, MkType DEF Kind, a
<1> QED BY <1>5, <1>6, <1>7, <1>8, <1>9, ZenonT(60)

(* LEA of a frame base or a register plus a displacement.                    *)
LEMMA LeaKeeps ==
  ASSUME Sound, NEW d \in Reg, NEW base \in Source, NEW c \in Disps, Lea(d, base, c),
         n' = n + 1
  PROVE  Sound'
<1> DEFINE w == Get(base)
           v == Plus(w, c)
           a == LeaVal(base, NoSlot, 1, c)
<1>1. CanUse(base) /\ Write(d, v, a) /\ c \in Int
  BY InputAssumption DEF Lea
<1>2. w \in Value /\ w.k \in {"abs", "stk"} /\ w.o \in Int /\ w.lag \in Int /\ Describes(readReg(base), w)
      /\ (readReg(base).K # "Taint" => w.lag = 0) /\ n \in Nat
      /\ readReg(base).Base \in FrameBase /\ readReg(base).Off \in Int /\ rsp \in Int
  BY <1>1, SourceFacts DEF Sound, Typed
<1> HIDE DEF w
<1>3. v \in Value /\ v.k = w.k /\ v.own = w.own /\ v.lag = w.lag /\ v.o = w.o + c
  BY <1>1, <1>2, SMTT(30) DEF Plus, Value
<1>4. /\ a \in Val /\ a.Alias = NoSlot /\ a.Copy = 0 /\ a.K # "Bot"
      /\ a.K = "NotFA" => readReg(base).K = "NotFA"
      /\ a.K = "FA" => /\ readReg(base).K = "FA" /\ a.Base = readReg(base).Base
                       /\ a.Off = readReg(base).Off + c
      /\ a.K = "D1" => readReg(base).K \in {"FA", "D1"}
      /\ a.K = "MS" => readReg(base).K = "MS"
  BY SMT, <1>1, LeaValFacts
<1> HIDE DEF v, a
<1>5. Describes(a, v)
  BY SMT, <1>1, <1>2, <1>3, <1>4 DEF Describes, Rel
<1>6. a.K # "Taint" => v.lag = 0
  BY <1>2, <1>3, <1>4, SMTT(30) DEF Val, Kind
<1> QED BY SMT, <1>1, <1>2, <1>3, <1>4, <1>5, <1>6, WriteKeeps

(* LEA of a base plus a scaled index: &a[i].                                 *)
LEMMA LeaIndexedKeeps ==
  ASSUME Sound, NEW d \in Reg, NEW base \in Source, NEW i \in Reg, NEW scale \in {1, 2},
         LeaIndexed(d, base, i, scale), n' = n + 1
  PROVE  Sound'
<1> DEFINE w == Get(base)
           x == Scaled(val[i], scale)
           v == Sum(w, x)
           a == LeaVal(base, i, scale, 0)
<1>2. CanUse(base) /\ Readable(i) /\ NoSum(w, x) /\ Write(d, v, a) /\ i \in Loc
  BY DEF LeaIndexed, Loc
<1>3. w \in Value /\ w.k \in {"abs", "stk"} /\ w.o \in Int /\ w.lag \in Int /\ Describes(readReg(base), w)
      /\ (readReg(base).K # "Taint" => w.lag = 0) /\ n \in Nat /\ w.own \in BOOLEAN
  BY <1>2, SourceFacts, SMTT(30) DEF Sound, Typed
<1>4. /\ val[i] \in Value /\ val[i].k \in {"abs", "stk"} /\ val[i].o \in Int /\ val[i].lag \in Int
      /\ val[i].own \in BOOLEAN
      /\ Describes(readReg(i), val[i]) /\ (readReg(i).K # "Taint" => val[i].lag = 0)
  BY <1>2, ReadFacts
<1>5. /\ x \in Value /\ x.k \in {"abs", "stk"} /\ x.own = val[i].own /\ x.o \in Int /\ x.lag \in Int
      /\ (scale = 1 => x.k = val[i].k) /\ (scale # 1 => x.k = "abs") /\ (val[i].lag = 0 => x.lag = 0)
  <2>1. CASE scale = 1
    BY <1>4, <2>1 DEF Scaled
  <2>2. CASE scale = 2
    BY <1>4, <2>2, SMTT(30) DEF Scaled, Value
  <2> QED BY <2>1, <2>2
<1> HIDE DEF w, x
<1>6. /\ v \in Value /\ v.k = (IF w.k # x.k THEN "stk" ELSE "abs")
      /\ v.own = (w.own \/ x.own) /\ v.lag = w.lag + x.lag
  BY <1>3, <1>5, SMTT(30) DEF Sum, Value
<1>7. /\ a \in Val /\ a.Alias = NoSlot /\ a.Copy = 0 /\ a.K # "Bot"
      /\ i # NoSlot
      /\ a.K = "NotFA" => readReg(base).K = "NotFA" /\ readReg(i).K = "NotFA"
      /\ a.K # "FA"
      /\ a.K = "D1" => \/ readReg(base).K \in {"FA", "D1"} /\ readReg(i).K = "NotFA"
                       \/ readReg(base).K = "NotFA" /\ readReg(i).K \in {"FA", "D1"} /\ scale = 1
      /\ a.K = "MS" => \/ readReg(base).K = "MS" /\ readReg(i).K = "NotFA"
                       \/ readReg(base).K = "NotFA" /\ readReg(i).K = "MS" /\ scale = 1
  <2>1. i # NoSlot
    BY <1>2, LocAssumption
  <2>2. 0 \in Int /\ i \in Reg \cup {NoSlot}
    BY SMT
  <2> DEFINE KI == IF i = NoSlot THEN "NotFA" ELSE readReg(i).K
  <2>3. KI = readReg(i).K
    BY <2>1
  <2>4. /\ a \in Val /\ a.Alias = NoSlot /\ a.Copy = 0 /\ a.K # "Bot"
        /\ a.K = "NotFA" => readReg(base).K = "NotFA" /\ KI = "NotFA"
        /\ a.K = "FA" => i = NoSlot
        /\ a.K = "D1" => \/ readReg(base).K \in {"FA", "D1"} /\ KI = "NotFA"
                         \/ readReg(base).K = "NotFA" /\ KI \in {"FA", "D1"} /\ scale = 1
        /\ a.K = "MS" => \/ readReg(base).K = "MS" /\ KI = "NotFA"
                         \/ readReg(base).K = "NotFA" /\ KI = "MS" /\ scale = 1
    BY <1>2, <2>2, LeaValFacts, ZenonT(60)
  <2> HIDE DEF KI, a
  <2> QED BY <2>1, <2>3, <2>4
<1> HIDE DEF v, a
<1>8. Describes(a, v)
  BY <1>2, <1>3, <1>4, <1>5, <1>6, <1>7 DEF Describes, NoSum
<1>9. a.K # "Taint" => v.lag = 0
  BY SMT, <1>3, <1>4, <1>5, <1>6, <1>7 DEF Val, Kind
<1> QED BY SMT, <1>2, <1>3, <1>6, <1>7, <1>8, <1>9, WriteKeeps

(* ADD, SUB, INC and DEC with an immediate.                                  *)
LEMMA AddImmKeeps ==
  ASSUME Sound, NEW d \in Reg, NEW c \in Disps, AddImm(d, c), n' = n + 1
  PROVE  Sound'
<1> DEFINE w == val[d]
           v == Plus(w, c)
           b == abs[d]
           a == AddImmVal(b, c)
<1>1. d \in Loc /\ Readable(d) /\ c \in Int /\ n \in Nat /\ rsp \in Int
  BY InputAssumption DEF AddImm, Loc, Sound, Typed
<1>2. /\ w \in Value /\ w.k \in {"abs", "stk"} /\ w.o \in Int /\ b \in Val /\ b.K \in Kind \ {"Bot"}
      /\ b.Base \in FrameBase /\ b.Off \in Int /\ b.Copy \in Nat /\ b.Copy <= n
      /\ Describes(b, w) /\ (b.K # "Taint" => w.lag = 0)
      /\ (b.Alias # NoSlot => SameValue(w, val[b.Alias]))
      /\ (b.Copy # 0 => \A m \in Loc : Known(m) /\ abs[m].Copy = b.Copy => SameValue(w, val[m]))
      /\ readReg(d) = b
  BY <1>1, ReadFacts
<1>3. Write(d, v, a)
  BY <1>2 DEF AddImm
<1> HIDE DEF w, b
<1>4. v \in Value /\ v.k = w.k /\ v.own = w.own /\ v.lag = w.lag /\ v.o = w.o + c
  BY SMT, <1>1, <1>2 DEF Plus, Value
<1>5. /\ a \in Val /\ a.K = b.K /\ (a.K = "FA" => a.Base = b.Base /\ a.Off = b.Off + c)
      /\ (a.Alias = NoSlot /\ a.Copy = 0) \/ (c = 0 /\ a = b)
  <2>1. CASE b.K = "FA"
    <3> DEFINE e == [b EXCEPT !.Off = @ + c]
    <3>1. e \in Val /\ e.K = b.K /\ e.Base = b.Base /\ e.Off = b.Off + c
      BY SMT, <1>1, <1>2 DEF Val
    <3>2. a = [e EXCEPT !.Alias = NoSlot, !.Copy = 0]
      BY <2>1 DEF AddImmVal
    <3> HIDE DEF e, a
    <3>3. a \in Val /\ a.K = e.K /\ a.Base = e.Base /\ a.Off = e.Off /\ a.Alias = NoSlot /\ a.Copy = 0
      BY <3>1, <3>2 DEF Val
    <3> QED BY <3>1, <3>3
  <2>2. CASE b.K # "FA" /\ frameish(b)
    <3>1. a = IF c = 0 THEN b ELSE [b EXCEPT !.Alias = NoSlot, !.Copy = 0]
      BY <2>2 DEF AddImmVal
    <3> HIDE DEF a
    <3> QED BY <1>2, <2>2, <3>1 DEF Val
  <2>3. CASE ~frameish(b)
    <3>1. b.K = "NotFA"
      BY <1>2, <2>3 DEF frameish, Kind
    <3>2. a = IF c = 0 THEN mk("NotFA") ELSE [mk("NotFA") EXCEPT !.Alias = NoSlot, !.Copy = 0]
      BY <2>3, <3>1 DEF AddImmVal
    <3> HIDE DEF a
    <3>3. mk("NotFA") \in Val /\ mk("NotFA").K = "NotFA" /\ mk("NotFA").Alias = NoSlot /\ mk("NotFA").Copy = 0
      BY MkType DEF Kind
    <3> QED BY <3>1, <3>2, <3>3 DEF Val
  <2> QED BY <2>1, <2>2, <2>3
<1> HIDE DEF a, v
<1>6. Describes(a, v)
  BY SMTT(30), <1>1, <1>2, <1>4, <1>5 DEF Describes, Rel
<1>7. /\ a.K # "Taint" => v.lag = 0
      /\ a.Copy <= n + 1
      /\ a.Alias # NoSlot => SameValue(v, val[a.Alias])
      /\ a.Copy # 0 => \A m \in Loc \ {d} : Known(m) /\ abs[m].Copy = a.Copy => SameValue(v, val[m])
  <2>1. c = 0 => v.o = w.o
    BY SMT, <1>2, <1>4
  <2> QED BY SMT, <1>1, <1>2, <1>4, <1>5, <2>1 DEF SameValue
<1> QED BY <1>1, <1>3, <1>4, <1>5, <1>6, <1>7, WriteKeeps

(* The operand abstract values of ADD, SUB and CMOV, register or slot.       *)
LEMMA OperandFacts ==
  ASSUME Sound, NEW l \in Reg \cup Slot, Readable(l)
  PROVE  /\ l \in Loc
         /\ (IF l \in Reg THEN readReg(l) ELSE abs[l]) = abs[l]
         /\ (IF l \in Reg THEN readReg(l) ELSE IF abs[l].K = "Bot" THEN mk("NotFA") ELSE abs[l]) = abs[l]
         /\ (IF l \in Reg THEN readReg(l)
             ELSE IF frameish(abs[l]) THEN abs[l] ELSE mk("NotFA")).K = abs[l].K
<1>1. l \in Loc
  BY DEF Loc
<1>2. readReg(l) = abs[l] /\ abs[l].K \in Kind \ {"Bot"}
  BY <1>1, ReadFacts
<1>3. mk("NotFA").K = "NotFA"
  BY MkType DEF Kind
<1> QED BY <1>1, <1>2, <1>3 DEF frameish, Kind

(* ADD of a register or a slot.                                              *)
LEMMA AddKeeps ==
  ASSUME Sound, NEW d \in Reg, NEW src \in Reg \cup Slot, Add(d, src), n' = n + 1
  PROVE  Sound'
<1> DEFINE w == val[d]
           x == val[src]
           b == IF src \in Reg THEN readReg(src)
                ELSE IF frameish(abs[src]) THEN abs[src] ELSE mk("NotFA")
           v == Sum(w, x)
           a == AddVal(readReg(d), b)
<1>1. d \in Loc /\ src \in Loc /\ Readable(d) /\ Readable(src) /\ NoSum(w, x) /\ Write(d, v, a) /\ n \in Nat
  BY DEF Add, Loc, Sound, Typed
<1>2. /\ w \in Value /\ w.k \in {"abs", "stk"} /\ w.o \in Int /\ w.lag \in Int /\ w.own \in BOOLEAN
      /\ Describes(abs[d], w) /\ (abs[d].K # "Taint" => w.lag = 0) /\ abs[d].K \in Kind \ {"Bot"}
      /\ readReg(d).K = abs[d].K
  BY <1>1, ReadFacts
<1>3. /\ x \in Value /\ x.k \in {"abs", "stk"} /\ x.o \in Int /\ x.lag \in Int /\ x.own \in BOOLEAN
      /\ Describes(abs[src], x) /\ (abs[src].K # "Taint" => x.lag = 0) /\ abs[src].K \in Kind \ {"Bot"}
      /\ b.K = abs[src].K
  BY <1>1, ReadFacts, OperandFacts
<1> HIDE DEF w, x, b
<1>4. /\ v \in Value /\ v.k = (IF w.k # x.k THEN "stk" ELSE "abs")
      /\ v.own = (w.own \/ x.own) /\ v.lag = w.lag + x.lag
  BY SMT, <1>2, <1>3 DEF Sum, Value
<1>5. /\ a \in Val /\ a.Alias = NoSlot /\ a.Copy = 0 /\ a.K \in {"NotFA", "D1", "MS", "Taint"}
      /\ a.K = "NotFA" => abs[d].K = "NotFA" /\ abs[src].K = "NotFA"
      /\ a.K = "D1" => \/ abs[d].K \in {"FA", "D1"} /\ abs[src].K = "NotFA"
                       \/ abs[d].K = "NotFA" /\ abs[src].K \in {"FA", "D1"}
      /\ a.K = "MS" => \/ abs[d].K = "MS" /\ abs[src].K = "NotFA"
                       \/ abs[d].K = "NotFA" /\ abs[src].K = "MS"
  <2>1. a = IF abs[d].K = "NotFA" /\ abs[src].K = "NotFA" THEN mk("NotFA")
            ELSE IF \/ abs[d].K \in {"FA", "D1"} /\ abs[src].K = "NotFA"
                    \/ abs[d].K = "NotFA" /\ abs[src].K \in {"FA", "D1"} THEN mk("D1")
            ELSE IF \/ abs[d].K = "MS" /\ abs[src].K = "NotFA"
                    \/ abs[d].K = "NotFA" /\ abs[src].K = "MS" THEN mk("MS")
            ELSE mk("Taint")
    BY <1>2, <1>3 DEF AddVal, frameish, moves, Kind
  <2> HIDE DEF a
  <2> QED BY <2>1, MkType DEF Kind
<1> HIDE DEF v, a
<1>6. Describes(a, v)
  BY <1>1, <1>2, <1>3, <1>4, <1>5 DEF Describes, NoSum
<1>7. a.K # "Taint" => v.lag = 0
  BY SMTT(30), <1>2, <1>3, <1>4, <1>5
<1> QED BY SMT, <1>1, <1>4, <1>5, <1>6, <1>7, WriteKeeps

(* SUB of a register or a slot: a pointer difference is a number.            *)
LEMMA SubKeeps ==
  ASSUME Sound, NEW d \in Reg, NEW src \in Reg \cup Slot, Sub(d, src), n' = n + 1
  PROVE  Sound'
<1> DEFINE w == val[d]
           x == val[src]
           b == IF src \in Reg THEN readReg(src) ELSE abs[src]
           v == Diff(w, x)
           a == SubVal(readReg(d), b, src \in Root)
<1>1. /\ d \in Loc /\ src \in Loc /\ Readable(d) /\ Readable(src) /\ Write(d, v, a) /\ n \in Nat
      /\ repairable(readReg(d)) /\ (repairable(b) \/ src \in Root) => w.k = x.k
  BY DEF Sub, Loc, Sound, Typed
<1>2. /\ w \in Value /\ w.k \in {"abs", "stk"} /\ w.o \in Int /\ w.lag \in Int /\ w.own \in BOOLEAN
      /\ Describes(abs[d], w) /\ (abs[d].K # "Taint" => w.lag = 0) /\ abs[d].K \in Kind \ {"Bot"}
      /\ readReg(d) = abs[d]
  BY <1>1, ReadFacts
<1>3. /\ x \in Value /\ x.k \in {"abs", "stk"} /\ x.o \in Int /\ x.lag \in Int /\ x.own \in BOOLEAN
      /\ Describes(abs[src], x) /\ (abs[src].K # "Taint" => x.lag = 0) /\ abs[src].K \in Kind \ {"Bot"}
      /\ b = abs[src] /\ (src \in Root => x.lag = 0)
  BY <1>1, ReadFacts, OperandFacts DEF Sound, RootsFixed, Readable
<1> HIDE DEF w, x, b
<1>4. /\ v \in Value /\ v.k \in {"abs", "stk"}
      /\ v.own = ((w.own \/ x.own) /\ w.k # x.k) /\ v.lag = w.lag - x.lag
  BY SMTT(30), <1>2, <1>3 DEF Diff, Value
<1>5. /\ a \in Val /\ a.Alias = NoSlot /\ a.Copy = 0 /\ a.K \in {"NotFA", "Taint"}
      /\ a.K = "NotFA" => \/ abs[d].K = "NotFA" /\ abs[src].K = "NotFA"
                          \/ /\ abs[d].K \in {"FA", "D1", "MS"} /\ w.k = x.k
                             /\ abs[src].K \in {"FA", "D1", "MS"} \/ src \in Root
  BY <1>1, <1>2, <1>3, MkType DEF SubVal, frameish, repairable, Kind
<1> HIDE DEF v, a
<1>6. Describes(a, v)
  BY <1>2, <1>3, <1>4, <1>5 DEF Describes
<1>7. a.K # "Taint" => v.lag = 0
  BY SMTT(30), <1>2, <1>3, <1>4, <1>5
<1> QED BY SMT, <1>1, <1>4, <1>5, <1>6, <1>7, WriteKeeps

(* CMOV: one of two values, described by the join.                           *)
LEMMA CmovKeeps ==
  ASSUME Sound, NEW d \in Reg, NEW src \in Reg \cup Slot, Cmov(d, src), n' = n + 1
  PROVE  Sound'
<1> DEFINE a == join(abs[d], abs[src])
<1>1. d \in Loc /\ src \in Loc /\ Readable(d) /\ Readable(src) /\ n \in Nat
  BY DEF Cmov, Loc, Sound, Typed
<1>2. readReg(d) = abs[d]
  BY <1>1, ReadFacts
<1>3. PICK l \in {d, src} : Write(d, val[l], a)
  BY <1>1, <1>2, OperandFacts DEF Cmov
<1>4. abs[d] \in Val /\ abs[src] \in Val /\ abs[d].K # "Bot" /\ abs[src].K # "Bot"
  BY <1>1, ReadFacts
<1>5. /\ a \in Val /\ a.Alias \in {abs[l].Alias, NoSlot} /\ a.Copy \in {abs[l].Copy, 0}
      /\ abs[l].K = "Taint" => a.K = "Taint"
      /\ \A v : Describes(abs[l], v) => Describes(a, v)
  BY SMT, <1>4, JoinSound
<1> HIDE DEF a
<1>6. /\ val[l] \in Value /\ Describes(abs[l], val[l]) /\ (abs[l].K # "Taint" => val[l].lag = 0)
      /\ (abs[l].Alias # NoSlot => SameValue(val[l], val[abs[l].Alias]))
      /\ (abs[l].Copy # 0 =>
            \A m \in Loc : Known(m) /\ abs[m].Copy = abs[l].Copy => SameValue(val[l], val[m]))
      /\ abs[l].Copy \in Nat /\ abs[l].Copy <= n
  BY <1>1, ReadFacts
<1>7. /\ Describes(a, val[l]) /\ (a.K # "Taint" => val[l].lag = 0)
      /\ (a.Alias # NoSlot => SameValue(val[l], val[a.Alias]))
      /\ (a.Copy # 0 => \A m \in Loc \ {d} : Known(m) /\ abs[m].Copy = a.Copy => SameValue(val[l], val[m]))
      /\ a.Copy <= n + 1
  BY SMTT(30), <1>1, <1>5, <1>6
<1> QED BY <1>1, <1>3, <1>5, <1>6, <1>7, WriteKeeps

(* The name a copying instruction gives: new, or one given before; without a *)
(* gap no location but its result carries it.                                *)
LEMMA AddressFacts ==
  ASSUME NEW d \in Reg, NEW names \in BOOLEAN, n \in Nat, SitesTyped, gaps' = {}, Naming(d, names)
  PROVE  /\ Address \in Nat /\ Address # 0 /\ Address <= n + 1
         /\ names => \A l \in Loc \ {d} : Known(l) => abs[l].Copy # Address
<1>1. Address \in Nat /\ Address # 0 /\ Address <= n + 1
  BY SMT DEF Address, SitesTyped
<1>2. "group" \notin gaps'
  OBVIOUS
<1>3. names => ~\E l \in Loc \ {d} : Known(l) /\ abs[l].Copy = Address
  BY <1>2 DEF Naming
<1> QED BY <1>1, <1>3

(* A full reload: the register is a copy of the slot.                        *)
LEMMA LoadKeeps ==
  ASSUME Sound, SitesTyped, NEW d \in Reg, NEW s \in Slot, Load(d, s), n' = n + 1, gaps' = {}
  PROVE  Sound'
<1> DEFINE id == IF abs[s].Copy = 0 THEN Address ELSE abs[s].Copy
           a == [abs[s] EXCEPT !.Alias = s, !.Copy = id]
<1>1. s \in Loc /\ Readable(s) /\ n \in Nat /\ s # NoSlot
  BY ZenonT(30), LocAssumption DEF Load, Loc, Sound, Typed
<1>2. /\ val[s] \in Value /\ abs[s] \in Val /\ abs[s].K \in Kind \ {"Bot"} /\ Describes(abs[s], val[s])
      /\ (abs[s].K # "Taint" => val[s].lag = 0)
      /\ (abs[s].Copy # 0 =>
            \A m \in Loc : Known(m) /\ abs[m].Copy = abs[s].Copy => SameValue(val[s], val[m]))
      /\ abs[s].Copy \in Nat /\ abs[s].Copy <= n
  BY <1>1, ReadFacts
<1>3. Write(d, val[s], a) /\ Naming(d, abs[s].Copy = 0)
  BY <1>2 DEF Load
<1>4. /\ Address \in Nat /\ Address # 0 /\ Address <= n + 1
      /\ abs[s].Copy = 0 => \A l \in Loc \ {d} : Known(l) => abs[l].Copy # Address
  BY <1>1, <1>3, AddressFacts
<1>5. id \in Nat /\ id <= n + 1
  BY SMT, <1>1, <1>2, <1>4
<1>6. /\ a \in Val /\ a.K = abs[s].K /\ a.Base = abs[s].Base /\ a.Off = abs[s].Off /\ a.Alias = s
      /\ a.Copy = id
  <2> DEFINE e == abs[s]
  <2>1. e \in Val
    BY <1>2
  <2> HIDE DEF id, e
  <2>2. /\ [e EXCEPT !.Alias = s, !.Copy = id] \in Val
        /\ [e EXCEPT !.Alias = s, !.Copy = id].K = e.K
        /\ [e EXCEPT !.Alias = s, !.Copy = id].Base = e.Base
        /\ [e EXCEPT !.Alias = s, !.Copy = id].Off = e.Off
        /\ [e EXCEPT !.Alias = s, !.Copy = id].Alias = s
        /\ [e EXCEPT !.Alias = s, !.Copy = id].Copy = id
    BY <1>5, <2>1 DEF Val
  <2> QED BY <2>2 DEF e
<1> HIDE DEF a
<1>7. Describes(a, val[s])
  BY <1>2, <1>6 DEF Describes
<1>8. a.Copy # 0 => \A m \in Loc \ {d} : Known(m) /\ abs[m].Copy = a.Copy => SameValue(val[s], val[m])
  BY <1>2, <1>4, <1>6
<1>9. SameValue(val[s], val[a.Alias]) /\ a.Copy <= n + 1
  BY <1>5, <1>6 DEF SameValue
<1> QED BY <1>1, <1>2, <1>3, <1>6, <1>7, <1>8, <1>9, WriteKeeps

(* A load from memory the pass does not track, and IMPLICIT_DEF.             *)
LEMMA PlainKeeps ==
  ASSUME Sound, NEW d \in Reg, (\E v \in Loaded : LoadMemory(d, v)) \/ ImplicitDef(d),
         n' = n + 1
  PROVE  Sound'
<1>1. n \in Nat /\ mk("NotFA") \in Val /\ mk("Bot") \in Val
      /\ mk("NotFA").K = "NotFA" /\ mk("NotFA").Alias = NoSlot /\ mk("NotFA").Copy = 0
  BY MkType DEF Sound, Typed, Kind
<1>2. ASSUME NEW v \in Loaded, LoadMemory(d, v) PROVE Sound'
  <2>1. v \in Value /\ ~v.own /\ v.lag = 0
    BY InputAssumption
  <2>2. Describes(mk("NotFA"), v)
    BY <1>1, <2>1 DEF Describes
  <2> QED BY SMT, <1>1, <1>2, <2>1, <2>2, WriteKeeps DEF LoadMemory
<1>3. CASE ImplicitDef(d)
  <2>1. Undef \in Value /\ Undef.k = "undef"
    BY SMT DEF Undef, Value
  <2>2. Describes(mk("Bot"), Undef)
    BY <2>1 DEF Describes
  <2> QED BY <1>1, <1>3, <2>1, <2>2, WriteKeeps DEF ImplicitDef
<1> QED BY <1>2, <1>3

(* An instruction the pass does not know: tainted if an operand is frameish. *)
LEMMA OtherKeeps ==
  ASSUME Sound, NEW d \in Reg, NEW src \in Reg \cup Slot, Other(d, src), n' = n + 1
  PROVE  Sound'
<1> DEFINE v == [k |-> "abs", o |-> val[src].o, own |-> val[src].own \/ val[d].own,
                 lag |-> val[src].lag + val[d].lag]
           a == OtherVal({abs[src], abs[d]})
<1>1. d \in Loc /\ src \in Loc /\ Readable(d) /\ Readable(src) /\ n \in Nat
  BY DEF Other, Loc, Sound, Typed
<1>2. Write(d, v, a)
  BY <1>1, ReadFacts, OperandFacts DEF Other
<1>3. \A l \in {d, src} : /\ val[l].o \in Int /\ val[l].lag \in Int /\ val[l].own \in BOOLEAN
                          /\ Describes(abs[l], val[l]) /\ Known(l) /\ abs[l].K \in Kind \ {"Bot"}
                          /\ (abs[l].K # "Taint" => val[l].lag = 0)
  BY ZenonT(30), <1>1, ReadFacts DEF Readable
<1>4. v \in Value /\ v.k = "abs" /\ v.own = (val[src].own \/ val[d].own) /\ v.lag = val[src].lag + val[d].lag
  BY SMT, <1>3 DEF Value
<1>5. /\ a \in Val /\ a.Alias = NoSlot /\ a.Copy = 0 /\ a.K \in {"NotFA", "Taint"}
      /\ a.K = "NotFA" => abs[src].K = "NotFA" /\ abs[d].K = "NotFA"
  BY <1>3, MkType DEF OtherVal, frameish, Kind
<1> HIDE DEF v, a
<1>6. a.K = "NotFA" => ~val[src].own /\ ~val[d].own
  BY <1>3, <1>5 DEF Describes, Known
<1>7. Describes(a, v)
  BY <1>4, <1>5, <1>6 DEF Describes
<1>8. a.K # "Taint" => v.lag = 0
  BY SMT, <1>3, <1>4, <1>5
<1> QED BY SMT, <1>1, <1>2, <1>4, <1>5, <1>7, <1>8, WriteKeeps
=============================================================================
