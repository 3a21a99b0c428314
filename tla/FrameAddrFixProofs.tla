------------------------ MODULE FrameAddrFixProofs ------------------------
(***************************************************************************)
(* Proofs about FrameAddrFix, second part: moves and stores, then FixInv  *)
(* is inductive, for every number of registers and slots, every frame, and *)
(* every sequence of instructions, join points, loops and calls.           *)
(***************************************************************************)
EXTENDS FrameAddrInstrProofs

(* The leaves are first-order reasoning for Zenon, where they do not name    *)
(* another prover.                                                           *)
USE Zenon

(* MOV: source and destination become one group of copies.                   *)
LEMMA MovKeeps ==
  ASSUME Sound, SitesTyped, NEW d \in Reg, NEW src \in Source, Mov(d, src), n' = n + 1, gaps' = {}
  PROVE  Sound'
<1> DEFINE w == Get(src)
           a == readReg(src)
           names == a.Copy = 0 /\ src # d
           id == IF names THEN Address ELSE a.Copy
           V == IF names THEN [a EXCEPT !.Copy = Address] ELSE a
<1>1. /\ CanUse(src) /\ d \in Loc /\ d \notin Slot /\ n \in Nat
      /\ val' = [val EXCEPT ![d] = w] /\ dead' = dead \ {d} /\ rsp' = rsp
      /\ abs' = [l \in Loc |-> IF l = d \/ l = src THEN V ELSE abs[l]]
      /\ Naming(d, names)
  BY LocAssumption DEF Mov, Loc, Sound, Typed
<1>2. /\ w \in Value /\ w.k \in {"abs", "stk"} /\ a \in Val /\ a.K \in Kind \ {"Bot"}
      /\ a.Copy \in Nat /\ a.Copy <= n /\ Describes(a, w) /\ (a.K # "Taint" => w.lag = 0)
      /\ (a.Alias # NoSlot => SameValue(w, val[a.Alias]))
      /\ (a.Copy # 0 => \A m \in Loc : Known(m) /\ abs[m].Copy = a.Copy => SameValue(w, val[m]))
  BY <1>1, SourceFacts
<1>3. src \in Loc => src \in Reg /\ val[src] = w /\ abs[src] = a /\ Readable(src)
  <2> SUFFICES ASSUME src \in Loc PROVE src \in Reg /\ val[src] = w /\ abs[src] = a /\ Readable(src)
    OBVIOUS
  <2>1. src \in Reg /\ src \notin FrameBase
    BY LocAssumption DEF Source, Loc
  <2>2. Readable(src) /\ w = val[src]
    BY <1>1, <2>1 DEF CanUse, Get
  <2> QED BY <2>1, <2>2, ReadFacts
<1>15. /\ Address \in Nat /\ Address <= n + 1
       /\ names => \A l \in Loc \ {d} : Known(l) => abs[l].Copy # Address
  BY <1>1, AddressFacts
<1> HIDE DEF w, a
<1>4. V \in Val /\ V.K = a.K /\ V.Base = a.Base /\ V.Off = a.Off /\ V.Alias = a.Alias /\ V.Copy = id
  BY SMT, <1>1, <1>2, <1>15 DEF Val
<1>5. id <= n + 1 /\ id \in Nat
  BY SMT, <1>1, <1>2, <1>15
<1> HIDE DEF V
<1>6. val \in [Loc -> Value] /\ abs \in [Loc -> Val]
  BY DEF Sound, Typed
<1>7. \A l \in Loc : /\ l = d \/ l = src => val'[l] = w /\ abs'[l] = V
                     /\ l # d /\ l # src => val'[l] = val[l] /\ abs'[l] = abs[l]
  BY <1>1, <1>3, <1>6
<1>8. \A s \in Slot : val'[s] = val[s] /\ s \in Loc
  BY <1>1, <1>6 DEF Loc
<1>9. Typed' /\ dead' \subseteq Csr \cup Spill
  BY SMTT(30), <1>1, <1>2, <1>4, <1>6 DEF Sound, Typed
<1>10. Current'
  <2> SUFFICES ASSUME NEW l \in Loc, l \notin dead', val'[l].k # "undef", abs'[l].K # "Taint"
               PROVE  val'[l].lag = 0
    BY DEF Current
  <2> QED BY SMT, <1>1, <1>2, <1>4, <1>7 DEF Sound, Current
<1>11. AllDescribed'
  <2> SUFFICES ASSUME NEW l \in Loc PROVE Describes(abs[l], val[l])'
    BY DEF AllDescribed
  <2>1. Describes(abs[l], val[l])
    BY DEF Sound, AllDescribed
  <2> QED BY SMT, <1>1, <1>2, <1>4, <1>7, <2>1 DEF Describes, Rel
<1>12. SlotCopies'
  <2> SUFFICES ASSUME NEW l \in Loc, val'[l].k # "undef", abs'[l].Alias # NoSlot
               PROVE  SameValue(val'[l], val'[abs'[l].Alias])
    BY DEF SlotCopies, Known
  <2>1. abs'[l].Alias \in Slot
    BY <1>9 DEF Typed, Val
  <2>2. SlotCopies
    BY DEF Sound
  <2> QED BY SMT, <1>2, <1>4, <1>7, <1>8, <2>1, <2>2 DEF SlotCopies, Known
<1>13. GroupCopies'
  <2>1. \A l \in Loc : Known(l) => abs[l].Copy <= n /\ abs[l].Copy \in Nat
    BY <1>6 DEF Sound, GroupCopies, Val
  <2>2. ASSUME NEW m \in Loc, m # d, m # src, val[m].k # "undef", id # 0, abs[m].Copy = id
        PROVE  SameValue(w, val[m])
    <3>1. ~names
      BY <1>15, <2>2 DEF Known
    <3> QED BY <1>2, <2>2, <3>1 DEF Known
  <2>3. ASSUME NEW l \in Loc, NEW m \in Loc, val'[l].k # "undef", val'[m].k # "undef",
               abs'[l].Copy # 0, abs'[l].Copy = abs'[m].Copy
        PROVE  SameValue(val'[l], val'[m])
    <3>1. CASE (l = d \/ l = src) /\ (m = d \/ m = src)
      BY <1>7, <3>1 DEF SameValue
    <3>2. CASE (l = d \/ l = src) /\ ~(m = d \/ m = src)
      BY <1>4, <1>7, <2>2, <2>3, <3>2
    <3>3. CASE ~(l = d \/ l = src) /\ (m = d \/ m = src)
      <4>1. SameValue(w, val[l])
        BY ZenonT(30), <1>4, <1>7, <2>2, <2>3, <3>3
      <4> QED BY <1>7, <3>3, <4>1 DEF SameValue
    <3>4. CASE ~(l = d \/ l = src) /\ ~(m = d \/ m = src)
      BY <1>7, <2>3, <3>4 DEF Sound, GroupCopies, Known
    <3> QED BY <3>1, <3>2, <3>3, <3>4
  <2>4. ASSUME NEW l \in Loc, val'[l].k # "undef" PROVE abs'[l].Copy <= n'
    BY SMT, <1>1, <1>4, <1>5, <1>7, <2>1, <2>4 DEF Known
  <2> QED BY <2>3, <2>4 DEF GroupCopies, Known
<1>14. RootsFixed'
  BY <1>8 DEF Sound, RootsFixed, Known, Slot
<1> QED BY <1>9, <1>10, <1>11, <1>12, <1>13, <1>14 DEF Sound

(* forgetAlias drops the alias and nothing else.                             *)
LEMMA ForgetFacts ==
  ASSUME abs \in [Loc -> Val], NEW s \in Slot, NEW l \in Loc
  PROVE  /\ forgetAlias(abs, s)[l] \in Val
         /\ forgetAlias(abs, s)[l].K = abs[l].K /\ forgetAlias(abs, s)[l].Base = abs[l].Base
         /\ forgetAlias(abs, s)[l].Off = abs[l].Off /\ forgetAlias(abs, s)[l].Copy = abs[l].Copy
         /\ forgetAlias(abs, s)[l].Alias = IF abs[l].Alias = s THEN NoSlot ELSE abs[l].Alias
  BY DEF forgetAlias, Val

(* MOV64mr to a slot: the slot joins the group of the register, and every    *)
(* register of the group becomes a copy of the slot.                         *)
LEMMA StoreKeeps ==
  ASSUME Sound, NEW s \in Slot, NEW r \in Reg, Store(s, r), n' = n + 1
  PROVE  Sound'
<1> DEFINE A == forgetAlias(abs, s)
           VR == IF A[r].K = "Bot" THEN mk("NotFA") ELSE A[r]
           copies == IF VR.Copy = 0 THEN {r} ELSE {l \in Reg : A[l].Copy = VR.Copy}
<1>1. /\ s \in Loc /\ r \in Loc /\ s \notin Reg /\ NoSlot \notin Slot /\ n \in Nat
      /\ val \in [Loc -> Value] /\ abs \in [Loc -> Val]
  BY LocAssumption DEF Loc, Sound, Typed
<1>2. /\ Readable(r) /\ (s \in Root => val[r].lag = 0) /\ val' = [val EXCEPT ![s] = val[r]]
      /\ abs' = [l \in Loc |-> IF l = s THEN [VR EXCEPT !.Alias = NoSlot]
                               ELSE IF l \in copies THEN [A[l] EXCEPT !.Alias = s] ELSE A[l]]
      /\ dead' = dead \ {s} /\ rsp' = rsp
  BY DEF Store
<1>3. \A l \in Loc : /\ A[l] \in Val /\ A[l].K = abs[l].K /\ A[l].Base = abs[l].Base
                     /\ A[l].Off = abs[l].Off /\ A[l].Copy = abs[l].Copy
                     /\ A[l].Alias = IF abs[l].Alias = s THEN NoSlot ELSE abs[l].Alias
  BY SMT, <1>1, ForgetFacts
<1>4. VR = A[r]
  <2>1. abs[r].K # "Bot"
    BY <1>1, <1>2 DEF Sound, AllDescribed, Describes, Readable, Known
  <2> QED BY <1>1, <1>3, <2>1
<1> HIDE DEF A, VR
<1>5. copies \subseteq Reg /\ copies \subseteq Loc /\ s \notin copies
  BY <1>1 DEF Loc
<1>6. \A l \in copies : l = r \/ (abs[l].Copy # 0 /\ abs[l].Copy = abs[r].Copy)
  BY <1>1, <1>3, <1>4, <1>5
<1> HIDE DEF copies
<1>7. \A l \in Loc :
        /\ l # s => /\ abs'[l].K = abs[l].K /\ abs'[l].Base = abs[l].Base
                    /\ abs'[l].Off = abs[l].Off /\ abs'[l].Copy = abs[l].Copy
                    /\ val'[l] = val[l]
                    /\ abs'[l].Alias = IF l \in copies THEN s
                                       ELSE IF abs[l].Alias = s THEN NoSlot ELSE abs[l].Alias
        /\ abs'[l] \in Val
  <2> SUFFICES ASSUME NEW l \in Loc
               PROVE  /\ l # s => /\ abs'[l].K = abs[l].K /\ abs'[l].Base = abs[l].Base
                                  /\ abs'[l].Off = abs[l].Off /\ abs'[l].Copy = abs[l].Copy
                                  /\ val'[l] = val[l]
                                  /\ abs'[l].Alias = IF l \in copies THEN s
                                       ELSE IF abs[l].Alias = s THEN NoSlot ELSE abs[l].Alias
                      /\ abs'[l] \in Val
    OBVIOUS
  <2>1. CASE l = s
    BY SMT, <1>1, <1>2, <1>3, <1>4, <2>1 DEF Val
  <2>2. CASE l # s /\ l \in copies
    <3>1. abs'[l] = [A[l] EXCEPT !.Alias = s]
      BY <1>2, <2>2
    <3> QED BY ZenonT(30), <1>1, <1>2, <1>3, <2>2, <3>1 DEF Val
  <2>3. CASE l # s /\ l \notin copies
    <3>1. abs'[l] = A[l]
      BY <1>2, <2>3
    <3> QED BY <1>1, <1>2, <1>3, <2>3, <3>1
  <2> QED BY <2>1, <2>2, <2>3
<1>8. /\ abs'[s].K = abs[r].K /\ abs'[s].Base = abs[r].Base /\ abs'[s].Off = abs[r].Off
      /\ abs'[s].Copy = abs[r].Copy /\ abs'[s].Alias = NoSlot /\ val'[s] = val[r]
  BY <1>1, <1>2, <1>3, <1>4 DEF Val
<1>9. Typed' /\ dead' \subseteq Csr \cup Spill
  <2>1. val' \in [Loc -> Value]
    BY <1>1, <1>2
  <2>2. DOMAIN abs' = Loc /\ abs' = [l \in DOMAIN abs' |-> abs'[l]]
    BY <1>2
  <2>3. abs' \in [Loc -> Val]
    BY <1>7, <2>2
  <2>4. rsp' \in Int /\ dead' \subseteq Loc /\ dead' \subseteq Csr \cup Spill /\ n' \in Nat
    BY SMT, <1>1, <1>2 DEF Sound, Typed
  <2> QED BY <2>1, <2>3, <2>4 DEF Typed
<1>10. r \notin dead /\ Known(r)
  BY <1>2 DEF Readable
<1>11. Current'
  <2> SUFFICES ASSUME NEW l \in Loc, l \notin dead', val'[l].k # "undef", abs'[l].K # "Taint"
               PROVE  val'[l].lag = 0
    BY DEF Current
  <2>1. CASE l = s
    BY <1>1, <1>8, <1>10, <2>1 DEF Sound, Current
  <2>2. CASE l # s
    <3>1. val'[l] = val[l] /\ abs'[l].K = abs[l].K
      BY <1>7, <2>2
    <3>2. l \notin dead
      BY <1>2, <2>2
    <3> QED BY <3>1, <3>2 DEF Sound, Current
  <2> QED BY <2>1, <2>2
<1>12. AllDescribed'
  <2> SUFFICES ASSUME NEW l \in Loc PROVE Describes(abs[l], val[l])'
    BY DEF AllDescribed
  <2>1. Describes(abs[l], val[l]) /\ Describes(abs[r], val[r])
    BY <1>1 DEF Sound, AllDescribed
  <2>2. PICK m \in {l, r} : /\ Describes(abs[m], val[m]) /\ val'[l] = val[m]
                            /\ abs'[l].K = abs[m].K /\ abs'[l].Base = abs[m].Base
                            /\ abs'[l].Off = abs[m].Off
    <3>1. CASE l = s
      BY <1>8, <2>1, <3>1
    <3>2. CASE l # s
      <4>1. /\ val'[l] = val[l] /\ abs'[l].K = abs[l].K /\ abs'[l].Base = abs[l].Base
            /\ abs'[l].Off = abs[l].Off
        BY <1>7, <3>2
      <4> QED BY <2>1, <4>1
    <3> QED BY <3>1, <3>2
  <2> QED BY <1>2, <2>2 DEF Describes, Rel
<1>13. \A l \in copies : Known(l) => SameValue(val[l], val[r])
  <2> SUFFICES ASSUME NEW l \in copies, Known(l) PROVE SameValue(val[l], val[r])
    OBVIOUS
  <2>1. CASE l = r
    BY <2>1 DEF SameValue
  <2>2. CASE l # r
    BY <1>1, <1>5, <1>6, <1>10, <2>2 DEF Sound, GroupCopies
  <2> QED BY <2>1, <2>2
<1>14. SlotCopies'
  <2> SUFFICES ASSUME NEW l \in Loc, val'[l].k # "undef", abs'[l].Alias # NoSlot
               PROVE  SameValue(val'[l], val'[abs'[l].Alias])
    BY DEF SlotCopies, Known
  <2>1. l # s
    BY <1>8
  <2>2. CASE l \in copies
    BY <1>7, <1>8, <1>13, <2>1, <2>2 DEF Known
  <2>3. CASE l \notin copies
    <3>1. abs'[l].Alias = abs[l].Alias /\ abs[l].Alias # s /\ abs[l].Alias \in Slot
      BY <1>1, <1>7, <2>1, <2>3 DEF Val
    <3>2. val'[abs[l].Alias] = val[abs[l].Alias]
      BY <1>7, <3>1 DEF Loc
    <3> QED BY <1>7, <2>1, <3>1, <3>2 DEF Sound, SlotCopies, Known
  <2> QED BY <2>2, <2>3
<1>15. GroupCopies'
  <2> DEFINE f == [l \in Loc |-> IF l = s THEN r ELSE l]
  <2>1. \A l \in Loc : f[l] \in Loc /\ val'[l] = val[f[l]] /\ abs'[l].Copy = abs[f[l]].Copy
    BY <1>1, <1>7, <1>8
  <2> HIDE DEF f
  <2>2. ASSUME NEW l \in Loc, NEW m \in Loc, val'[l].k # "undef", val'[m].k # "undef",
               abs'[l].Copy # 0, abs'[l].Copy = abs'[m].Copy
        PROVE  SameValue(val'[l], val'[m])
    BY SMT, <2>1, <2>2 DEF Sound, GroupCopies, Known
  <2>3. ASSUME NEW l \in Loc, val'[l].k # "undef" PROVE abs'[l].Copy <= n'
    <3>1. abs[f[l]].Copy <= n /\ abs[f[l]].Copy \in Nat
      BY <1>1, <2>1, <2>3 DEF Sound, GroupCopies, Known, Val
    <3> QED BY SMT, <1>1, <2>1, <3>1
  <2> QED BY <2>2, <2>3 DEF GroupCopies, Known
<1>16. RootsFixed'
  BY <1>1, <1>2, <1>7, <1>8 DEF Sound, RootsFixed, Known, Slot, Loc
<1> QED BY <1>9, <1>11, <1>12, <1>14, <1>15, <1>16 DEF Sound

(* A partial write of a spill slot: nothing is a copy of it any more.        *)
LEMMA StorePartKeeps ==
  ASSUME Sound, NEW s \in Spill, NEW r \in Reg, StorePart(s, r), n' = n + 1
  PROVE  Sound'
<1> DEFINE A == forgetAlias(abs, s)
           a == OtherVal({abs[s], readReg(r)})
           v == [k |-> IF Known(s) THEN "abs" ELSE "undef", o |-> val[s].o,
                 own |-> val[s].own \/ val[r].own, lag |-> val[s].lag + val[r].lag]
<1>1. /\ s \in Loc /\ s \in Slot /\ r \in Loc /\ s \notin Root /\ n \in Nat /\ r # s
      /\ val \in [Loc -> Value] /\ abs \in [Loc -> Val]
  BY LocAssumption DEF Loc, Slot, Sound, Typed
<1>2. /\ Readable(r) /\ val' = [val EXCEPT ![s] = v] /\ abs' = [A EXCEPT ![s] = a]
      /\ dead' = dead /\ rsp' = rsp
  BY <1>1 DEF StorePart
<1>3. \A l \in Loc : /\ A[l] \in Val /\ A[l].K = abs[l].K /\ A[l].Base = abs[l].Base
                     /\ A[l].Off = abs[l].Off /\ A[l].Copy = abs[l].Copy
                     /\ A[l].Alias = IF abs[l].Alias = s THEN NoSlot ELSE abs[l].Alias
  BY SMT, <1>1, ForgetFacts
<1>4. A \in [Loc -> Val]
  <2>1. DOMAIN A = Loc /\ A = [l \in Loc |-> A[l]]
    BY DEF forgetAlias
  <2> QED BY <1>3, <2>1
<1>5. /\ a \in Val /\ a.Alias = NoSlot /\ a.Copy = 0 /\ a.K \in {"Taint", "NotFA"}
      /\ a.K = "NotFA" => ~frameish(abs[s]) /\ ~frameish(abs[r])
  <2>1. readReg(r) = abs[r]
    BY <1>1, <1>2, ReadFacts
  <2> QED BY <2>1, MkType DEF OtherVal, Kind
<1>6. v \in Value /\ v.k = (IF Known(s) THEN "abs" ELSE "undef")
      /\ v.own = (val[s].own \/ val[r].own) /\ v.lag = val[s].lag + val[r].lag
  BY SMT, <1>1 DEF Value
<1> HIDE DEF A, a, v
<1>7. \A l \in Loc : l # s => /\ abs'[l] = A[l] /\ val'[l] = val[l]
  BY <1>1, <1>2, <1>4
<1>8. abs'[s] = a /\ val'[s] = v
  BY <1>1, <1>2, <1>4
<1>9. Typed' /\ dead' \subseteq Csr \cup Spill
  BY SMTT(30), <1>1, <1>2, <1>4, <1>5, <1>6 DEF Sound, Typed
<1>10. a.K = "NotFA" /\ Known(s) => ~val[s].own /\ ~val[r].own
  <2>1. Describes(abs[s], val[s]) /\ Describes(abs[r], val[r]) /\ Known(r)
    BY <1>1, <1>2 DEF Sound, AllDescribed, Readable
  <2>2. abs[s].K \in Kind /\ abs[r].K \in Kind
    BY <1>1 DEF Val
  <2> QED BY <1>5, <2>1, <2>2 DEF Describes, frameish, Known, Kind
<1>11. Current'
  <2> SUFFICES ASSUME NEW l \in Loc, l \notin dead', val'[l].k # "undef", abs'[l].K # "Taint"
               PROVE  val'[l].lag = 0
    BY DEF Current
  <2>1. CASE l = s
    <3>1. Known(s) /\ a.K = "NotFA" /\ s \notin dead /\ r \notin dead /\ Known(r)
      BY <1>2, <1>5, <1>6, <1>8, <2>1 DEF Readable
    <3>2. abs[s].K # "Taint" /\ abs[r].K # "Taint"
      BY <1>5, <3>1 DEF frameish
    <3>3. val[s].lag = 0 /\ val[r].lag = 0
      BY <1>1, <3>1, <3>2 DEF Sound, Current, Known
    <3> QED BY SMT, <1>6, <1>8, <2>1, <3>3
  <2>2. CASE l # s
    <3>1. val'[l] = val[l] /\ abs'[l].K = abs[l].K /\ l \notin dead
      BY <1>2, <1>3, <1>7, <2>2
    <3> QED BY <3>1 DEF Sound, Current
  <2> QED BY <2>1, <2>2
<1>12. AllDescribed'
  <2> SUFFICES ASSUME NEW l \in Loc PROVE Describes(abs[l], val[l])'
    BY DEF AllDescribed
  <2>1. CASE l = s
    BY <1>5, <1>6, <1>8, <1>10, <2>1, ZenonT(30) DEF Describes
  <2>2. CASE l # s
    <3>1. /\ val'[l] = val[l] /\ abs'[l].K = abs[l].K /\ abs'[l].Base = abs[l].Base
          /\ abs'[l].Off = abs[l].Off /\ Describes(abs[l], val[l])
      BY <1>3, <1>7, <2>2 DEF Sound, AllDescribed
    <3> QED BY <1>2, <3>1 DEF Describes, Rel
  <2> QED BY <2>1, <2>2
<1>13. SlotCopies'
  <2> SUFFICES ASSUME NEW l \in Loc, val'[l].k # "undef", abs'[l].Alias # NoSlot
               PROVE  SameValue(val'[l], val'[abs'[l].Alias])
    BY DEF SlotCopies, Known
  <2>1. l # s
    BY <1>5, <1>8
  <2>2. abs'[l].Alias = abs[l].Alias /\ abs[l].Alias # s /\ abs[l].Alias \in Slot
    BY <1>1, <1>3, <1>7, <2>1 DEF Val
  <2>3. val'[abs[l].Alias] = val[abs[l].Alias] /\ val'[l] = val[l]
    BY <1>7, <2>1, <2>2 DEF Loc
  <2> QED BY <2>2, <2>3 DEF Sound, SlotCopies, Known
<1>14. GroupCopies'
  <2>1. ASSUME NEW l \in Loc, NEW m \in Loc, val'[l].k # "undef", val'[m].k # "undef",
               abs'[l].Copy # 0, abs'[l].Copy = abs'[m].Copy
        PROVE  SameValue(val'[l], val'[m])
    <3>1. l # s /\ m # s
      BY <1>5, <1>8, <2>1
    <3>2. /\ val'[l] = val[l] /\ val'[m] = val[m] /\ abs'[l].Copy = abs[l].Copy
          /\ abs'[m].Copy = abs[m].Copy
      BY <1>3, <1>7, <3>1
    <3> QED BY <2>1, <3>2 DEF Sound, GroupCopies, Known
  <2>2. ASSUME NEW l \in Loc, val'[l].k # "undef" PROVE abs'[l].Copy <= n'
    <3>1. CASE l = s
      BY SMT, <1>1, <1>5, <1>8, <3>1
    <3>2. CASE l # s
      <4>1. val'[l] = val[l] /\ abs'[l].Copy = abs[l].Copy /\ abs[l].Copy \in Nat
        BY <1>1, <1>3, <1>7, <3>2 DEF Val
      <4>2. abs[l].Copy <= n
        BY <2>2, <4>1 DEF Sound, GroupCopies, Known
      <4> QED BY SMT, <1>1, <4>1, <4>2
    <3> QED BY <3>1, <3>2
  <2> QED BY <2>1, <2>2 DEF GroupCopies, Known
<1>15. RootsFixed'
  BY <1>1, <1>7 DEF Sound, RootsFixed, Known, Slot, Loc
<1> QED BY <1>9, <1>11, <1>12, <1>13, <1>14, <1>15 DEF Sound

(* A step that changes abstract values only, to ones that say no more.       *)
LEMMA WeakenKeeps ==
  ASSUME Sound, n' \in {n, n + 1}, val' = val, dead' = dead, rsp' \in Int,
         abs' \in [Loc -> Val],
         \A l \in Loc : Known(l) => /\ Describes(abs[l], val[l])'
                                    /\ abs[l].K = "Taint" => abs'[l].K = "Taint"
                                    /\ abs'[l].Alias \in {abs[l].Alias, NoSlot}
                                    /\ abs'[l].Copy \in {abs[l].Copy, 0}
  PROVE  Sound'
<1>1. n \in Nat /\ abs \in [Loc -> Val]
  BY DEF Sound, Typed
<1>2. Typed' /\ dead' \subseteq Csr \cup Spill
  BY SMT DEF Sound, Typed
<1>3. Current'
  BY DEF Sound, Current, Known
<1>4. AllDescribed'
  <2> SUFFICES ASSUME NEW l \in Loc PROVE Describes(abs[l], val[l])'
    BY DEF AllDescribed
  <2>1. CASE val[l].k = "undef"
    BY <2>1 DEF Describes
  <2>2. CASE val[l].k # "undef"
    BY <2>2 DEF Known
  <2> QED BY <2>1, <2>2
<1>5. SlotCopies'
  BY DEF Sound, SlotCopies, Known
<1>6. GroupCopies'
  <2>1. \A l \in Loc : Known(l) => abs[l].Copy <= n /\ abs[l].Copy \in Nat
    BY <1>1 DEF Sound, GroupCopies, Val
  <2>2. \A l \in Loc : Known(l) => abs'[l].Copy <= n'
    BY SMT, <1>1, <2>1
  <2>3. ASSUME NEW l \in Loc, NEW m \in Loc, Known(l), Known(m),
               abs'[l].Copy # 0, abs'[l].Copy = abs'[m].Copy
        PROVE  SameValue(val[l], val[m])
    BY <2>3 DEF Sound, GroupCopies
  <2> QED BY <2>2, <2>3 DEF GroupCopies, Known
<1>7. RootsFixed'
  BY DEF Sound, RootsFixed, Known
<1> QED BY <1>2, <1>3, <1>4, <1>5, <1>6, <1>7 DEF Sound

(* RSP is written: what was RSP plus a constant is no more, by               *)
(* invalidateBase, than some address of the frame.                           *)
LEMMA SetRspKeeps ==
  ASSUME Sound, NEW o \in RspOffs, SetRsp(o), n' = n + 1
  PROVE  Sound'
<1>1. /\ abs \in [Loc -> Val] /\ o \in Int /\ val' = val /\ dead' = dead /\ rsp' = o
      /\ abs' = [l \in Loc |-> IF abs[l].K = "FA" /\ abs[l].Base = "rsp" THEN mk("D1") ELSE abs[l]]
  BY InputAssumption DEF Sound, Typed, SetRsp, invalidateBase
<1>2. mk("D1") \in Val /\ mk("D1").K = "D1" /\ mk("D1").Alias = NoSlot /\ mk("D1").Copy = 0
  BY MkType DEF Kind
<1>3. abs' \in [Loc -> Val]
  BY <1>1, <1>2
<1>4. ASSUME NEW l \in Loc, Known(l)
      PROVE  /\ Describes(abs[l], val[l])'
             /\ abs[l].K = "Taint" => abs'[l].K = "Taint"
             /\ abs'[l].Alias \in {abs[l].Alias, NoSlot}
             /\ abs'[l].Copy \in {abs[l].Copy, 0}
  <2>1. Describes(abs[l], val[l]) /\ abs[l] \in Val
    BY <1>1 DEF Sound, AllDescribed
  <2>2. CASE abs[l].K = "FA" /\ abs[l].Base = "rsp"
    <3>1. abs'[l] = mk("D1")
      BY <1>1, <2>2
    <3> QED BY <1>1, <1>2, <2>1, <2>2, <3>1 DEF Describes
  <2>3. CASE ~(abs[l].K = "FA" /\ abs[l].Base = "rsp")
    <3>1. abs'[l] = abs[l]
      BY <1>1, <2>3
    <3> QED BY <1>1, <2>1, <2>3, <3>1 DEF Describes, Rel
  <2> QED BY <2>2, <2>3
<1> QED BY <1>1, <1>3, <1>4, WeakenKeeps

(* A join point: join says no more than either side.                         *)
LEMMA MergeKeeps ==
  ASSUME Sound, NEW l \in Loc, NEW w \in Others, Merge(l, w), n' = n + 1
  PROVE  Sound'
<1>1. /\ abs \in [Loc -> Val] /\ w \in Val /\ rsp \in Int /\ abs[l] \in Val
      /\ abs' = [abs EXCEPT ![l] = join(abs[l], w)] /\ val' = val /\ dead' = dead /\ rsp' = rsp
  BY InputAssumption DEF Sound, Typed, Merge
<1>2. join(abs[l], w) \in Val
  BY <1>1, JoinSound
<1>3. abs' \in [Loc -> Val]
  BY <1>1, <1>2
<1>4. ASSUME NEW m \in Loc, Known(m)
      PROVE  /\ Describes(abs[m], val[m])'
             /\ abs[m].K = "Taint" => abs'[m].K = "Taint"
             /\ abs'[m].Alias \in {abs[m].Alias, NoSlot}
             /\ abs'[m].Copy \in {abs[m].Copy, 0}
  <2>1. Describes(abs[m], val[m]) /\ abs[m].K # "Bot"
    BY <1>4 DEF Sound, AllDescribed, Describes, Known
  <2>2. CASE m = l
    <3>1. abs'[m] = join(abs[l], w)
      BY <1>1, <2>2
    <3>2. Describes(join(abs[l], w), val[m])
      BY <1>1, <2>1, <2>2, JoinSound
    <3>3. /\ join(abs[l], w).Alias \in {abs[l].Alias, NoSlot}
          /\ join(abs[l], w).Copy \in {abs[l].Copy, 0}
          /\ abs[l].K = "Taint" => join(abs[l], w).K = "Taint"
      BY <1>1, <2>1, <2>2, JoinSound
    <3>4. Describes(abs[m], val[m])'
      BY <1>1, <3>1, <3>2 DEF Describes, Rel
    <3> QED BY <2>2, <3>1, <3>3, <3>4
  <2>3. CASE m # l
    BY <1>1, <2>1, <2>3 DEF Describes, Rel
  <2> QED BY <2>2, <2>3
<1> QED BY <1>1, <1>3, <1>4, WeakenKeeps

(* The back edge of a loop is a join point as well, of all locations.        *)
LEMMA AgainKeeps ==
  ASSUME Sound, SitesTyped, NEW id \in 1 .. n, n < MaxSteps, Again(id)
  PROVE  Sound'
<1> DEFINE S == site[id].State
<1>1. /\ abs \in [Loc -> Val] /\ rsp \in Int /\ n \in Nat
      /\ abs' = [l \in Loc |-> join(abs[l], S[l])]
      /\ val' = val /\ dead' = dead /\ rsp' = rsp /\ n' = n
  BY DEF Sound, Typed, Again
<1>2. id \in 1 .. MaxSteps
  BY SMT, <1>1, InputAssumption
<1>3. S \in [Loc -> Val]
  <2>1. site[id] \in [instr : Instr, State : [Loc -> Val]]
    BY <1>2 DEF SitesTyped
  <2> QED BY <2>1
<1> HIDE DEF S
<1>4. \A l \in Loc : abs[l] \in Val /\ S[l] \in Val
  BY <1>1, <1>3
<1>5. abs' \in [Loc -> Val]
  BY <1>1, <1>4, JoinSound
<1>6. ASSUME NEW m \in Loc, Known(m)
      PROVE  /\ Describes(abs[m], val[m])'
             /\ abs[m].K = "Taint" => abs'[m].K = "Taint"
             /\ abs'[m].Alias \in {abs[m].Alias, NoSlot}
             /\ abs'[m].Copy \in {abs[m].Copy, 0}
  <2>1. Describes(abs[m], val[m]) /\ abs[m].K # "Bot"
    BY <1>6 DEF Sound, AllDescribed, Describes, Known
  <2>2. abs'[m] = join(abs[m], S[m]) /\ abs[m] \in Val /\ S[m] \in Val
    BY <1>1, <1>4
  <2>3. /\ Describes(join(abs[m], S[m]), val[m])
        /\ join(abs[m], S[m]).Alias \in {abs[m].Alias, NoSlot}
        /\ join(abs[m], S[m]).Copy \in {abs[m].Copy, 0}
        /\ abs[m].K = "Taint" => join(abs[m], S[m]).K = "Taint"
    BY <2>1, <2>2, JoinSound
  <2>4. Describes(abs[m], val[m])'
    BY <1>1, <2>2, <2>3 DEF Describes, Rel
  <2> QED BY <2>2, <2>3, <2>4
<1>7. n' \in {n, n + 1}
  BY <1>1
<1> QED BY <1>1, <1>5, <1>6, <1>7, WeakenKeeps

(* The fields of a value that has got other bits: at most lag differs.       *)
LEMMA HoldingFacts ==
  ASSUME NEW v \in Value, NEW w \in Value
  PROVE  /\ Holding(v, w) \in Value /\ Holding(v, w).k = v.k /\ Holding(v, w).o = v.o
         /\ Holding(v, w).own = v.own
         /\ Holding(v, w).lag = IF v.k = w.k THEN v.o - (w.o - w.lag) ELSE 1
  BY SMT DEF Holding, Value

(* The same for the copier moving the stack, which leaves lag of any value   *)
(* that is not an address on it.                                             *)
LEMMA MovedFacts ==
  ASSUME NEW v \in Value, NEW delta \in Int
  PROVE  /\ Moved(v, delta) \in Value /\ Moved(v, delta).k = v.k /\ Moved(v, delta).o = v.o
         /\ Moved(v, delta).own = v.own
         /\ Moved(v, delta).lag = IF v.k = "stk" THEN v.lag + delta ELSE v.lag
  BY SMT DEF Moved, Value

(* The same for the repair that adds the distance of the move.               *)
LEMMA RebasedFacts ==
  ASSUME NEW v \in Value, NEW delta \in Int
  PROVE  /\ [v EXCEPT !.lag = @ - delta] \in Value
         /\ [v EXCEPT !.lag = @ - delta].k = v.k /\ [v EXCEPT !.lag = @ - delta].o = v.o
         /\ [v EXCEPT !.lag = @ - delta].own = v.own
         /\ [v EXCEPT !.lag = @ - delta].lag = v.lag - delta
  BY SMT DEF Value

(* The address the repair of an FA location recomputes, base + off.          *)
LEMMA BaseFacts ==
  ASSUME rsp \in Int, NEW base \in FrameBase, NEW off \in Int
  PROVE  LET b == Plus(BaseValue(base), off)
         IN b \in Value /\ b.k = "stk" /\ b.o = Rel(base) + off /\ b.lag = 0
<1> DEFINE w == BaseValue(base)
<1>1. w \in Value /\ w.k = "stk" /\ w.o = Rel(base) /\ w.lag = 0 /\ Rel(base) \in Int
  BY SMT DEF BaseValue, Rel, Value
<1> HIDE DEF w
<1>2. Plus(w, off) \in Value /\ Plus(w, off).k = w.k /\ Plus(w, off).lag = w.lag
      /\ Plus(w, off).o = w.o + off
  BY SMT, <1>1 DEF Plus, Value
<1> QED BY <1>1, <1>2 DEF w

(* What the call leaves in a location before any repair: the copier adjusts  *)
(* the roots, and every other address lags by the distance of the move.      *)
LEMMA MoveFacts ==
  ASSUME Sound, NEW l \in Loc \ Tmp, NEW delta \in Int
  PROVE  /\ AfterMove(l, delta) \in Value /\ SameValue(AfterMove(l, delta), val[l])
         /\ l \in Root /\ Known(l) => AfterMove(l, delta).lag = 0
         /\ l \notin Root => AfterMove(l, delta).lag = IF val[l].k = "stk" THEN val[l].lag + delta
                                                       ELSE val[l].lag
<1>1. val[l] \in Value
  BY DEF Sound, Typed
<1>2. l \in Root /\ Known(l) => val[l].lag = 0
  BY DEF Sound, RootsFixed
<1> DEFINE m == AfterMove(l, delta)
<1>3. CASE l \in Root /\ val[l].lag = 0
  <2>1. m = val[l]
    BY <1>3 DEF AfterMove, Adjusted
  <2> QED BY <1>1, <1>3, <2>1, LocAssumption DEF SameValue, Slot, Reg, Loc
<1>4. CASE ~(l \in Root /\ val[l].lag = 0)
  <2>1. m = Moved(val[l], delta)
    BY <1>4 DEF AfterMove, Adjusted
  <2>2. /\ m \in Value /\ m.k = val[l].k /\ m.o = val[l].o /\ m.own = val[l].own
        /\ m.lag = IF val[l].k = "stk" THEN val[l].lag + delta ELSE val[l].lag
    BY SMT, <1>1, <2>1, MovedFacts
  <2> HIDE DEF m
  <2>3. SameValue(m, val[l])
    BY ZenonT(30), <2>2 DEF SameValue
  <2> QED BY <1>2, <1>4, <2>2, <2>3 DEF m
<1> QED BY <1>3, <1>4

(* The repair code never changes what a location is meant to hold, and never *)
(* touches a value that is no address of the stack.                          *)
LEMMA RepairKeepsValue ==
  ASSUME Sound, NEW l \in Loc \ Tmp, NEW delta \in Int, NEW live \in SUBSET (Csr \cup Spill)
  PROVE  Repaired(l, delta, live) \in Value /\ SameValue(Repaired(l, delta, live), val[l])
<1> DEFINE m == AfterMove(l, delta)
           v == IF l \in Reloaded(live) THEN Holding(m, AfterMove(abs[l].Alias, delta)) ELSE m
<1>1. m \in Value /\ SameValue(m, val[l])
  BY MoveFacts
<1>2. Describes(abs[l], val[l]) /\ abs[l] \in Val /\ val[l] \in Value /\ rsp \in Int
  BY DEF Sound, AllDescribed, Typed
<1>3. v \in Value /\ SameValue(v, val[l])
  <2>1. CASE l \notin Reloaded(live)
    BY <1>1, <2>1
  <2>2. CASE l \in Reloaded(live)
    <3> DEFINE s == abs[l].Alias
               w == AfterMove(s, delta)
    <3>1. s \in Slot /\ s # NoSlot
      BY <1>2, <2>2, LocAssumption DEF Reloaded, aliasesCopiedRoot, Val, Slot, Loc
    <3>2. s \in Loc \ Tmp
      BY <3>1, LocAssumption DEF Loc, Reg
    <3>3. w \in Value /\ SameValue(w, val[s])
      BY <3>2, MoveFacts
    <3>4. Known(l) => SameValue(val[l], val[s])
      BY <3>1 DEF Sound, SlotCopies
    <3>5. v = Holding(m, w)
      BY <2>2
    <3> HIDE DEF m, w, s, v
    <3>6. v \in Value /\ v.k = m.k /\ v.o = m.o /\ v.own = m.own
          /\ v.lag = IF m.k = w.k THEN m.o - (w.o - w.lag) ELSE 1
      BY <1>1, <3>3, <3>5, HoldingFacts
    <3>7. m.k = "abs" => v.lag = m.lag
      BY SMT, <1>1, <3>3, <3>4, <3>6 DEF SameValue, Known, Value
    <3> QED BY <1>1, <3>6, <3>7 DEF SameValue
  <2> QED BY <2>1, <2>2
<1> HIDE DEF m, v
<1>4. repairable(abs[l]) => fixReg(abs[l], v, delta) \in Value /\ SameValue(fixReg(abs[l], v, delta), v)
  <2>1. CASE abs[l].K = "FA"
    <3> DEFINE b == Plus(BaseValue(abs[l].Base), abs[l].Off)
    <3>1. b \in Value
      <4>1. abs[l].Off \in Int /\ abs[l].Base \in FrameBase
        BY <1>2 DEF Val
      <4> QED BY <1>2, <4>1, BaseFacts
    <3>2. fixReg(abs[l], v, delta) = Holding(v, b)
      BY <2>1 DEF fixReg
    <3>3. v.k # "abs"
      BY <1>2, <1>3, <2>1 DEF Describes, SameValue
    <3> HIDE DEF b
    <3>4. /\ Holding(v, b) \in Value /\ Holding(v, b).k = v.k /\ Holding(v, b).o = v.o
          /\ Holding(v, b).own = v.own
      BY <1>3, <3>1, HoldingFacts
    <3> QED BY <3>2, <3>3, <3>4 DEF SameValue
  <2>2. CASE abs[l].K = "D1"
    <3>1. fixReg(abs[l], v, delta) = [v EXCEPT !.lag = @ - delta]
      BY <2>2 DEF fixReg
    <3>2. v.k # "abs"
      BY <1>2, <1>3, <2>2 DEF Describes, SameValue
    <3> DEFINE x == [v EXCEPT !.lag = @ - delta]
    <3>3. x \in Value /\ x.k = v.k /\ x.o = v.o /\ x.own = v.own
      BY <1>3, RebasedFacts
    <3> HIDE DEF x
    <3>4. fixReg(abs[l], v, delta) = x
      BY <3>1 DEF x
    <3> QED BY <3>2, <3>3, <3>4 DEF SameValue
  <2>3. CASE abs[l].K = "MS"
    <3>1. fixReg(abs[l], v, delta) = IF v.k = "stk" /\ InFrame(v.o - v.lag + delta)
                                     THEN [v EXCEPT !.lag = @ - delta] ELSE v
      BY <2>3 DEF fixReg
    <3> DEFINE x == [v EXCEPT !.lag = @ - delta]
    <3>2. x \in Value /\ x.k = v.k /\ x.o = v.o /\ x.own = v.own
      BY <1>3, RebasedFacts
    <3>3. fixReg(abs[l], v, delta) = IF v.k = "stk" /\ InFrame(v.o - v.lag + delta) THEN x ELSE v
      BY <3>1
    <3> HIDE DEF x
    <3>4. CASE v.k = "stk" /\ InFrame(v.o - v.lag + delta)
      BY <3>2, <3>3, <3>4 DEF SameValue
    <3>5. CASE ~(v.k = "stk" /\ InFrame(v.o - v.lag + delta))
      BY <1>3, <3>3, <3>5 DEF SameValue
    <3> QED BY <3>4, <3>5
  <2> QED BY <2>1, <2>2, <2>3 DEF repairable
<1>5. Repaired(l, delta, live) = IF l \in Repairs(live) /\ (NeedDelta(live) => delta # 0)
                                 THEN fixReg(abs[l], v, delta) ELSE v
  BY DEF Repaired, v, m
<1>6. l \in Repairs(live) => repairable(abs[l])
  BY DEF Repairs
<1> QED BY <1>3, <1>4, <1>5, <1>6 DEF SameValue

(* What the repair is for: after it, a location that liveness says is read   *)
(* again holds exactly what it is meant to hold, unless it is tainted.       *)
LEMMA RepairCurrent ==
  ASSUME Sound, NEW delta \in Int, NEW live \in SUBSET ((Csr \cup Spill) \ dead),
         \A m \in live : val[m].k = "stk" /\ ~val[m].own => m \in Csr /\ aliasesCopiedRoot(abs[m]),
         ~PastEnd(delta, live), NEW l \in live, Known(l), abs[l].K # "Taint"
  PROVE  Repaired(l, delta, live).lag = 0
<1> DEFINE m == AfterMove(l, delta)
           R == Repaired(l, delta, live)
<1>1. l \in Loc \ Tmp /\ l \notin dead /\ l \notin Root /\ (l \in Csr => l \notin Spill) /\ l \in Csr \cup Spill
  BY LocAssumption DEF Loc, Reg, Slot
<1>2. /\ Describes(abs[l], val[l]) /\ abs[l] \in Val /\ val[l] \in Value /\ rsp \in Int
      /\ val[l].lag = 0
  BY <1>1 DEF Sound, AllDescribed, Typed, Current, Known
<1>3. m \in Value /\ SameValue(m, val[l]) /\ m.lag = IF val[l].k = "stk" THEN delta ELSE 0
  BY SMT, <1>1, <1>2, MoveFacts
<1>4. abs[l].K \in {"NotFA", "FA", "D1", "MS"} /\ val[l].k \in {"abs", "stk"}
  BY <1>2 DEF Describes, Known, Val, Kind, Value
<1> HIDE DEF m
<1>5. CASE l \in Csr /\ aliasesCopiedRoot(abs[l])
  <2> DEFINE s == abs[l].Alias
             w == AfterMove(s, delta)
  <2>1. s \in Root /\ s # NoSlot /\ s \in Loc \ Tmp
    BY <1>5, LocAssumption DEF aliasesCopiedRoot, Slot, Loc, Reg
  <2>2. SameValue(val[l], val[s]) /\ Known(s)
    BY <1>1, <2>1 DEF Sound, SlotCopies, SameValue, Known
  <2>3. w \in Value /\ SameValue(w, val[s]) /\ w.lag = 0
    BY <2>1, <2>2, MoveFacts
  <2>4. l \in Reloaded(live) /\ l \notin Repairs(live)
    BY <1>1, <1>5 DEF Reloaded, Repairs
  <2>5. R = Holding(m, w)
    BY <2>4 DEF Repaired, m
  <2> HIDE DEF R, w, s
  <2>6. R.lag = IF m.k = w.k THEN m.o - (w.o - w.lag) ELSE 1
    BY <1>3, <2>3, <2>5, HoldingFacts
  <2>7. m.k = w.k /\ m.o = w.o /\ m.o \in Int
    BY <1>3, <2>2, <2>3 DEF SameValue, Value
  <2>8. R.lag = 0
    BY SMT, <2>3, <2>6, <2>7
  <2> QED BY <2>8 DEF R
<1>6. CASE ~(l \in Csr /\ aliasesCopiedRoot(abs[l])) /\ ~repairable(abs[l])
  <2>1. abs[l].K = "NotFA" /\ ~val[l].own
    BY <1>2, <1>4, <1>6 DEF repairable, Describes
  <2>2. val[l].k = "abs"
    BY <1>4, <1>6, <2>1
  <2>3. SameValue(R, val[l])
    BY <1>1, RepairKeepsValue
  <2> QED BY <1>2, <2>2, <2>3 DEF SameValue
<1>7. CASE ~(l \in Csr /\ aliasesCopiedRoot(abs[l])) /\ repairable(abs[l])
  <2>1. l \in Repairs(live) /\ l \notin Reloaded(live)
    BY <1>1, <1>7, LocAssumption DEF Repairs, Reloaded
  <2>2. val[l].k = "stk" => val[l].own
    BY <1>7
  <2>3. R = IF NeedDelta(live) => delta # 0 THEN fixReg(abs[l], m, delta) ELSE m
    BY <2>1 DEF Repaired, m
  <2> HIDE DEF R
  <2>4. CASE ~(NeedDelta(live) => delta # 0)
    BY <1>3, <2>3, <2>4 DEF R
  <2>5. CASE (NeedDelta(live) => delta # 0) /\ abs[l].K = "FA"
    <3> DEFINE b == Plus(BaseValue(abs[l].Base), abs[l].Off)
    <3>1. abs[l].Off \in Int /\ abs[l].Base \in FrameBase
      BY <1>2 DEF Val
    <3>2. b \in Value /\ b.k = "stk" /\ b.o = Rel(abs[l].Base) + abs[l].Off /\ b.lag = 0
      BY <1>2, <3>1, BaseFacts
    <3>3. R = Holding(m, b)
      BY <2>3, <2>5 DEF fixReg
    <3> HIDE DEF b
    <3>4. R.lag = IF m.k = b.k THEN m.o - (b.o - b.lag) ELSE 1
      BY <1>3, <3>2, <3>3, HoldingFacts
    <3>5. m.k = b.k /\ m.o = b.o /\ m.o \in Int
      BY <1>2, <1>3, <1>4, <2>5, <3>2 DEF Describes, SameValue, Value
    <3>6. R.lag = 0
      BY SMT, <3>2, <3>4, <3>5
    <3> QED BY <3>6 DEF R
  <2>6. CASE (NeedDelta(live) => delta # 0) /\ abs[l].K = "D1"
    <3>1. R = [m EXCEPT !.lag = @ - delta]
      BY <2>3, <2>6 DEF fixReg
    <3>2. m.lag = delta
      BY <1>2, <1>3, <1>4, <2>6 DEF Describes
    <3>3. R.lag = 0
      BY SMT, <1>3, <3>1, <3>2, RebasedFacts
    <3> QED BY <3>3 DEF R
  <2>7. CASE (NeedDelta(live) => delta # 0) /\ abs[l].K = "MS"
    <3>1. R = IF m.k = "stk" /\ InFrame(m.o - m.lag + delta)
              THEN [m EXCEPT !.lag = @ - delta] ELSE m
      BY <2>3, <2>7 DEF fixReg
    <3>2. CASE val[l].k = "abs"
      BY <1>3, <3>1, <3>2 DEF R, SameValue
    <3>3. CASE val[l].k = "stk"
      <4>1. m.k = "stk" /\ m.lag = delta /\ m.o = val[l].o /\ m.o \in Int
        BY <1>3, <3>3 DEF SameValue, Value
      <4>2. InFrame(val[l].o)
        <5>1. delta # 0
          BY <2>1, <2>7 DEF NeedDelta
        <5> QED BY <2>1, <2>2, <2>7, <3>3, <5>1 DEF PastEnd
      <4>3. InFrame(m.o - m.lag + delta)
        <5>1. m.o - m.lag + delta = val[l].o
          BY SMT, <4>1
        <5> QED BY <4>2, <5>1
      <4>4. R = [m EXCEPT !.lag = @ - delta]
        BY <3>1, <4>1, <4>3
      <4>5. R.lag = 0
        BY SMT, <1>3, <4>1, <4>4, RebasedFacts
      <4> QED BY <4>5 DEF R
    <3> QED BY <1>4, <3>2, <3>3
  <2> QED BY <1>7, <2>4, <2>5, <2>6, <2>7 DEF repairable
<1> QED BY <1>5, <1>6, <1>7

(* A call that moved the stack, with the code runOnMachineFunction inserts.  *)
LEMMA CallKeeps ==
  ASSUME Sound, NEW delta \in Deltas, NEW live \in SUBSET ((Csr \cup Spill) \ dead),
         NEW r \in Tmp, NEW res \in Loaded, Call(delta, live, r, res), n' = n + 1, gaps' = {}
  PROVE  Sound'
<1>1. /\ delta \in Int /\ n \in Nat /\ rsp \in Int /\ r \in Loc /\ r \notin Csr \cup Spill \cup Root
      /\ abs \in [Loc -> Val] /\ val \in [Loc -> Value] /\ res \in Value /\ ~res.own /\ res.lag = 0
      /\ res.k # "undef" /\ dead \subseteq Csr \cup Spill
  BY InputAssumption, LocAssumption DEF Sound, Typed, Loc, Reg, Slot
<1>2. /\ \A m \in live : val[m].k = "stk" /\ ~val[m].own => m \in Csr /\ aliasesCopiedRoot(abs[m])
      /\ val' = [l \in Loc |-> IF l = r THEN res ELSE Repaired(l, delta, live)]
      /\ abs' = [l \in Loc |-> IF l = r THEN mk("NotFA") ELSE IF l \in Tmp THEN mk("Bot") ELSE abs[l]]
      /\ dead' = (dead \cup Csr \cup Spill) \ live /\ rsp' = rsp
  BY DEF Call, stepCall
<1>16. ~PastEnd(delta, live)
  <2>1. "end" \notin gaps'
    OBVIOUS
  <2> QED BY <2>1 DEF Call
<1>3. /\ mk("NotFA") \in Val /\ mk("Bot") \in Val
      /\ mk("NotFA").K = "NotFA" /\ mk("NotFA").Alias = NoSlot /\ mk("NotFA").Copy = 0
  BY MkType DEF Kind
<1>4. val'[r] = res /\ abs'[r] = mk("NotFA")
  BY <1>1, <1>2
<1>5. \A l \in Loc : l \in Tmp /\ l # r => val'[l] = Undef
  <2> SUFFICES ASSUME NEW l \in Tmp, l \in Loc, l # r PROVE val'[l] = Undef
    OBVIOUS
  <2>1. l \notin Reloaded(live) /\ l \notin Repairs(live)
    BY LocAssumption DEF Reloaded, Repairs, Reg, Slot
  <2>2. Repaired(l, delta, live) = Undef
    BY <2>1 DEF Repaired, AfterMove
  <2> QED BY <1>2, <2>2
<1>6. Undef \in Value /\ Undef.k = "undef"
  BY SMT DEF Undef, Value
<1>7. \A l \in Loc \ Tmp : /\ abs'[l] = abs[l] /\ val'[l] = Repaired(l, delta, live)
                           /\ val'[l] \in Value /\ SameValue(val'[l], val[l])
  <2> SUFFICES ASSUME NEW l \in Loc \ Tmp
               PROVE  /\ abs'[l] = abs[l] /\ val'[l] = Repaired(l, delta, live)
                      /\ val'[l] \in Value /\ SameValue(val'[l], val[l])
    OBVIOUS
  <2>1. abs'[l] = abs[l] /\ val'[l] = Repaired(l, delta, live)
    BY <1>2
  <2> QED BY SMTT(30), <1>1, <2>1, RepairKeepsValue
<1>8. Typed' /\ dead' \subseteq Csr \cup Spill
  <2>1. \A l \in Loc : val'[l] \in Value
    BY <1>1, <1>4, <1>5, <1>6, <1>7
  <2>2. val' \in [Loc -> Value]
    BY <1>2, <2>1
  <2>3. abs' \in [Loc -> Val]
    BY <1>1, <1>2, <1>3
  <2>4. dead' \subseteq Csr \cup Spill
    BY <1>1, <1>2
  <2> QED BY SMT, <1>1, <1>2, <2>2, <2>3, <2>4 DEF Typed, Loc, Reg, Slot
<1>9. RootsFixed'
  <2> SUFFICES ASSUME NEW s \in Root, val'[s].k # "undef" PROVE val'[s].lag = 0
    BY DEF RootsFixed, Known
  <2>1. s \in Loc \ Tmp /\ s \notin Reloaded(live) /\ s \notin Repairs(live)
    BY LocAssumption DEF Loc, Reg, Slot, Reloaded, Repairs
  <2>2. val'[s] = AfterMove(s, delta)
    BY <1>7, <2>1 DEF Repaired
  <2>3. Known(s)
    BY <1>7, <2>1 DEF SameValue, Known
  <2> QED BY <1>1, <2>1, <2>2, <2>3, MoveFacts
<1>10. Current'
  <2> SUFFICES ASSUME NEW l \in Loc, l \notin dead', val'[l].k # "undef", abs'[l].K # "Taint"
               PROVE  val'[l].lag = 0
    BY DEF Current
  <2>1. CASE l \in Tmp
    BY <1>1, <1>4, <1>5, <1>6, <2>1
  <2>2. CASE l \in Root
    BY <1>9, <2>2 DEF RootsFixed, Known
  <2>3. CASE l \in Csr \cup Spill
    <3>1. l \in live /\ l \in Loc \ Tmp
      BY <1>2, <2>3, LocAssumption DEF Loc, Reg, Slot
    <3>2. abs[l].K # "Taint" /\ Known(l)
      BY <1>7, <3>1 DEF SameValue, Known
    <3>3. Repaired(l, delta, live).lag = 0
      BY <1>1, <1>2, <1>16, <3>1, <3>2, RepairCurrent
    <3> QED BY <1>7, <3>1, <3>3
  <2> QED BY <2>1, <2>2, <2>3 DEF Loc, Reg, Slot
<1>11. AllDescribed'
  <2> SUFFICES ASSUME NEW l \in Loc PROVE Describes(abs[l], val[l])'
    BY DEF AllDescribed
  <2>1. CASE l = r
    BY <1>1, <1>3, <1>4, <2>1 DEF Describes
  <2>2. CASE l \in Tmp /\ l # r
    <3>1. val'[l].k = "undef"
      BY <1>5, <1>6, <2>2
    <3> QED BY <3>1 DEF Describes
  <2>3. CASE l \notin Tmp
    <3>1. Describes(abs[l], val[l]) /\ abs'[l] = abs[l] /\ SameValue(val'[l], val[l])
      BY <1>7, <2>3 DEF Sound, AllDescribed
    <3> QED BY ZenonT(30), <1>2, <3>1 DEF Describes, SameValue, Rel
  <2> QED BY <2>1, <2>2, <2>3
<1>12. \A l \in Loc : val'[l].k # "undef" /\ l # r => l \notin Tmp /\ Known(l)
  BY <1>5, <1>6, <1>7 DEF SameValue, Known
<1>13. SlotCopies'
  <2> SUFFICES ASSUME NEW l \in Loc, val'[l].k # "undef", abs'[l].Alias # NoSlot
               PROVE  SameValue(val'[l], val'[abs'[l].Alias])
    BY DEF SlotCopies, Known
  <2>1. l # r /\ l \notin Tmp /\ Known(l)
    BY <1>3, <1>4, <1>12
  <2>2. abs'[l] = abs[l] /\ SameValue(val'[l], val[l])
    BY <1>7, <2>1
  <2>3. abs[l].Alias \in Slot /\ abs[l].Alias \in Loc \ Tmp
    BY <1>1, <2>2, LocAssumption DEF Val, Loc, Reg
  <2>4. SameValue(val'[abs[l].Alias], val[abs[l].Alias])
    BY ZenonT(30), <1>7, <2>3
  <2>5. SameValue(val[l], val[abs[l].Alias])
    BY <2>1, <2>2 DEF Sound, SlotCopies
  <2> QED BY <2>2, <2>4, <2>5 DEF SameValue
<1>14. GroupCopies'
  <2>1. ASSUME NEW l \in Loc, NEW m \in Loc, val'[l].k # "undef", val'[m].k # "undef",
               abs'[l].Copy # 0, abs'[l].Copy = abs'[m].Copy
        PROVE  SameValue(val'[l], val'[m])
    <3>1. l # r /\ m # r /\ l \notin Tmp /\ m \notin Tmp /\ Known(l) /\ Known(m)
      BY <1>3, <1>4, <1>12, <2>1
    <3>2. /\ abs'[l] = abs[l] /\ SameValue(val'[l], val[l])
          /\ abs'[m] = abs[m] /\ SameValue(val'[m], val[m])
      BY <1>7, <3>1
    <3>3. SameValue(val[l], val[m])
      BY <2>1, <3>1, <3>2 DEF Sound, GroupCopies
    <3> QED BY <3>2, <3>3 DEF SameValue
  <2>2. ASSUME NEW l \in Loc, val'[l].k # "undef" PROVE abs'[l].Copy <= n'
    <3>1. CASE l = r
      BY SMT, <1>1, <1>3, <1>4, <3>1
    <3>2. CASE l # r
      <4>1. l \notin Tmp /\ Known(l)
        BY ZenonT(30), <1>12, <2>2, <3>2
      <4>2. abs'[l] = abs[l] /\ abs[l].Copy \in Nat /\ abs[l].Copy <= n
        BY <1>1, <1>7, <4>1 DEF Sound, GroupCopies, Val
      <4> QED BY SMT, <1>1, <4>2
    <3> QED BY <3>1, <3>2
  <2> QED BY <2>1, <2>2 DEF GroupCopies, Known
<1> QED BY <1>8, <1>9, <1>10, <1>11, <1>13, <1>14 DEF Sound

(* What is recorded of copying instructions stays well-formed.               *)
LEMMA SitesKept ==
  ASSUME Typed, SitesTyped, Next
  PROVE  SitesTyped'
<1>1. n \in Nat /\ n < MaxSteps /\ abs \in [Loc -> Val] /\ MaxSteps \in Nat
  BY InputAssumption DEF Typed, Next
<1>2. back \in Nat /\ back <= n /\ site \in [1 .. MaxSteps -> [instr : Instr, State : [Loc -> Val]]]
  BY DEF SitesTyped
<1>3. ASSUME NEW instr \in Instr, Copying(instr), n' = n + 1 PROVE SitesTyped'
  <2>1. [instr |-> instr, State |-> abs] \in [instr : Instr, State : [Loc -> Val]]
    BY <1>1
  <2>2. /\ back' = 0
        /\ site' = IF back = 0 THEN [site EXCEPT ![n + 1] = [instr |-> instr, State |-> abs]] ELSE site
    BY <1>3 DEF Copying
  <2>3. site' \in [1 .. MaxSteps -> [instr : Instr, State : [Loc -> Val]]]
    BY <1>2, <2>1, <2>2
  <2>4. back' \in Nat /\ back' <= n'
    BY SMT, <1>1, <1>3, <2>2
  <2> QED BY <2>3, <2>4 DEF SitesTyped
<1>4. CASE n' = n + 1 /\ Copy
  <2>1. ASSUME NEW d \in Reg, NEW src \in Source, Mov(d, src) PROVE SitesTyped'
    <3>1. <<"mov", d, src>> \in Instr /\ Copying(<<"mov", d, src>>)
      BY SMT, <2>1 DEF Instr, Mov
    <3> QED BY <1>3, <1>4, <3>1
  <2>2. ASSUME NEW d \in Reg, NEW s \in Slot, Load(d, s) PROVE SitesTyped'
    <3>1. <<"load", d, s>> \in Instr /\ Copying(<<"load", d, s>>)
      BY SMT, <2>2 DEF Instr, Load
    <3> QED BY <1>3, <1>4, <3>1
  <2> QED BY <1>4, <2>1, <2>2 DEF Copy
<1>5. CASE n' = n + 1 /\ site' = site /\ back' = back
  <2>1. back' \in Nat /\ back' <= n'
    BY SMT, <1>1, <1>2, <1>5
  <2> QED BY <1>2, <1>5, <2>1 DEF SitesTyped
<1>6. ASSUME NEW id \in 1 .. n, Again(id) PROVE SitesTyped'
  <2>1. back' = id /\ site' = site /\ n' = n
    BY <1>6 DEF Again
  <2>2. back' \in Nat /\ back' <= n'
    BY SMT, <1>1, <2>1
  <2> QED BY <1>2, <2>1, <2>2 DEF SitesTyped
<1> QED BY <1>4, <1>5, <1>6 DEF Next

(* Every instruction, join point, loop and call of the analysed function.    *)
LEMMA NextKeeps ==
  ASSUME Sound, SitesTyped, Next, gaps' = {}
  PROVE  Sound'
<1>1. CASE n' = n + 1 /\ Copy
  <2>1. ASSUME NEW d \in Reg, NEW src \in Source, Mov(d, src) PROVE Sound'
    BY <1>1, <2>1, MovKeeps
  <2>2. ASSUME NEW d \in Reg, NEW s \in Slot, Load(d, s) PROVE Sound'
    BY <1>1, <2>2, LoadKeeps
  <2> QED BY <1>1, <2>1, <2>2 DEF Copy
<1>2. CASE n' = n + 1 /\ Instruction
  <2>1. ASSUME NEW d \in Reg, NEW base \in Source, NEW c \in Disps, Lea(d, base, c) PROVE Sound'
    BY <1>2, <2>1, LeaKeeps
  <2>2. ASSUME NEW d \in Reg, NEW base \in Source, NEW i \in Reg, NEW scale \in {1, 2},
               LeaIndexed(d, base, i, scale)
        PROVE  Sound'
    BY <1>2, <2>2, LeaIndexedKeeps
  <2>3. ASSUME NEW d \in Reg, NEW c \in Disps, AddImm(d, c) PROVE Sound'
    BY <1>2, <2>3, AddImmKeeps
  <2>4. ASSUME NEW d \in Reg, NEW src \in Reg \cup Slot,
               Add(d, src) \/ Sub(d, src) \/ Cmov(d, src) \/ Other(d, src)
        PROVE  Sound'
    BY <1>2, <2>4, AddKeeps, SubKeeps, CmovKeeps, OtherKeeps
  <2>5. ASSUME NEW d \in Reg, (\E v \in Loaded : LoadMemory(d, v)) \/ ImplicitDef(d) PROVE Sound'
    BY <1>2, <2>5, PlainKeeps
  <2>6. ASSUME NEW r \in Reg, NEW s \in Slot, Store(s, r) PROVE Sound'
    BY <1>2, <2>6, StoreKeeps
  <2>7. ASSUME NEW r \in Reg, NEW s \in Spill, StorePart(s, r) PROVE Sound'
    BY <1>2, <2>7, StorePartKeeps
  <2>8. ASSUME NEW o \in RspOffs, SetRsp(o) PROVE Sound'
    BY <1>2, <2>8, SetRspKeeps
  <2> QED BY <1>2, <2>1, <2>2, <2>3, <2>4, <2>5, <2>6, <2>7, <2>8 DEF Instruction
<1>3. ASSUME NEW l \in Loc, NEW w \in Others, Merge(l, w), n' = n + 1 PROVE Sound'
  BY <1>3, MergeKeeps
<1>4. ASSUME NEW delta \in Deltas, NEW live \in SUBSET ((Csr \cup Spill) \ dead), NEW r \in Tmp,
             NEW res \in Loaded, Call(delta, live, r, res), n' = n + 1
      PROVE  Sound'
  BY <1>4, CallKeeps
<1>5. ASSUME NEW id \in 1 .. n, n < MaxSteps, Again(id) PROVE Sound'
  BY <1>5, AgainKeeps
<1> QED BY <1>1, <1>2, <1>3, <1>4, <1>5 DEF Next

(* A gap is never forgotten.                                                 *)
LEMMA GapsStay == ASSUME Next PROVE gaps \subseteq gaps'
<1>1. ASSUME NEW d, NEW names, Naming(d, names) PROVE gaps \subseteq gaps'
  BY <1>1 DEF Naming
<1>2. Copy => gaps \subseteq gaps'
  BY <1>1 DEF Copy, Mov, Load
<1>3. ASSUME NEW delta, NEW live, NEW r, NEW res, Call(delta, live, r, res) PROVE gaps \subseteq gaps'
  BY <1>3 DEF Call
<1>4. ASSUME NEW id, Again(id) PROVE gaps \subseteq gaps'
  BY <1>4 DEF Again
<1> QED BY <1>2, <1>3, <1>4 DEF Next

(* FixInv is an invariant: as long as there was no gap, what the analysis    *)
(* says of each location, and of copies, is so on every path, loops          *)
(* included, and the repairs are complete.                                   *)
THEOREM FrameFixInvariant == Spec => []FixInv
<1>1. Init => FixInv
  <2> SUFFICES ASSUME Init PROVE SitesTyped
    BY InitSound DEF FixInv
  <2>1. abs \in [Loc -> Val] /\ <<>> \in Instr
    BY InitSound DEF Sound, Typed, Instr
  <2>2. site \in [1 .. MaxSteps -> [instr : Instr, State : [Loc -> Val]]]
    BY <2>1 DEF Init
  <2>3. back \in Nat /\ back <= n
    BY SMT DEF Init
  <2> QED BY <2>2, <2>3 DEF SitesTyped
<1>2. FixInv /\ [Next]_vars => FixInv'
  <2> SUFFICES ASSUME FixInv, [Next]_vars, gaps' = {} PROVE Sound' /\ SitesTyped'
    BY DEF FixInv
  <2>1. CASE UNCHANGED vars
    <3>1. Sound /\ SitesTyped
      BY <2>1 DEF FixInv, vars
    <3> QED BY <2>1, <3>1 DEF vars, Sound, SitesTyped, Typed, Current, AllDescribed, SlotCopies,
                              GroupCopies, RootsFixed, Known, Describes, Rel
  <2>2. CASE Next
    <3>1. Sound /\ SitesTyped
      BY <2>2, GapsStay DEF FixInv
    <3>2. Sound'
      BY <2>2, <3>1, NextKeeps
    <3>3. SitesTyped'
      BY <2>2, <3>1, SitesKept DEF Sound
    <3> QED BY <3>2, <3>3
  <2> QED BY <2>1, <2>2
<1> QED BY <1>1, <1>2, PTL DEF Spec

(* After every call that moved the stack, wherever it moved it, every live   *)
(* untainted register and spill slot holds what the function put there; on   *)
(* paths without the two gaps NoStaleAddress names.                          *)
THEOREM FrameAddressesRepaired == Spec => []NoStaleAddress
<1>1. FixInv => NoStaleAddress
  BY DEF FixInv, Sound, NoStaleAddress
<1> QED BY FrameFixInvariant, <1>1, PTL

(* The reload of a copy of a slot after a call brings in the value the       *)
(* register had: the alias is never older than a store to the slot, unless   *)
(* an instruction reused the name of a group another location is in.         *)
THEOREM CopiesAgree == Spec => []CopiesOfSlots
<1>1. FixInv => CopiesOfSlots
  BY DEF FixInv, Sound, SlotCopies, CopiesOfSlots, SameValue, Known, Loc
<1> QED BY FrameFixInvariant, <1>1, PTL
=============================================================================
