---------------------------- MODULE ColorEscape ----------------------------
(***************************************************************************)
(* goc-color-escape: which pointers may be stack addresses, and where they *)
(* have to be kept encoded.  The pass colours the values of a function,    *)
(* encodes (goc_uptr_from_ptr) what is stored outside the stack, decodes   *)
(* what is loaded from such storage, and rejects the escapes it cannot     *)
(* repair.  The rewritten function is then run.                            *)
(*                                                                         *)
(* A program is a function                                                 *)
(*   f(struct N *h, struct N **pp) { struct N obj, *p, *q; ... }           *)
(* of assignments, as clang emits it without optimisation, next to a       *)
(* global struct N *G.  struct N has two pointer fields, 0 and 1.          *)
(***************************************************************************)
EXTENDS Integers, Sequences, SequencesExt, FiniteSets, TLC

CONSTANT Programs
(* [code, default, actuals, ann]: the statements; --default-ptr-color; what  *)
(* the callers of a static f pass for h ({}: f is not static); the colours   *)
(* declared for p and G.                                                     *)

MaxRounds == 64       \* Guard of propagate

VARIABLES prog,
          S,          \* ColorEscapeState, and the module's IR
          phase, rounds,
          pc, reg, mem \* the run

vars == <<prog, S, phase, rounds, pc, reg, mem>>

Pointers == {"p", "q", "h.a", "pp.a"}     \* the pointer variables of f

-----------------------------------------------------------------------------
(* The IR: alloca, load, store (of b at a), gep (field f of a), phi, enc,    *)
(* dec, ascptr, reqcptr (calls of the uptr helpers), malloc, get (a call     *)
(* that is given the address of a variable), ret.                            *)

Ins(op, id, a, b, f) == [op |-> op, id |-> id, a |-> a, b |-> b, f |-> f]

V(n) == "v" \o ToString(n)

(* The address of an lvalue: a variable, a field of *x or of obj, *pp, or    *)
(* *(c ? &x : &G).                                                           *)
Address(l, n) ==
  CASE l[1] = "var" -> [ops |-> <<>>, v |-> l[2], n |-> n]
    [] l[1] = "arrow" -> [ops |-> <<Ins("load", V(n), l[2], "", 0), Ins("gep", V(n + 1), V(n), "", l[3])>>,
                          v |-> V(n + 1), n |-> n + 2]
    [] l[1] = "dot" -> [ops |-> <<Ins("gep", V(n), "obj", "", l[3])>>, v |-> V(n), n |-> n + 1]
    [] l[1] = "star" -> [ops |-> <<Ins("load", V(n), "pp.a", "", 0)>>, v |-> V(n), n |-> n + 1]
    [] l[1] = "cond" -> [ops |-> <<Ins("phi", V(n), l[2], "G", 0)>>, v |-> V(n), n |-> n + 1]

RValue(r, n) ==
  CASE r[1] = "addr" -> [ops |-> <<>>, v |-> "obj", n |-> n]
    [] r[1] = "null" -> [ops |-> <<>>, v |-> "null", n |-> n]
    [] r[1] = "malloc" -> [ops |-> <<Ins("malloc", V(n), "", "", 0)>>, v |-> V(n), n |-> n + 1]
    [] OTHER -> LET a == Address(r, n)
                IN [ops |-> Append(a.ops, Ins("load", V(a.n), a.v, "", 0)), v |-> V(a.n), n |-> a.n + 1]

Statement(acc, st) ==
  LET r == RValue(st.r, acc.n)
      l == Address(st.l, r.n)
  IN CASE st.op = "set" -> [ops |-> acc.ops \o r.ops \o l.ops \o <<Ins("store", V(l.n), l.v, r.v, 0)>>, n |-> l.n + 1]
       [] st.op = "ret" -> [ops |-> acc.ops \o r.ops \o <<Ins("ret", V(r.n), r.v, "", 0)>>, n |-> r.n + 1]
       [] st.op = "get" -> [ops |-> Append(acc.ops, Ins("get", V(acc.n), st.l[2], "", 0)), n |-> acc.n + 1]

Prologue ==
  <<Ins("alloca", "obj", "", "", 0), Ins("alloca", "p", "", "", 0), Ins("alloca", "q", "", "", 0),
    Ins("alloca", "h.a", "", "", 0), Ins("alloca", "pp.a", "", "", 0),
    Ins("store", "v1", "h.a", "h", 0), Ins("store", "v2", "pp.a", "pp", 0)>>

Compile(code) == FoldLeft(Statement, [ops |-> Prologue, n |-> 3], code)

-----------------------------------------------------------------------------
(* Walks over the IR.                                                        *)

Outside == [h |-> "arg", pp |-> "arg", G |-> "global", null |-> "null"]

Ids(ir) == {ir[i].id : i \in DOMAIN ir} \cup DOMAIN Outside

Def(ir, v) ==
  IF v \in DOMAIN Outside THEN Ins(Outside[v], v, "", "", 0)
                          ELSE ir[CHOOSE i \in DOMAIN ir : ir[i].id = v]

IsA(ir, v, op) == Def(ir, v).op = op

Having(ir, op) == {ir[i] : i \in {j \in DOMAIN ir : ir[j].op = op}}

(* stripPointerCasts also removes a gep of field 0.                          *)
RECURSIVE Strip(_, _)
Strip(ir, v) ==
  LET d == Def(ir, v) IN IF d.op = "gep" /\ d.f = 0 THEN Strip(ir, d.a) ELSE v

RECURSIVE Reach(_, _)
Reach(next, A) ==
  LET B == A \cup UNION {next[v] : v \in A} IN IF B = A THEN A ELSE Reach(next, B)

Through(ir) ==
  [v \in Ids(ir) |->
     LET d == Def(ir, v)
     IN CASE d.op = "gep" -> {Strip(ir, d.a)}
          [] d.op = "phi" -> {Strip(ir, d.a), Strip(ir, d.b)}
          [] OTHER -> {}]

pointerStorageRoots(ir, v) ==
  LET t == Through(ir) IN {w \in Reach(t, {Strip(ir, v)}) : t[w] = {}}

isStackLocation(ir, v) == \A w \in pointerStorageRoots(ir, v) : IsA(ir, w, "alloca")

mayDirectlyNameStack(ir, v) == \E w \in pointerStorageRoots(ir, v) : IsA(ir, w, "alloca")

Stored(ir, slot) == {st.b : st \in {x \in Having(ir, "store") : x.a = slot}}

(* provenStackActual follows a local variable to what is stored in it.       *)
provenStackActual(ir, v, formals) ==
  LET t == Through(ir)
      next == [w \in Ids(ir) |->
                 LET d == Def(ir, w)
                 IN IF d.op = "load" /\ IsA(ir, Strip(ir, d.a), "alloca")
                    THEN {Strip(ir, x) : x \in Stored(ir, Strip(ir, d.a))} ELSE t[w]]
      seen == Reach(next, {Strip(ir, v)})
  IN /\ \A w \in seen :
          \/ Def(ir, w).op \in {"alloca", "null", "gep", "phi"}
          \/ IsA(ir, w, "arg") /\ w \in formals
          \/ IsA(ir, w, "load") /\ next[w] # {}
     /\ \E w \in seen : Def(ir, w).op \in {"alloca", "null", "arg"}

RECURSIVE borrowedFromStackFormal(_, _, _, _)
borrowedFromStackFormal(ir, v, formals, seen) ==
  LET w == Strip(ir, v)
      d == Def(ir, w)
      slot == Strip(ir, d.a)
  IN CASE d.op = "arg" -> w \in formals
       [] w \in seen -> FALSE
       [] d.op = "gep" -> borrowedFromStackFormal(ir, d.a, formals, seen \cup {w})
       [] d.op = "load" /\ ~IsA(ir, slot, "alloca") ->
            borrowedFromStackFormal(ir, d.a, formals, seen \cup {w})
       [] d.op = "load" /\ slot # "obj" /\ IsA(ir, slot, "alloca") ->
            /\ Stored(ir, slot) # {}
            /\ \A x \in Stored(ir, slot) : borrowedFromStackFormal(ir, x, formals, seen \cup {w})
       [] OTHER -> FALSE

Calls == {"enc", "dec", "ascptr", "reqcptr", "get"}

addressMayEscape(ir, v) ==
  LET uses == {ir[i] : i \in DOMAIN ir}
      next == [w \in Ids(ir) |-> {u.id : u \in {x \in uses : x.op \in {"gep", "phi"} /\ w \in {x.a, x.b}}}]
  IN \E w \in Reach(next, {v}), u \in uses :
       \/ u.op \in Calls \cup {"ret"} /\ u.a = w
       \/ u.op = "store" /\ u.b = w

rootOrPointeeMayEscape(ir, v) ==
  \/ addressMayEscape(ir, v)
  \/ LET d == Def(ir, v)
     IN /\ d.op = "load" /\ Strip(ir, d.a) \in Pointers
        /\ \E x \in Stored(ir, Strip(ir, d.a)) : addressMayEscape(ir, x)

-----------------------------------------------------------------------------
(* Colours.                                                                  *)

NoInfo == [dec |-> "none", ref |-> "auto", sp |-> FALSE, hp |-> FALSE, enc |-> FALSE, dyn |-> FALSE]

Open == {"none", "auto"}

effective(i) == IF i.dec \notin Open THEN i.dec ELSE i.ref

joinColor(a, b) == IF a = "none" \/ (a = "auto" /\ b # "none") THEN b ELSE a

applyColorProv(i, c) ==
  CASE c = "cptr" -> [i EXCEPT !.sp = FALSE, !.hp = TRUE, !.enc = FALSE]
    [] c = "sptr" -> [i EXCEPT !.sp = TRUE, !.hp = FALSE, !.enc = FALSE]
    [] c = "uptr" -> [i EXCEPT !.sp = FALSE, !.enc = TRUE]

SlotColor(s, v) == IF v \in DOMAIN s.slot THEN s.slot[v] ELSE "none"

(* What a colour says of the value in a variable that is declared with it.   *)
Declare(i, v, c) ==
  [i EXCEPT !.dec = c, !.ref = IF c = "auto" THEN @ ELSE c,
            !.sp = @ \/ (c = "sptr" /\ v # "G"), !.hp = @ \/ c = "cptr", !.enc = @ \/ c = "uptr"]

(* seedAnnotations, then seedProducers.                                      *)
Seeded(p) ==
  LET c == Compile(p.code)
      ir == c.ops
      ann == {v \in DOMAIN p.ann : p.ann[v] # "none"}
      noted == [v \in Ids(ir) |-> IF v \in ann THEN Declare(NoInfo, v, p.ann[v]) ELSE NoInfo]
      produced == [v \in Ids(ir) |->
                     CASE IsA(ir, v, "alloca") -> [noted[v] EXCEPT !.sp = TRUE]
                       [] IsA(ir, v, "malloc") -> [noted[v] EXCEPT !.ref = "cptr", !.hp = TRUE]
                       [] OTHER -> noted[v]]
  IN [ir |-> ir, info |-> produced, slot |-> [v \in ann |-> p.ann[v]], dflt |-> {}, formals |-> {},
      autoSlots |-> {}, rootFields |-> {}, fields |-> {}, tagged |-> {}, errors |-> FALSE, n |-> c.n]

WithFormals_AnyCaller(s, p) ==
  IF "stack" \in p.actuals
  THEN [s EXCEPT !.formals = {"h"}, !.info["h"] = [@ EXCEPT !.ref = "sptr", !.sp = TRUE, !.hp = FALSE]]
  ELSE s

(* proveStackOnlyFormals: every caller of a static f passes the address of a *)
(* local, or NULL.                                                           *)
WithFormals(s, p) ==
  IF p.actuals # {} /\ "heap" \notin p.actuals
  THEN [s EXCEPT !.formals = {"h"}, !.info["h"] = [@ EXCEPT !.ref = "sptr", !.sp = TRUE, !.hp = FALSE]]
  ELSE s

(* applyDefaultPtrColor.                                                     *)
WithDefault(s, p) ==
  LET kept == IF "h" \in s.formals THEN {"h", "h.a"} ELSE {}
      new == {v \in (Pointers \cup {"h", "pp"}) \ kept : s.info[v].dec \in Open}
  IN IF p.default = "none" THEN s
     ELSE [s EXCEPT !.info = [v \in DOMAIN s.info |->
                                IF v \in new
                                THEN [s.info[v] EXCEPT !.dec = p.default, !.hp = TRUE,
                                                       !.ref = IF @ \in Open THEN p.default ELSE @]
                                ELSE s.info[v]],
                    !.slot = [v \in DOMAIN s.slot \cup new |-> IF v \in new THEN p.default ELSE s.slot[v]],
                    !.dflt = new]

-----------------------------------------------------------------------------
(* propagate.                                                                *)

Encoded == [NoInfo EXCEPT !.dec = "uptr", !.ref = "uptr", !.enc = TRUE]
CheckedCptr == [NoInfo EXCEPT !.dec = "cptr", !.ref = "cptr", !.hp = TRUE]

Merge(d, o) ==
  [d EXCEPT !.sp = @ \/ o.sp, !.hp = @ \/ o.hp, !.enc = @ \/ o.enc, !.dyn = @ \/ o.dyn]

Resolved(i) ==
  CASE i.ref = "auto" /\ i.sp /\ ~i.hp /\ ~i.enc -> [i EXCEPT !.ref = "sptr"]
    [] i.ref = "auto" /\ i.hp /\ ~i.sp -> [i EXCEPT !.ref = "cptr"]
    [] OTHER -> i

Loaded(s, x) ==
  LET old == s.info[x.id]
      from == Strip(s.ir, x.a)
      src == s.info[from]
      c == SlotColor(s, from)
      colored == CASE c \notin Open -> applyColorProv([old EXCEPT !.dec = c, !.ref = c], c)
                   [] c \in Open /\ src.dec \notin Open -> applyColorProv([old EXCEPT !.ref = src.dec], src.dec)
                   [] OTHER -> [Merge(old, src) EXCEPT !.dyn = old.dyn]
      dyn == old.dyn \/ src.dyn
  IN IF x.id \in s.tagged THEN Encoded
     ELSE Resolved([colored EXCEPT !.dyn = dyn, !.sp = @ \/ dyn, !.ref = IF dyn THEN "auto" ELSE @])

(* A store reaches the variable, or the object whose field 0 it writes.      *)
StoredInto(s, x) ==
  LET slot == s.info[Strip(s.ir, x.a)]
      v == s.info[x.b]
      eff == effective(v)
      m == Merge(slot, v)
  IN [m EXCEPT !.dec = IF v.dec = "none" THEN @ ELSE joinColor(@, v.dec),
               !.ref = IF eff \notin Open THEN eff ELSE IF v.sp /\ ~v.enc THEN "sptr" ELSE @]

Field(s, x) ==
  LET o == s.info[x.a]
      d == s.info[x.id]
  IN [Merge(d, o) EXCEPT !.ref = IF o.ref = "sptr" \/ o.sp THEN (IF o.enc THEN "uptr" ELSE "sptr")
                                                          ELSE joinColor(@, o.ref)]

Joined(s, x) ==
  LET a == s.info[x.a]
      b == s.info[x.b]
      d == s.info[x.id]
  IN [Merge(Merge(d, a), b) EXCEPT !.ref = joinColor(joinColor(@, effective(a)), effective(b))]

(* What an instruction of a round may change, and whether the round counts it.*)
Target(ir, x) == IF x.op = "store" THEN Strip(ir, x.a) ELSE x.id
Visited(ir, x) == x.op \in {"load", "gep", "phi"} \/ (x.op = "store" /\ IsA(ir, Target(ir, x), "alloca"))

Visit(acc, x) ==
  LET s == acc.s
      to == Target(s.ir, x)
      old == s.info[to]
      new == CASE x.op = "load" -> Loaded(s, x)
               [] x.op = "store" -> StoredInto(s, x)
               [] x.op = "gep" -> Field(s, x)
               [] x.op = "phi" -> Joined(s, x)
      counts == \/ new.ref # old.ref
                \/ IF x.id \in s.tagged THEN new.enc # old.enc
                   ELSE new.dyn # old.dyn \/ (x.op \in {"load", "store"} /\ new.sp # old.sp)
  IN [s |-> [s EXCEPT !.info[to] = new], changed |-> acc.changed \/ counts]

Round(s) == FoldLeft(Visit, [s |-> s, changed |-> FALSE], SelectSeq(s.ir, LAMBDA x : Visited(s.ir, x)))

-----------------------------------------------------------------------------
(* Where encoded words are kept.                                             *)

isStackDest(s, a) == isStackLocation(s.ir, a) \/ provenStackActual(s.ir, a, s.formals)

pointerSlotColor(s, a) ==
  LET w == Strip(s.ir, a) IN IF w \in DOMAIN s.slot THEN s.slot[w] ELSE s.info[w].dec

(* pointerFieldKey: the field of a gep, field 0 included.                    *)
NoKey == -1
pointerFieldKey(ir, a) == IF IsA(ir, a, "gep") THEN Def(ir, a).f ELSE NoKey

isAutoUptrSlot(s, a) ==
  LET key == pointerFieldKey(s.ir, a)
      roots == pointerStorageRoots(s.ir, a)
      private == isStackDest(s, a) /\ \A r \in roots : ~rootOrPointeeMayEscape(s.ir, r)
  IN IF key = NoKey THEN roots \cap s.autoSlots # {}
     ELSE (\E r \in roots : <<r, key>> \in s.rootFields) \/ (~private /\ key \in s.fields)

RECURSIVE Alternatives(_, _)
Alternatives(ir, v) ==
  IF IsA(ir, v, "phi") THEN Alternatives(ir, Def(ir, v).a) \cup Alternatives(ir, Def(ir, v).b) ELSE {v}

markAutoUptrSlot(s, a) ==
  LET all == Alternatives(s.ir, a)
      keyed == {v \in all : pointerFieldKey(s.ir, v) # NoKey}
  IN [s EXCEPT !.autoSlots = @ \cup UNION {pointerStorageRoots(s.ir, v) : v \in all \ keyed},
               !.fields = @ \cup {pointerFieldKey(s.ir, v) : v \in keyed},
               !.rootFields = @ \cup UNION {pointerStorageRoots(s.ir, v) \X {pointerFieldKey(s.ir, v)} : v \in keyed}]

-----------------------------------------------------------------------------
(* Rewriting.                                                                *)

At(ir, id) == CHOOSE i \in DOMAIN ir : ir[i].id = id

Before(ir, id, x) == InsertAt(ir, At(ir, id), x)
After(ir, id, x) == InsertAt(ir, At(ir, id) + 1, x)
Without(ir, id) == SelectSeq(ir, LAMBDA x : x.id # id)

(* Every use of v but those by the instructions in keep becomes a use of w.  *)
Replace(ir, v, w, keep) ==
  LET sub(x) == IF x.id \in keep THEN x
                ELSE [x EXCEPT !.a = IF @ = v THEN w ELSE @, !.b = IF @ = v THEN w ELSE @]
  IN [i \in DOMAIN ir |-> sub(ir[i])]

Inform(s, v, i) == [s EXCEPT !.info = [w \in DOMAIN s.info \cup {v} |-> IF w = v THEN i ELSE s.info[w]]]

IdsOf(ir, op) == LET xs == SelectSeq(ir, LAMBDA x : x.op = op) IN [i \in DOMAIN xs |-> xs[i].id]

(* A variable coloured by default that turns out to hold a stack address.    *)
Recolored(s, v, hp) ==
  LET loads == {x.id : x \in {y \in Having(s.ir, "load") : y.a = v}}
      as(w) == IF w = v THEN [s.info[w] EXCEPT !.dec = "auto", !.ref = "sptr", !.sp = TRUE, !.hp = hp]
               ELSE IF w \in loads THEN [NoInfo EXCEPT !.dec = "auto", !.ref = "sptr", !.sp = TRUE, !.hp = hp]
               ELSE s.info[w]
  IN [s EXCEPT !.slot = [w \in DOMAIN s.slot \ {v} |-> s.slot[w]],
               !.info = [w \in DOMAIN s.info |-> as(w)]]

EncodeStore(s, id) ==
  LET st == Def(s.ir, id)
      v == s.info[st.b]
      eff == effective(v)
      c == pointerSlotColor(s, st.a)
      stack == isStackDest(s, st.a)
      mayBeStack == (v.dec = "sptr" \/ eff = "sptr" \/ v.sp \/ v.dyn) /\ ~v.enc /\ eff # "uptr"
      proven == mayDirectlyNameStack(s.ir, st.b) \/ borrowedFromStackFormal(s.ir, st.b, s.formals, {})
      to == Strip(s.ir, st.a)
      t == IF stack /\ c = "cptr" /\ proven /\ to \in s.dflt /\ IsA(s.ir, to, "alloca")
           THEN Recolored(s, to, v.hp) ELSE s
      auto == isAutoUptrSlot(t, st.a) \/ (~stack /\ c \in Open \cup {"cptr"})
      new == V(s.n)
      ir == [Before(s.ir, id, Ins("enc", new, st.b, "", 0)) EXCEPT ![At(s.ir, id) + 1].b = new]
  IN IF ~mayBeStack THEN s
     ELSE IF ~auto \/ c \in {"sptr", "uptr"} THEN t
     ELSE markAutoUptrSlot(Inform([t EXCEPT !.ir = ir, !.n = @ + 1], new, Encoded), st.a)

encodeEscapingSptrStores(s) == FoldLeft(EncodeStore, s, IdsOf(s.ir, "store"))

DecodeLoad(s, id) ==
  LET ld == Def(s.ir, id)
      new == V(s.n)
      rets == {x.id : x \in {y \in Having(s.ir, "ret") : y.a = id}}
      decoded == Replace(After(s.ir, id, Ins("dec", new, id, "", 0)), id, new, rets \cup {new})
      checked == V(s.n + 1)
      ret == CHOOSE x \in rets : TRUE
      t == Inform([s EXCEPT !.tagged = @ \cup {id}, !.info[id] = Encoded, !.n = @ + 2, !.ir = decoded], new,
                  [NoInfo EXCEPT !.dec = "auto", !.sp = TRUE, !.dyn = TRUE])
  IN IF ~isAutoUptrSlot(s, ld.a) \/ pointerSlotColor(s, ld.a) \in {"uptr", "sptr"} \/ id \in s.tagged THEN s
     ELSE IF rets = {} THEN t
     ELSE Inform([t EXCEPT !.ir = Replace(Before(@, ret, Ins("ascptr", checked, id, "", 0)), id, checked,
                                          {x \in Ids(@) \cup {checked} : x # ret})],
                 checked, CheckedCptr)

decodeAutoUptrLoads(s) == FoldLeft(DecodeLoad, s, IdsOf(s.ir, "load"))

(* foldReencodedDecodes: an encode of a decode is the word itself.           *)
FoldPair(s, id) ==
  LET x == Def(s.ir, id)
      d == Def(s.ir, x.a)
      ir == Without(Replace(s.ir, id, d.a, {}), id)
      used == \E i \in DOMAIN ir : d.id \in {ir[i].a, ir[i].b}
  IN IF d.op # "dec" THEN s ELSE [s EXCEPT !.ir = IF used THEN ir ELSE Without(ir, d.id)]

(* A variable that only ever gets decoded words: its address is not taken.   *)
decodedOnlySlot(ir, v) ==
  LET uses == {x \in {ir[i] : i \in DOMAIN ir} : v \in {x.a, x.b}}
  IN /\ v # "obj" /\ Stored(ir, v) # {}
     /\ \A x \in uses : \/ x.op = "load"
                        \/ x.op = "store" /\ x.b # v /\ IsA(ir, x.b, "dec")

Shadow(v) == v \o ".uptr"

WithShadow(s, v) ==
  LET stores == {x \in Having(s.ir, "store") : x.a = v}
      copy(ir, x) == After(ir, x.id, Ins("store", x.id \o "s", Shadow(v), Def(ir, x.b).a, 0))
      ir == FoldLeft(copy, After(s.ir, v, Ins("alloca", Shadow(v), "", "", 0)), SetToSeq(stores))
  IN IF Shadow(v) \in Ids(s.ir) THEN s
     ELSE Inform([s EXCEPT !.ir = ir, !.slot = (Shadow(v) :> "uptr") @@ @], Shadow(v), [Encoded EXCEPT !.sp = TRUE])

FoldSlot(s, id) ==
  LET x == Def(s.ir, id)
      slot == Def(s.ir, x.a).a
      t == WithShadow(s, slot)
      new == V(s.n)
      ir == Before(t.ir, id, Ins("load", new, Shadow(slot), "", 0))
  IN Inform([t EXCEPT !.ir = Without(Replace(ir, id, new, {}), id), !.n = @ + 1], new, Encoded)

foldReencodedDecodes(s) ==
  LET paired == FoldLeft(FoldPair, s, IdsOf(s.ir, "enc"))
      ready(id) == LET l == Def(paired.ir, Def(paired.ir, id).a)
                   IN l.op = "load" /\ IsA(paired.ir, l.a, "alloca") /\ decodedOnlySlot(paired.ir, l.a)
  IN FoldLeft(FoldSlot, paired, SelectSeq(IdsOf(paired.ir, "enc"), ready))

GuardReturn(s, id) ==
  LET v == Def(s.ir, id).a
      new == V(s.n)
  IN IF ~s.info[v].dyn THEN s
     ELSE Inform([s EXCEPT !.n = @ + 1,
                           !.ir = Replace(Before(@, id, Ins("reqcptr", new, v, "", 0)), v, new, (Ids(@) \cup {new}) \ {id})],
                 new, CheckedCptr)

guardDynamicUptrReturns(s) == FoldLeft(GuardReturn, s, IdsOf(s.ir, "ret"))

-----------------------------------------------------------------------------
(* checkEscapesAndMix.                                                       *)

(* An open colour is settled where the value is stored.                      *)
Settled(i) ==
  IF effective(i) # "auto" /\ i.dec \notin Open THEN i
  ELSE CASE i.sp /\ ~i.enc -> [i EXCEPT !.ref = "sptr"]
         [] ~(i.sp /\ ~i.enc) /\ i.hp /\ ~i.sp -> [i EXCEPT !.ref = "cptr"]
         [] ~(i.sp /\ ~i.enc) /\ ~(i.hp /\ ~i.sp) /\ i.enc -> [i EXCEPT !.ref = "uptr"]
         [] OTHER -> i

CheckStore(s, x) ==
  LET i == Settled(s.info[x.b])
      eff == effective(i)
      field == SlotColor(s, Strip(s.ir, x.a))
      raw == \/ eff = "sptr" \/ i.dec = "sptr"
             \/ i.sp /\ ~i.enc /\ eff \notin {"uptr", "cptr"}
      bad == \/ field = "uptr" /\ eff # "uptr" /\ ~i.enc
             \/ raw /\ ~isStackDest(s, x.a)
  IN [s EXCEPT !.info[x.b] = i, !.errors = @ \/ bad]

CheckReturn(s, x) ==
  LET i == s.info[x.a]
      raw == \/ effective(i) = "sptr" \/ i.dec = "sptr"
             \/ i.sp /\ ~i.enc /\ effective(i) # "uptr"
  IN [s EXCEPT !.errors = @ \/ (raw /\ ~borrowedFromStackFormal(s.ir, x.a, s.formals, {}))]

Checked(s, x) == IF x.op = "store" THEN CheckStore(s, x) ELSE CheckReturn(s, x)

checkEscapesAndMix(s) == FoldLeft(Checked, s, SelectSeq(s.ir, LAMBDA x : x.op \in {"store", "ret"}))

-----------------------------------------------------------------------------
(* runColorEscape.                                                           *)

Init ==
  /\ prog \in Programs
  /\ S = WithDefault(WithFormals(Seeded(prog), prog), prog)
  /\ phase = "propagate" /\ rounds = 0
  /\ pc = 0 /\ reg = <<>> /\ mem = <<>>

(* Once a round changes nothing, the rounds left to the guard do not either. *)
Propagate ==
  /\ phase = "propagate"
  /\ LET r == Round(S)
     IN /\ S' = r.s
        /\ IF r.changed /\ r.s # S /\ rounds + 1 < MaxRounds
           THEN rounds' = rounds + 1 /\ UNCHANGED phase
           ELSE rounds' = 0 /\ phase' = "rewrite"
  /\ UNCHANGED <<prog, pc, reg, mem>>

Rewrite_TwoPass ==
  /\ phase = "rewrite"
  /\ S' = encodeEscapingSptrStores(decodeAutoUptrLoads(encodeEscapingSptrStores(S)))
  /\ phase' = "check"
  /\ UNCHANGED <<prog, rounds, pc, reg, mem>>

Rewrite ==
  /\ phase = "rewrite"
  /\ S' = decodeAutoUptrLoads(encodeEscapingSptrStores(S))
  /\ phase' = IF S'.n = S.n THEN "check" ELSE "propagate"
  /\ UNCHANGED <<prog, rounds, pc, reg, mem>>

-----------------------------------------------------------------------------
(* The run.  A word is <<object, field, encoded>>.  O is an object of a      *)
(* caller's frame, H one on the heap that callers pass, M one from malloc,   *)
(* C the variable pp points to.                                              *)

Null == <<"null", 0, FALSE>>
To(o) == <<o, 0, FALSE>>

OnStack(o) == o \in {"obj", "p", "q", "h.a", "pp.a", "O"} \/ o \in {Shadow(v) : v \in Pointers}
Raw(w) == OnStack(w[1]) /\ ~w[3]

Actuals(p) ==
  {To(o) : o \in {IF a = "stack" THEN "O" ELSE "H" : a \in IF p.actuals = {} THEN {"heap"} ELSE p.actuals}}

InitialReg(ir, h) ==
  [v \in Ids(ir) |-> CASE v = "h" -> h [] v = "pp" -> To("C") [] v = "G" -> To("G")
                       [] IsA(ir, v, "alloca") -> To(v) [] OTHER -> Null]

InitialMem(ir) ==
  [o \in {"G", "O", "H", "M", "C"} \cup {x.id : x \in Having(ir, "alloca")} |-> <<Null, Null>>]

Value(x) ==
  CASE x.op = "load" -> {mem[reg[x.a][1]][reg[x.a][2] + 1]}
    [] x.op = "gep" -> {<<reg[x.a][1], x.f, reg[x.a][3]>>}
    [] x.op = "phi" -> {reg[x.a], reg[x.b]}
    [] x.op = "enc" -> {<<reg[x.a][1], reg[x.a][2], reg[x.a][3] \/ Raw(reg[x.a])>>}
    [] x.op = "dec" -> {<<reg[x.a][1], reg[x.a][2], FALSE>>}
    [] x.op \in {"ascptr", "reqcptr"} -> {reg[x.a]}
    [] x.op = "malloc" -> {To("M")}
    [] OTHER -> {reg[x.id]}

(* A NULL pointer is dereferenced, or a helper traps.                        *)
Stops(x) ==
  \/ x.op \in {"load", "store"} /\ reg[x.a][1] = "null"
  \/ x.op = "ascptr" /\ reg[x.a][3]
  \/ x.op = "reqcptr" /\ Raw(reg[x.a])

(* The last propagate only feeds the metadata, which is not modelled.        *)
Check ==
  /\ phase = "check"
  /\ S' = checkEscapesAndMix(guardDynamicUptrReturns(foldReencodedDecodes(S)))
  /\ IF S'.errors THEN phase' = "rejected" /\ UNCHANGED <<pc, reg, mem>>
     ELSE /\ phase' = "run" /\ pc' = 1
          /\ \E h \in Actuals(prog) : reg' = InitialReg(S'.ir, h)
          /\ mem' = InitialMem(S'.ir)
  /\ UNCHANGED <<prog, rounds>>

Step ==
  /\ phase = "run" /\ pc <= Len(S.ir)
  /\ LET x == S.ir[pc]
     IN /\ ~Stops(x) /\ x.op # "ret"
        /\ \E w \in Value(x) : reg' = [reg EXCEPT ![x.id] = w]
        /\ mem' = CASE x.op = "store" -> [mem EXCEPT ![reg[x.a][1]][reg[x.a][2] + 1] = reg[x.b]]
                    [] x.op = "get" -> [mem EXCEPT ![reg[x.a][1]][1] = To("H")]
                    [] OTHER -> mem
  /\ pc' = pc + 1
  /\ UNCHANGED <<prog, S, phase, rounds>>

Next == Propagate \/ Rewrite \/ Check \/ Step

Spec == Init /\ [][Next]_vars

-----------------------------------------------------------------------------

(* An accepted function never keeps the address of a stack object, as it is, *)
(* outside the stack: encodeEscapingSptrStores found every store that lets   *)
(* one escape, also when the address came by way of variables, fields and    *)
(* other encoded words.                                                      *)
HeapNeverRaw ==
  phase = "run" =>
    \A o \in DOMAIN mem : ~OnStack(o) => \A f \in 1 .. 2 : ~Raw(mem[o][f])

(* decodeAutoUptrLoads decodes what is read from storage that may hold       *)
(* encoded words: none is used as an address or returned.                    *)
UsesDecoded ==
  phase = "run" /\ pc <= Len(S.ir) =>
    LET x == S.ir[pc]
    IN /\ x.op \in {"load", "store"} => ~reg[x.a][3]
       /\ x.op = "ret" => ~reg[x.a][3]
=============================================================================
