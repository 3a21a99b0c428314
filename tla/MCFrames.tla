------------------------------ MODULE MCFrames ------------------------------
(***************************************************************************)
(* Addresses of a frame across calls that move the stack.  Every behaviour *)
(* belongs to one pass.  "reload": SafepointReload on every graph of three *)
(* blocks, up to renaming, with a definition that dominates all uses; the  *)
(* third block may be one that no path leads to.  "repair": FrameAddrFix   *)
(* with one callee-saved and one caller-saved register, a spill slot and a *)
(* root, a frame of four words.  The other one stays in an initial state.  *)
(***************************************************************************)
EXTENDS FrameAddrFix, SafepointReload, FiniteSets

VARIABLE pass

Foreign(o) == [k |-> "stk", o |-> o, own |-> FALSE, lag |-> 0]
Heap == [k |-> "abs", o |-> 1, own |-> FALSE, lag |-> 0]

MCLoaded == {Heap, Foreign(2)}
MCOthers == {mk("NotFA"), fa("rbp", -1), mk("D1")}
MCOffs == -2 .. 2
MCRspOffs == {-2, -1}
MCDisps == {-1}
MCDeltas == {0, 4}

MCBlock == 1 .. 3

Graphs3 == {[b \in MCBlock |-> IF b = 1 THEN s ELSE IF b = 2 THEN t ELSE u] :
              s \in {{2}, {2, 3}}, t \in SUBSET {2, 3}, u \in SUBSET {2, 3}}

Closure(succ, S, without) ==
  LET step[T \in SUBSET MCBlock] ==
        LET more == T \cup (UNION {succ[b] : b \in T} \ {without})
        IN IF more = T THEN T ELSE step[more]
  IN step[S \ {without}]

DomTree(succ) == [b \in MCBlock |-> MCBlock \ (Closure(succ, {1}, b) \cup {b})]

Bodies == {<<>>, <<"use">>, <<"call">>, <<"callarg">>, <<"call", "use">>, <<"softarg", "call">>,
           <<"soft">>, <<"note", "call">>}

Codes == {c \in [MCBlock -> Bodies] : /\ c[1] \in {<<>>, <<"use">>, <<"call">>}
                                     /\ c[3] \notin {<<"soft">>, <<"note", "call">>}}

(* Where V comes from: an argument, or the first or last operation of a      *)
(* block.                                                                    *)
Sources == {<<"argument", 1>>} \cup {"first", "last", "result"} \X MCBlock

WithDef(code, src) ==
  CASE src[1] = "argument" -> code
    [] src[1] = "first" -> [code EXCEPT ![src[2]] = <<"def">> \o @]
    [] src[1] = "last" -> [code EXCEPT ![src[2]] = Append(@, "def")]
    [] OTHER -> [code EXCEPT ![src[2]] = Append(@, "defcall")]

DefOf(code, src) ==
  [block |-> src[2],
   at |-> CASE src[1] = "argument" -> 0 [] src[1] = "first" -> 1 [] OTHER -> Len(code[src[2]]) + 1]

ReloadPrograms(g, s, phi, how) ==
  {p \in {[succ |-> g, code |-> WithDef(c, s), phi |-> phi, def |-> DefOf(c, s),
          dom |-> DomTree(g), how |-> how] : c \in Codes} : WellFormed(p)}

Straight == [b \in MCBlock |-> {b + 1} \cap MCBlock]

Idle == \E p \in ReloadPrograms(Straight, <<"argument", 1>>, {}, "remat") :
          p.code = [b \in MCBlock |-> <<>>] /\ prog = p /\ Analyse

(* On entry the caller-saved register holds an argument, the callee-saved    *)
(* one a value of the caller's that this function never reads.               *)
MCInit ==
  /\ Init /\ rsp = -1
  /\ \A r \in Csr : val[r] = Undef
  /\ \/ pass = "repair" /\ Idle /\ \A r \in Tmp : val[r] \in Loaded
     \/ /\ pass = "reload" /\ val = [l \in Loc |-> Undef]
        /\ \E g \in Graphs3, s \in Sources, phi \in {{}, {2}}, h \in {"stackmap", "reanchor", "remat"} :
             prog \in ReloadPrograms(g, s, phi, h)
        /\ Analyse

MCNext ==
  /\ UNCHANGED pass
  /\ \/ pass = "repair" /\ Next /\ UNCHANGED reloadVars
     \/ pass = "reload" /\ ReloadNext /\ UNCHANGED vars

MCSpec == MCInit /\ [][MCNext]_<<pass, vars, reloadVars>>
=============================================================================
