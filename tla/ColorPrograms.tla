---------------------------- MODULE ColorPrograms ---------------------------
(***************************************************************************)
(* Functions for ColorEscape.  In Inferred every short sequence of         *)
(* assignments over the storage a pointer can be in: variables, a global,  *)
(* fields of objects on the heap, on the stack and of either, an           *)
(* assignment to one of two places, a variable or *pp given away.  In      *)
(* Defaulted (--default-ptr-color cptr) a stack address is assigned to the *)
(* place where it is kept and not passed on through a second variable.     *)
(***************************************************************************)
Var(x) == <<"var", x>>
Arrow(x, f) == <<"arrow", x, f>>
objField == <<"dot", "obj", 0>>
Addr == <<"addr">>
Malloc == <<"malloc">>
Star == <<"star">>

Sets(L, R) == {[op |-> "set", l |-> l, r |-> r] : l \in L, r \in R}
Rets(R) == {[op |-> "ret", l |-> Var("p"), r |-> r] : r \in R}
Get(x) == [op |-> "get", l |-> Var(x), r |-> Addr]

Function(code, default, actuals) ==
  [code |-> code, default |-> default, actuals |-> actuals, ann |-> [v \in {"p", "G"} |-> "none"]]

Fresh == {Addr, Malloc, Var("h.a")}

(* Two assignments, over every kind of place.                                *)
Wide == {Var("p"), Var("q"), Var("G"), Arrow("p", 0), Arrow("p", 1), Arrow("h.a", 0), objField}
WideFunctions ==
  {Function(<<a, b>>, "none", c) :
     a \in Sets(Wide \cup {<<"cond", "q">>}, Fresh), b \in Sets(Wide, Wide) \cup Rets(Wide \cup {Addr}),
     c \in {{"stack"}, {"stack", "heap"}}}

(* Three, over the places an encoded word can be moved between.              *)
Deep == {Var("p"), Var("G"), Arrow("p", 0), Arrow("G", 0)}
DeepFunctions ==
  {Function(<<a, b, c>>, "none", {}) :
     a \in Sets(Deep, {Addr}), b \in Sets(Deep, Deep),
     c \in Sets(Deep, Deep) \cup Rets(Deep)}

(* A variable, or the one pp points to, that others write.                   *)
Shared == {Var("p"), Var("G")}
SharedFunctions ==
  {Function(<<Get("p"), a, b>>, "none", {}) :
     a \in Sets(Shared, Shared \cup Fresh), b \in Sets(Shared, Shared \cup Fresh) \cup Rets(Shared)}
    \cup {Function(<<a, b>>, "none", {}) : a \in Sets({Star}, Fresh \cup {Var("G")}), b \in Sets(Shared, Shared)}
    \cup {Function(<<a, b>>, "none", {}) : a \in Sets({Var("G")}, Fresh), b \in Sets(Shared, {Star})}

(* The colours declared for p and G.                                         *)
Colors == {[v \in {"p", "G"} |-> IF v = "p" THEN c ELSE d] :
             c \in {"sptr", "uptr", "auto"}, d \in {"cptr", "sptr", "uptr", "auto"}}
Plain == {Var("p"), Var("q"), Var("G")}
AnnotatedFunctions ==
  {[Function(<<a, b>>, "none", {}) EXCEPT !.ann = n] :
     a \in Sets(Plain, {Addr, Malloc}), b \in Sets(Plain, Plain) \cup Rets(Plain), n \in Colors}

Inferred == WideFunctions \cup DeepFunctions \cup SharedFunctions \cup AnnotatedFunctions

Kept == {Var("p"), Var("G"), Arrow("G", 0)}
Defaulted ==
  {Function(<<a, b, c>>, "cptr", d) :
     a \in Sets(Kept, {Addr, Malloc}), b \in Sets(Kept, Kept \cup {Addr}), c \in Sets(Kept, Kept) \cup Rets(Kept),
     d \in {{}, {"stack"}}}

MCPrograms == Inferred \cup Defaulted

(* A stack address copied from one variable to another, by default cptr.     *)
Copies ==
  {Function(<<a, b, c>>, "cptr", {}) :
     a \in Sets({Var("p")}, {Addr, Malloc}), b \in Sets({Var("q")}, {Var("p"), Addr}),
     c \in Sets({Var("G")}, {Var("p"), Var("q")})}
=============================================================================
