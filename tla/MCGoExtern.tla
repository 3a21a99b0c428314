----------------------------- MODULE MCGoExtern -----------------------------
(***************************************************************************)
(* Signatures for GoExtern with pointers in registers and on the stack.    *)
(***************************************************************************)
EXTENDS GoExtern

MCSignatures == {[params |-> [i \in 1 .. n |-> <<"ptr">>], ret |-> <<"i64">>] : n \in {1, 7, 10}}
=============================================================================
