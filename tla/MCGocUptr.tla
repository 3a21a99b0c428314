----------------------------- MODULE MCGocUptr -----------------------------
(* A small machine: 5-bit words, two goroutines, four places for a stack.    *)
EXTENDS GocUptr, TLC

CONSTANTS g1, g2, h1, h2

MCOwner == h1 :> g1 @@ h2 :> g2

MCStacks == {[lo |-> 3, hi |-> 5], [lo |-> 6, hi |-> 9],
             [lo |-> 10, hi |-> 12], [lo |-> 13, hi |-> 16]}
=============================================================================
