------------------------------ MODULE MCColor ------------------------------
(* ColorEscape on its own, for the programs of ColorPrograms.                *)
EXTENDS ColorEscape, ColorPrograms
=============================================================================
