---------------------------- MODULE MCToolchain ----------------------------
(***************************************************************************)
(* From C files to a Go program.  Every behaviour belongs to one job.      *)
(* "convert": the programs of MCConvert are converted.  "build": two goc   *)
(* processes on a directory of two C files; their command lines differ in  *)
(* everything that changes the passes, and two of them share the object    *)
(* directory and the kept work directory, so that one process finds what   *)
(* another left.  The other job stays where it starts.                     *)
(***************************************************************************)
EXTENDS Build, TLC

CONSTANTS ProfileArch, Tag, Programs, p1, p2

MCProcs == {p1, p2}
Sym == Permutations(MCProcs)

MCConfigs == {
  [units |-> <<1, 2>>, link |-> TRUE, arch |-> "amd64", opt |-> 0, report |-> FALSE,
   renames |-> TRUE, magic |-> TRUE, keep |-> TRUE, objdir |-> "cache"],
  [units |-> <<1, 2>>, link |-> TRUE, arch |-> "arm64", opt |-> 2, report |-> TRUE,
   renames |-> FALSE, magic |-> FALSE, keep |-> TRUE, objdir |-> "cache"],
  [units |-> <<2>>, link |-> FALSE, arch |-> "amd64", opt |-> 3, report |-> FALSE,
   renames |-> FALSE, magic |-> FALSE, keep |-> FALSE, objdir |-> "dir"] }

VARIABLES job, prog, n, stage, conv, st, objs

convertVars == <<prog, n, stage, conv, st, objs>>

C == INSTANCE MCConvert

(* The constants' values are MCConvert's own, which do not depend on them.   *)
Given == INSTANCE MCConvert WITH ProfileArch <- <<>>, Tag <- <<>>, Programs <- {}

MCProfileArch == Given!MCProfileArch
MCTag == Given!MCTag
MCPrograms == Given!MCPrograms

Nothing == C!P("amd64", C!Meta(FALSE, 1), <<>>, <<>>, FALSE)

MCInit ==
  /\ Init
  /\ \/ job = "convert" /\ C!Init /\ \A p \in Procs : ~cfg[p].link
     \/ job = "build" /\ prog = Nothing /\ C!Begin

MCNext ==
  /\ UNCHANGED job
  /\ \/ job = "convert" /\ C!Next /\ UNCHANGED vars
     \/ job = "build" /\ Next /\ UNCHANGED convertVars

MCSpec == MCInit /\ [][MCNext]_<<job, vars, convertVars>>

(* Every reference C code makes reaches, in the linked Go program, the byte  *)
(* it names in C (convert.go, data.go, write.go, arm64.go, goobj numbering). *)
RefsDenote == C!RefsDenote

(* Go calls a C function by its ABIInternal name and reaches its body, and   *)
(* no two objects define one name differently (newConverter, symabis,        *)
(* resolveText, InitText, Globl).                                            *)
GoCallsReach == C!GoCallsReach

(* Go's runtime reads from the object exactly what the tables of an accepted *)
(* container say (Sections, Parse, Verify, pcbytes, stackmaps, FuncInfo).    *)
TablesSurvive == C!TablesSurvive

(* Two builds have no semantic difference exactly when the back end wrote    *)
(* the same code, data and tables (goobj/diff.go).                           *)
DiffExact == C!DiffExact
=============================================================================
