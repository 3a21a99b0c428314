------------------------------ MODULE MCThunk ------------------------------
(***************************************************************************)
(* Thunks of both machines, C -> Go stubs, and the register moves they are *)
(* made of taken on their own: every set of moves between the registers of *)
(* Reg.                                                                    *)
(*                                                                         *)
(* The signatures: a run of arguments that fills one bank up to or past    *)
(* its last register, then a few of mixed kinds; scalars only for stubs.   *)
(***************************************************************************)
EXTENDS ParallelMove, GoAbi

VARIABLES program, sig, lay, args, pc, k, gpr, fpr, gfrom, ffrom, mem, sp, fp

thunkVars == <<sig, lay, args, pc, k, gpr, fpr, gfrom, ffrom, mem, sp, fp>>

Repeat(p, n) == [i \in 1 .. n |-> p]

Kinds == {<<"ptr">>, <<"i8">>, <<"float">>, <<"i64", "i64">>, <<"double", "double">>}

Tails == {<<>>} \cup {<<a>> : a \in Kinds} \cup {<<a, b>> : a, b \in Kinds}
           \cup {<<a, <<"ptr">>, b>> : a, b \in Kinds}

Heads ==
  {Repeat(<<"ptr">>, n) : n \in {0, 1, 4, 5, 6, 7, 8, 9, 15, 16}}
    \cup {Repeat(<<"double">>, n) : n \in {7, 8, 15, 16}}
    \cup {Repeat(<<"i64">>, 6) \o Repeat(<<"double">>, 15), Repeat(<<"i64", "i64">>, 4)}

Returns == {<<>>, <<"i64">>, <<"i64", "ptr">>, <<"double", "i64">>, <<"double", "double">>}

Signatures ==
  {[params |-> h \o t, ret |-> <<"i64", "ptr">>] : h \in Heads, t \in Tails}
    \cup {[params |-> <<<<"ptr">>>>, ret |-> r] : r \in Returns}

Scalars == {<<"ptr">>, <<"i64">>, <<"double">>}

ScalarTails == {<<>>} \cup {<<a>> : a \in Scalars} \cup {<<a, b, c>> : a, b, c \in Scalars}

ScalarHeads ==
  {Repeat(<<"ptr">>, n) : n \in {0, 1, 4, 5, 6, 8, 9}}
    \cup {Repeat(<<"double">>, n) : n \in {7, 8, 14, 15}}
    \cup {<<<<"i8">>, <<"i32">>, <<"ptr">>>>}

StubSignatures ==
  {[params |-> h \o t, ret |-> <<"i64", "ptr">>] : h \in ScalarHeads, t \in ScalarTails}
    \cup {[params |-> <<<<"ptr">>>>, ret |-> r] : r \in Returns}
    \cup {[params |-> Repeat(<<"i32">>, n), ret |-> <<"i64">>] : n \in {6, 7, 9, 10}}

Amd == INSTANCE Thunk WITH Abi <- amd64
Arm == INSTANCE Thunk WITH Abi <- arm64
Stub == INSTANCE GoExtern WITH Signatures <- StubSignatures

ASSUME Accepted == Amd!Accepted /\ Stub!Declared

(* What is not followed stays in one of its initial states.                  *)
NoMoves ==
  /\ from = <<>>
  /\ \E v \in Value : /\ \A u \in Value : v <= u
                      /\ regs = [r \in Reg \cup {Scratch} |-> v] /\ want = [r \in Reg |-> v]

MCInit ==
  \/ program = "amd64" /\ Amd!Init /\ NoMoves /\ args = 0
  \/ program = "arm64" /\ Arm!Init /\ NoMoves /\ args = 0
  \/ program = "stub" /\ Stub!Init /\ NoMoves /\ ffrom = <<>> /\ fp = 0
  \/ program = "moves" /\ MoveInit /\ sig = [params |-> <<<<"ptr">>>>, ret |-> <<>>] /\ Amd!Init /\ args = 0

MCNext ==
  /\ UNCHANGED program
  /\ \/ program = "amd64" /\ Amd!Next /\ UNCHANGED <<moveVars, args>>
     \/ program = "arm64" /\ Arm!Next /\ UNCHANGED <<moveVars, args>>
     \/ program = "stub" /\ Stub!Next /\ UNCHANGED <<moveVars, ffrom, fp>>
     \/ program = "moves" /\ MoveNext /\ UNCHANGED thunkVars

(* The loop of parallelGPR runs until nothing is pending.                    *)
MCSpec ==
  MCInit /\ [][MCNext]_<<program, moveVars, thunkVars>> /\ WF_moveVars(program = "moves" /\ MoveNext)

(* At the call of name.impl no argument was lost, and at the return every    *)
(* result is where Go expects it, on either machine.                         *)
ValuesArrive ==
  CASE program = "arm64" -> Arm!ArgsArrive /\ Arm!ResultsArrive
    [] program = "amd64" -> Amd!ArgsArrive /\ Amd!ResultsArrive
    [] OTHER -> TRUE

(* The maps emitWrapperTables writes mark the words that hold pointers and   *)
(* no other while the C function runs.                                       *)
MapsExact ==
  CASE program = "arm64" -> Arm!MapsExact [] program = "amd64" -> Amd!MapsExact [] OTHER -> TRUE

(* The runtime can unwind through the thunk at any of its instructions, and  *)
(* through a stub: the frame table gives the distance to the entry SP, so    *)
(* the stack can grow inside the Go function.                                *)
Unwinds ==
  CASE program = "arm64" -> Arm!Unwinds
    [] program = "amd64" -> Amd!Unwinds
    [] program = "stub" -> Stub!StubUnwinds
    [] OTHER -> TRUE

(* At the call every argument is where the Go convention looks for it, and   *)
(* r14 is g.                                                                 *)
ArgsReachGo == program = "stub" => Stub!ArgsReachGo

(* The C caller gets its callee-saved registers and its frame pointer back,  *)
(* whatever the Go function wrote into its argument area.                    *)
CalleeSavedKept == program = "stub" => Stub!CalleeSavedKept

(* The results are in the C result registers at the return, rbx included     *)
(* although it is restored on the way.                                       *)
ResultsReachC == program = "stub" => Stub!ResultsReachC
=============================================================================
