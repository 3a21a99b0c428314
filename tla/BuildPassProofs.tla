----------------------------- MODULE BuildPassProofs -----------------------------
(* The passes of goc over the files of a work directory: every pass reads what the   *)
(* earlier passes of the same process made from the C file in hand.                  *)
EXTENDS BuildProofs

(* The leaves are first-order reasoning for Zenon, where they do not name    *)
(* another prover.                                                           *)
USE Zenon

(* The work directory. *)

\* When a pass of the frontend runs: the optimiser and the first stack map pass only
\* with -O, the report only when it is asked for.
LEMMA FrontendRuns ==
  ASSUME NEW c
  PROVE  LET F == Frontend(c) IN
         /\ F[1].run /\ F[2].run /\ (F[3].run <=> c.report) /\ F[4].run
         /\ (F[5].run <=> c.opt # 0) /\ (F[6].run <=> c.opt # 0) /\ (F[7].run <=> c.opt # 0)
BY DEF Frontend, Pass

\* The same for the backend: its stack map pass runs exactly when the frontend's did not.
LEMMA BackendRuns ==
  ASSUME NEW c
  PROVE  LET B == Backend(c) IN
         /\ B[1].run /\ B[2].run /\ (B[3].run <=> c.renames) /\ B[4].run /\ B[5].run
         /\ (B[6].run <=> ~Prepared(c)) /\ B[7].run /\ (B[8].run <=> c.arch # "arm64") /\ B[9].run /\ B[10].run
BY DEF Backend, Pass

\* The files a pass of the frontend writes.
LEMMA FrontendWrites ==
  ASSUME NEW c
  PROVE  LET F == Frontend(c) IN
         /\ F[1].out = {"a.ll"} /\ F[2].out = {"a.color.ll"} /\ F[3].out = {"a.color.nodbg.ll"}
         /\ F[4].out = {"a.gate.ll"} /\ F[5].out = {"a.opt.ll"} /\ F[6].out = {"a.sm.ll"}
         /\ F[7].out = {"a.reanchor.ll"}
BY DEF Frontend, Pass

\* The files a pass of the backend writes.
LEMMA BackendWrites ==
  ASSUME NEW c
  PROVE  LET B == Backend(c) IN
         /\ B[1].out = {"body.ll"} /\ B[2].out = {"body.ll"} /\ B[3].out = {"body.ll"}
         /\ B[4].out = {"thunks.goc.s", "body.impl.ll", "thunks.s", "goabi.json"}
         /\ B[5].out = {"body.ll"} /\ B[6].out = {"body.sm.ll"} /\ B[7].out = {"body.s", "body.goc.s"}
         /\ B[8].out = {"body.s"} /\ B[9].out = {"body.thunks.s"} /\ B[10].out = {"body.llc.o"}
BY DEF Backend, Pass

\* The files a pass of the frontend reads.
LEMMA FrontendReads ==
  ASSUME NEW c
  PROVE  LET F == Frontend(c) IN
         /\ F[1].in = "src" /\ F[2].in = "a.ll" /\ F[3].in = "a.color.ll"
         /\ F[4].in = (IF c.report THEN "a.color.nodbg.ll" ELSE "a.color.ll")
         /\ F[5].in = "a.gate.ll" /\ F[6].in = "a.opt.ll" /\ F[7].in = "a.sm.ll"
         /\ \A k \in 1 .. 7 : F[k].more = {}
BY SMT DEF Frontend, Pass

\* The files a pass of the backend reads.
LEMMA BackendReads ==
  ASSUME NEW c
  PROVE  LET B == Backend(c) IN
         /\ B[1].in = Body(c) /\ B[2].in = "body.ll" /\ B[3].in = "body.ll" /\ B[4].in = "body.ll"
         /\ B[5].in = "body.impl.ll" /\ B[6].in = "body.ll" /\ B[7].in = LlcInput(c)
         /\ B[8].in = "body.s" /\ B[9].in = "body.s" /\ B[10].in = "body.thunks.s"
         /\ B[7].more = {"goabi.json"} /\ B[9].more = {"thunks.s", "body.goc.s", "thunks.goc.s"}
         /\ \A k \in 1 .. 10 : k # 7 /\ k # 9 => B[k].more = {}
BY SMT DEF Backend, Pass

\* Every file a pass reads was written by an earlier pass of the same command line: no
\* combination of options makes a pass read a name that nobody wrote.
LEMMA PassOrder ==
  ASSUME NEW c \in Configs, NEW k \in 2 .. 17, Passes(c)[k].run, NEW f \in Reads(Passes(c)[k])
  PROVE  f # "src" /\ \E m \in 1 .. k - 1 : Passes(c)[m].run /\ f \in Passes(c)[m].out
<1>. DEFINE Writes(m, g) == Passes(c)[m].run /\ g \in Passes(c)[m].out
            R(m) == Reads(Passes(c)[m])
            Ok == f # "src" /\ \E m \in 1 .. k - 1 : Writes(m, f)
<1>1. /\ Passes(c)[1] = Frontend(c)[1] /\ Passes(c)[2] = Frontend(c)[2] /\ Passes(c)[3] = Frontend(c)[3]
      /\ Passes(c)[4] = Frontend(c)[4] /\ Passes(c)[5] = Frontend(c)[5] /\ Passes(c)[6] = Frontend(c)[6]
      /\ Passes(c)[7] = Frontend(c)[7]
  BY SMT, PassAt
<1>2. /\ Passes(c)[8] = Backend(c)[1] /\ Passes(c)[9] = Backend(c)[2] /\ Passes(c)[10] = Backend(c)[3]
      /\ Passes(c)[11] = Backend(c)[4] /\ Passes(c)[12] = Backend(c)[5] /\ Passes(c)[13] = Backend(c)[6]
      /\ Passes(c)[14] = Backend(c)[7] /\ Passes(c)[15] = Backend(c)[8] /\ Passes(c)[16] = Backend(c)[9]
      /\ Passes(c)[17] = Backend(c)[10]
  BY SMT, PassAt
<1>3. /\ Writes(1, "a.ll") /\ Writes(2, "a.color.ll") /\ (c.report => Writes(3, "a.color.nodbg.ll"))
      /\ Writes(4, "a.gate.ll")
      /\ c.opt # 0 => Writes(5, "a.opt.ll") /\ Writes(6, "a.sm.ll") /\ Writes(7, "a.reanchor.ll")
  BY SMTT(30), <1>1, FrontendRuns, FrontendWrites
<1>4. /\ Writes(8, "body.ll") /\ Writes(11, "body.impl.ll") /\ Writes(11, "goabi.json")
      /\ Writes(11, "thunks.s") /\ Writes(11, "thunks.goc.s") /\ (~Prepared(c) => Writes(13, "body.sm.ll"))
      /\ Writes(14, "body.s") /\ Writes(14, "body.goc.s") /\ Writes(16, "body.thunks.s")
  <2>1. /\ Passes(c)[8].run /\ Passes(c)[11].run /\ (~Prepared(c) => Passes(c)[13].run)
        /\ Passes(c)[14].run /\ Passes(c)[16].run
    BY <1>2, BackendRuns
  <2>. QED BY SMT, <1>2, <2>1, BackendWrites
<1>5. /\ R(2) = {"a.ll"} /\ R(3) = {"a.color.ll"}
      /\ (c.report => R(4) = {"a.color.nodbg.ll"}) /\ (~c.report => R(4) = {"a.color.ll"})
      /\ R(5) = {"a.gate.ll"} /\ R(6) = {"a.opt.ll"} /\ R(7) = {"a.sm.ll"}
  <2>1. /\ Passes(c)[2].in = "a.ll" /\ Passes(c)[3].in = "a.color.ll" /\ Passes(c)[5].in = "a.gate.ll"
        /\ Passes(c)[6].in = "a.opt.ll" /\ Passes(c)[7].in = "a.sm.ll"
        /\ (c.report => Passes(c)[4].in = "a.color.nodbg.ll") /\ (~c.report => Passes(c)[4].in = "a.color.ll")
    BY SMT, <1>1, FrontendReads
  <2>2. /\ Passes(c)[2].more = {} /\ Passes(c)[3].more = {} /\ Passes(c)[4].more = {}
        /\ Passes(c)[5].more = {} /\ Passes(c)[6].more = {} /\ Passes(c)[7].more = {}
    BY SMTT(30), <1>1, FrontendReads
  <2>. QED BY <2>1, <2>2 DEF Reads
<1>6. k = 3 \/ k = 5 \/ k = 6 \/ k = 7 => IF k = 3 THEN c.report ELSE c.opt # 0
  BY <1>1, FrontendRuns
<1>7. /\ R(8) = {Body(c)} /\ R(9) = {"body.ll"} /\ R(10) = {"body.ll"} /\ R(11) = {"body.ll"}
      /\ R(12) = {"body.impl.ll"} /\ R(13) = {"body.ll"} /\ R(14) = {LlcInput(c), "goabi.json"}
      /\ R(15) = {"body.s"} /\ R(16) = {"body.s", "thunks.s", "body.goc.s", "thunks.goc.s"}
      /\ R(17) = {"body.thunks.s"}
  BY SMT, <1>2, BackendReads DEF Reads
<1>8. f \in R(k)
  OBVIOUS
<1>9. Ok
  <2>. HIDE DEF R, Writes
  <2>1. CASE k \in 2 .. 4
    BY SMT, <1>3, <1>5, <1>6, <1>8, <2>1
  <2>2. CASE k \in 5 .. 7
    BY SMT, <1>3, <1>5, <1>6, <1>8, <2>2
  <2>3. CASE k = 8
    BY SMT, <1>3, <1>7, <1>8, <2>3 DEF Body
  <2>4. CASE k \in 9 .. 13
    BY SMT, <1>4, <1>7, <1>8, <2>4
  <2>5. CASE k \in 14 .. 17
    BY SMT, <1>4, <1>7, <1>8, <2>5 DEF LlcInput
  <2>. QED BY SMT, <2>1, <2>2, <2>3, <2>4, <2>5
<1>. QED BY <1>9

----------------------------------------------------------------------------------
(* The logs: what has been done to a file. *)

\* Neither inlined nor mapped yet.
Plain(log) == \A i \in 1 .. Len(log) : log[i] \notin {"opt", "stackmap", "reanchor", "llc"}

\* Inlined after the colouring and the gate, and not mapped yet.
Inlined(log) ==
  /\ \A i \in 1 .. Len(log) : log[i] \notin {"stackmap", "reanchor", "llc"}
  /\ \A i, j \in 1 .. Len(log) : log[i] \in {"color", "gate"} /\ log[j] = "opt" => i < j

\* The one stack map pass of a log is at position m.
MappedAt(log, m) ==
  /\ log[m] = "stackmap"
  /\ \A i \in 1 .. Len(log) : /\ log[i] = "stackmap" => i = m
                              /\ log[i] \in {"clang", "color", "gate", "opt"} => i < m
                              /\ log[i] \in {"reanchor", "llc"} => i > m
  /\ \A i, j \in 1 .. Len(log) : log[i] \in {"color", "gate"} /\ log[j] = "opt" => i < j

\* MappedAt is OnceMapped with the position named.
LEMMA OnceMappedAt ==
  ASSUME NEW log \in Seq(Tools)
  PROVE  OnceMapped(log) <=> \E m \in 1 .. Len(log) : MappedAt(log, m)
<1>. DEFINE at(tools) == {i \in DOMAIN log : log[i] \in tools}
<1>0. DOMAIN log = 1 .. Len(log)
  BY SMT
<1>1. ASSUME OnceMapped(log) PROVE \E m \in 1 .. Len(log) : MappedAt(log, m)
  <2>1. PICK m \in at({"stackmap"}) :
          /\ at({"stackmap"}) = {m}
          /\ \A i \in at({"clang", "color", "gate", "opt"}) : i < m
          /\ \A i \in at({"reanchor", "llc"}) : i > m
          /\ \A j \in at({"opt"}), i \in at({"color", "gate"}) : i < j
    BY <1>1 DEF OnceMapped
  <2>2. \A i \in 1 .. Len(log) : log[i] = "stackmap" => i = m
    BY <1>0, <2>1
  <2>3. m \in 1 .. Len(log) /\ log[m] = "stackmap"
    BY <1>0
  <2>. QED BY <1>0, <2>1, <2>2, <2>3 DEF MappedAt
<1>2. ASSUME NEW m \in 1 .. Len(log), MappedAt(log, m) PROVE OnceMapped(log)
  <2>1. at({"stackmap"}) = {m}
    BY <1>0, <1>2 DEF MappedAt
  <2>. QED BY <1>0, <1>2, <2>1 DEF MappedAt, OnceMapped
<1>. QED BY <1>1, <1>2

\* A pass that is none of these leaves a plain log plain; opt makes it an inlined one.
LEMMA PlainAppend ==
  ASSUME NEW log \in Seq(Tools), NEW t \in Tools, Plain(log)
  PROVE  /\ t \notin {"opt", "stackmap", "reanchor", "llc"} => Plain(Append(log, t))
         /\ t = "opt" => Inlined(Append(log, t))
<1>1. /\ Len(Append(log, t)) = Len(log) + 1
      /\ \A i \in 1 .. Len(log) : Append(log, t)[i] = log[i]
      /\ Append(log, t)[Len(log) + 1] = t
  BY SMT
<1>2. \A i \in 1 .. Len(log) + 1 : i \in 1 .. Len(log) \/ i = Len(log) + 1
  BY SMT
<1>3. t \notin {"opt", "stackmap", "reanchor", "llc"} => Plain(Append(log, t))
  BY <1>1, <1>2 DEF Plain
<1>4. t = "opt" => Inlined(Append(log, t))
  BY SMT, <1>1, <1>2 DEF Plain, Inlined
<1>. QED BY <1>3, <1>4

\* The stack map pass on a plain or an inlined log.
LEMMA MapAppend ==
  ASSUME NEW log \in Seq(Tools), Plain(log) \/ Inlined(log)
  PROVE  OnceMapped(Append(log, "stackmap"))
<1>. DEFINE new == Append(log, "stackmap")
            m == Len(log) + 1
<1>1. new \in Seq(Tools) /\ Len(new) = m /\ new[m] = "stackmap" /\ \A i \in 1 .. Len(log) : new[i] = log[i]
  BY SMT DEF Tools
<1>2. \A i \in 1 .. m : i \in 1 .. Len(log) \/ i = m
  BY SMT
<1>3. /\ \A i \in 1 .. Len(log) : log[i] \notin {"stackmap", "reanchor", "llc"}
      /\ \A i, j \in 1 .. Len(log) : log[i] \in {"color", "gate"} /\ log[j] = "opt" => i < j
  BY DEF Plain, Inlined
<1>4. m \in 1 .. Len(new) /\ \A i \in 1 .. Len(log) : i < m
  BY SMT, <1>1
<1>5. MappedAt(new, m)
  <2>. HIDE DEF new, m
  <2>. QED BY <1>1, <1>2, <1>3, <1>4 DEF MappedAt
<1>. QED BY <1>1, <1>4, <1>5, OnceMappedAt

\* Later passes keep the maps recorded once.
LEMMA OnceAppend ==
  ASSUME NEW log \in Seq(Tools), NEW t \in Tools, OnceMapped(log),
         t \notin {"clang", "color", "gate", "opt", "stackmap"}
  PROVE  OnceMapped(Append(log, t))
<1>. DEFINE new == Append(log, t)
            n == Len(log) + 1
<1>1. PICK m \in 1 .. Len(log) : MappedAt(log, m)
  BY OnceMappedAt
<1>2. new \in Seq(Tools) /\ Len(new) = n /\ new[n] = t /\ \A i \in 1 .. Len(log) : new[i] = log[i]
  BY SMT
<1>3. \A i \in 1 .. n : i \in 1 .. Len(log) \/ i = n
  BY SMT
<1>4. n > m /\ m \in 1 .. Len(new)
  BY SMT, <1>2
<1>5. MappedAt(new, m)
  <2>. HIDE DEF new, n
  <2>. QED BY <1>1, <1>2, <1>3, <1>4 DEF MappedAt
<1>. QED BY <1>2, <1>4, <1>5, OnceMappedAt

\* How far the IR of a file is: the frontend maps it at an optimisation level, and
\* otherwise the backend does, into body.sm.ll.
Phase(c, f) ==
  CASE f \in {"a.ll", "a.color.ll", "a.color.nodbg.ll", "a.gate.ll"} -> "plain"
    [] f = "a.opt.ll" -> "inlined"
    [] f \in {"body.ll", "body.impl.ll", "thunks.s", "thunks.goc.s", "goabi.json"} ->
         IF Prepared(c) THEN "mapped" ELSE "plain"
    [] OTHER -> "mapped"

LogOK(phase, log) == CASE phase = "plain" -> Plain(log)
                       [] phase = "inlined" -> Inlined(log)
                       [] phase = "mapped" -> OnceMapped(log)

\* What a tool may do to the phase of a file.
Advances(from, tool, to) ==
  \/ from = "plain" /\ to = "plain" /\ tool \notin {"opt", "stackmap", "reanchor", "llc"}
  \/ from = "plain" /\ to = "inlined" /\ tool = "opt"
  \/ from \in {"plain", "inlined"} /\ to = "mapped" /\ tool = "stackmap"
  \/ from = "mapped" /\ to = "mapped" /\ tool \notin {"clang", "color", "gate", "opt", "stackmap"}

\* A tool that advances the phase keeps the log in order.
LEMMA LogAdvances ==
  ASSUME NEW log \in Seq(Tools), NEW t \in Tools, NEW from, NEW to, Advances(from, t, to), LogOK(from, log)
  PROVE  LogOK(to, Append(log, t))
<1>1. CASE from = "plain" /\ to = "plain" /\ t \notin {"opt", "stackmap", "reanchor", "llc"}
  BY <1>1, PlainAppend DEF LogOK
<1>2. CASE from = "plain" /\ to = "inlined" /\ t = "opt"
  BY <1>2, PlainAppend DEF LogOK
<1>3. CASE from \in {"plain", "inlined"} /\ to = "mapped" /\ t = "stackmap"
  BY <1>3, MapAppend DEF LogOK
<1>4. CASE from = "mapped" /\ to = "mapped" /\ t \notin {"clang", "color", "gate", "opt", "stackmap"}
  BY <1>4, OnceAppend DEF LogOK
<1>. QED BY <1>1, <1>2, <1>3, <1>4 DEF Advances

\* The tools of the passes.
LEMMA FrontendTools ==
  ASSUME NEW c
  PROVE  LET F == Frontend(c) IN
         /\ F[1].tool = "clang" /\ F[2].tool = "color" /\ F[3].tool = "strip" /\ F[4].tool = "gate"
         /\ F[5].tool = "opt" /\ F[6].tool = "stackmap" /\ F[7].tool = "reanchor"
BY DEF Frontend, Pass

\* The tools of the backend.
LEMMA BackendTools ==
  ASSUME NEW c
  PROVE  LET B == Backend(c) IN
         /\ B[1].tool = "copy" /\ B[2].tool = "fix-ir" /\ B[3].tool = "rename" /\ B[4].tool = "goabi"
         /\ B[5].tool = "copy" /\ B[6].tool = "stackmap" /\ B[7].tool = "llc" /\ B[8].tool = "align"
         /\ B[9].tool = "concat" /\ B[10].tool = "mc"
BY DEF Backend, Pass

\* The phases of the files of the frontend, and of those of the backend.
LEMMA Phases ==
  ASSUME NEW c
  PROVE  /\ \A f \in {"a.ll", "a.color.ll", "a.color.nodbg.ll", "a.gate.ll"} : Phase(c, f) = "plain"
         /\ Phase(c, "a.opt.ll") = "inlined"
         /\ \A f \in {"a.sm.ll", "a.reanchor.ll", "body.sm.ll", "body.s", "body.goc.s", "body.thunks.s",
                      "body.llc.o"} : Phase(c, f) = "mapped"
         /\ \A f \in {"body.ll", "body.impl.ll", "thunks.s", "thunks.goc.s", "goabi.json"} :
              Phase(c, f) = IF Prepared(c) THEN "mapped" ELSE "plain"
         /\ Phase(c, Body(c)) = IF Prepared(c) THEN "mapped" ELSE "plain"
         /\ Phase(c, LlcInput(c)) = "mapped"
<1>1. ASSUME NEW f \in {"a.ll", "a.color.ll", "a.color.nodbg.ll", "a.gate.ll"} PROVE Phase(c, f) = "plain"
  BY DEF Phase
<1>2. Phase(c, "a.opt.ll") = "inlined"
  BY DEF Phase
<1>3. ASSUME NEW f \in {"a.sm.ll", "a.reanchor.ll", "body.sm.ll", "body.s", "body.goc.s", "body.thunks.s",
                        "body.llc.o"}
      PROVE  Phase(c, f) = "mapped"
  BY DEF Phase
<1>4. ASSUME NEW f \in {"body.ll", "body.impl.ll", "thunks.s", "thunks.goc.s", "goabi.json"}
      PROVE  Phase(c, f) = IF Prepared(c) THEN "mapped" ELSE "plain"
  BY DEF Phase
<1>5. Phase(c, Body(c)) = IF Prepared(c) THEN "mapped" ELSE "plain"
  BY <1>1, <1>3 DEF Body, Prepared
<1>6. Phase(c, LlcInput(c)) = "mapped"
  BY <1>3, <1>4 DEF LlcInput
<1>. QED BY <1>1, <1>2, <1>3, <1>4, <1>5, <1>6

\* Every pass after clang advances the phase from what it reads to what it writes.
LEMMA PassAdvances ==
  ASSUME NEW c \in Configs, NEW k \in 2 .. 17, Passes(c)[k].run, NEW f \in Passes(c)[k].out
  PROVE  Advances(Phase(c, Passes(c)[k].in), Passes(c)[k].tool, Phase(c, f))
<1>. DEFINE body == IF Prepared(c) THEN "mapped" ELSE "plain"
<1>1. ASSUME NEW m \in 2 .. 4, k = m PROVE Advances(Phase(c, Passes(c)[k].in), Passes(c)[k].tool, Phase(c, f))
  <2>1. Passes(c)[k] = Frontend(c)[m]
    BY SMT, <1>1, PassAt
  <2>2. Phase(c, Passes(c)[k].in) = "plain"
    <3>1. Frontend(c)[m].in \in {"a.ll", "a.color.ll", "a.color.nodbg.ll"}
      BY SMT, <1>1, FrontendReads
    <3>. QED BY SMT, <2>1, <3>1, Phases
  <2>3. Phase(c, f) = "plain"
    BY SMT, <1>1, <2>1, FrontendWrites, Phases
  <2>4. Passes(c)[k].tool \in {"color", "strip", "gate"}
    BY SMT, <1>1, <2>1, FrontendTools
  <2>. QED BY <2>2, <2>3, <2>4 DEF Advances
<1>2. CASE k = 5
  <2>1. Passes(c)[k] = Frontend(c)[5]
    BY SMTT(30), <1>2, PassAt
  <2>2. Phase(c, Passes(c)[k].in) = "plain" /\ Phase(c, f) = "inlined" /\ Passes(c)[k].tool = "opt"
    BY SMT, <2>1, FrontendReads, FrontendWrites, FrontendTools, Phases
  <2>. QED BY <2>2 DEF Advances
<1>3. CASE k = 6
  <2>1. Passes(c)[k] = Frontend(c)[6]
    BY SMTT(30), <1>3, PassAt
  <2>2. Phase(c, Passes(c)[k].in) = "inlined" /\ Phase(c, f) = "mapped" /\ Passes(c)[k].tool = "stackmap"
    BY SMT, <2>1, FrontendReads, FrontendWrites, FrontendTools, Phases
  <2>. QED BY <2>2 DEF Advances
<1>4. CASE k = 7
  <2>1. Passes(c)[k] = Frontend(c)[7]
    BY SMTT(30), <1>4, PassAt
  <2>2. Phase(c, Passes(c)[k].in) = "mapped" /\ Phase(c, f) = "mapped" /\ Passes(c)[k].tool = "reanchor"
    BY SMT, <2>1, FrontendReads, FrontendWrites, FrontendTools, Phases
  <2>. QED BY <2>2 DEF Advances
<1>5. ASSUME NEW m \in 1 .. 5, k = m + 7 PROVE Advances(Phase(c, Passes(c)[k].in), Passes(c)[k].tool, Phase(c, f))
  <2>1. Passes(c)[k] = Backend(c)[m]
    BY SMT, <1>5, PassAt
  <2>2. Phase(c, Passes(c)[k].in) = body
    BY SMT, <1>5, <2>1, BackendReads, Phases
  <2>3. Phase(c, f) = body
    BY SMT, <1>5, <2>1, BackendWrites, Phases
  <2>4. Passes(c)[k].tool \in {"copy", "fix-ir", "rename", "goabi"}
    BY SMT, <1>5, <2>1, BackendTools
  <2>. QED BY <2>2, <2>3, <2>4 DEF Advances
<1>6. CASE k = 13
  <2>1. Passes(c)[k] = Backend(c)[6]
    BY SMT, <1>6, PassAt
  <2>2. ~Prepared(c)
    BY <2>1, BackendRuns
  <2>3. Phase(c, Passes(c)[k].in) = "plain" /\ Phase(c, f) = "mapped" /\ Passes(c)[k].tool = "stackmap"
    BY SMT, <2>1, <2>2, BackendReads, BackendWrites, BackendTools, Phases
  <2>. QED BY <2>3 DEF Advances
<1>7. ASSUME NEW m \in 7 .. 10, k = m + 7 PROVE Advances(Phase(c, Passes(c)[k].in), Passes(c)[k].tool, Phase(c, f))
  <2>1. Passes(c)[k] = Backend(c)[m]
    BY SMT, <1>7, PassAt
  <2>2. Phase(c, Passes(c)[k].in) = "mapped"
    BY SMT, <1>7, <2>1, BackendReads, Phases
  <2>3. Phase(c, f) = "mapped"
    BY SMT, <1>7, <2>1, BackendWrites, Phases
  <2>4. Passes(c)[k].tool \in {"llc", "align", "concat", "mc"}
    BY SMT, <1>7, <2>1, BackendTools
  <2>. QED BY <2>2, <2>3, <2>4 DEF Advances
<1>8. \/ \E m \in 2 .. 4 : k = m
      \/ k = 5 \/ k = 6 \/ k = 7 \/ k = 13
      \/ \E m \in 1 .. 5 : k = m + 7
      \/ \E m \in 7 .. 10 : k = m + 7
  BY SMT
<1>. QED BY <1>1, <1>2, <1>3, <1>4, <1>5, <1>6, <1>7, <1>8

----------------------------------------------------------------------------------
(* The files of the work directory. *)

\* What clang made of the k-th C file of process p is of this origin.
Source(p, k) == <<cfg[p].units[k], read[p][k], p>>

\* Work file f of process p was made from the C file it compiles, as far as its phase.
Fresh(p, f) == LET x == work[WorkDir(p)][f] IN
               Origin(x) = Source(p, unit[p]) /\ LogOK(Phase(cfg[p], f), x.log)

\* The passes that ran on this C file have written fresh files, and nobody else has.
WorkFresh(p) ==
  state[p] \in Passed \cup {"pass"} =>
    \A k \in 1 .. step[p] - 1 : Passes(cfg[p])[k].run => \A f \in Passes(cfg[p])[k].out : Fresh(p, f)

\* The passes write files of the work directory.
LEMMA WritesTyped ==
  ASSUME NEW c \in Configs, NEW k \in 1 .. 17
  PROVE  Passes(c)[k].out \subseteq WorkFiles
<1>1. ASSUME NEW m \in 1 .. 7 PROVE Frontend(c)[m].out \subseteq WorkFiles
  BY SMT, FrontendWrites DEF WorkFiles
<1>2. ASSUME NEW m \in 1 .. 10 PROVE Backend(c)[m].out \subseteq WorkFiles
  BY SMT, BackendWrites DEF WorkFiles
<1>3. CASE k \in 1 .. 7
  BY <1>1, <1>3, PassAt
<1>4. CASE k \in 8 .. 17
  <2>1. k - 7 \in 1 .. 10 /\ Passes(c)[k] = Backend(c)[k - 7]
    BY SMT, <1>4, PassAt
  <2>. QED BY <2>1, <1>2
<1>. QED BY SMT, <1>3, <1>4

\* Logging a tool does not change where a file comes from.
LEMMA LoggedOrigin ==
  ASSUME NEW x \in Content, NEW t
  PROVE  LET y == [x EXCEPT !.log = Append(@, t)] IN Origin(y) = Origin(x) /\ y.log = Append(x.log, t)
BY DEF Content, Origin

\* A file of a process is not torn.
LEMMA OwnNotTorn ==
  ASSUME NEW p \in Procs, NEW x, NEW u, NEW v, Origin(x) = <<u, v, p>>
  PROVE  x # Torn /\ x # NoFile /\ x.by = p /\ x.u = u /\ x.ver = v
<1>1. x.by = p /\ x.u = u /\ x.ver = v
  BY DEF Origin
<1>2. p # "torn" /\ p # "none"
  BY ProcAssumption
<1>. QED BY SMT, <1>1, <1>2 DEF Torn, NoFile

\* The inputs of the pass a process runs next are fresh.
LEMMA ReadsFresh ==
  ASSUME TypeOK, NEW p \in Procs, Progress(p), WorkFresh(p), At(p, "pass"), step[p] # 1,
         NEW f \in Reads(Passes(cfg[p])[step[p]])
  PROVE  f # "src" /\ f \in WorkFiles /\ Fresh(p, f)
<1>1. cfg[p] \in Configs /\ step[p] \in 2 .. 17 /\ Passes(cfg[p])[step[p]].run
  <2>1. cfg[p] \in Configs /\ step[p] \in 1 .. 18
    BY DEF TypeOK
  <2>. QED BY SMT, <2>1 DEF Progress, At
<1>2. f # "src" /\ \E m \in 1 .. step[p] - 1 : Passes(cfg[p])[m].run /\ f \in Passes(cfg[p])[m].out
  BY <1>1, PassOrder
<1>3. PICK m \in 1 .. step[p] - 1 : Passes(cfg[p])[m].run /\ f \in Passes(cfg[p])[m].out
  BY <1>2
<1>4. Fresh(p, f)
  BY <1>3 DEF WorkFresh, At
<1>5. m \in 1 .. 17
  BY SMT, <1>1, <1>3
<1>. QED BY <1>1, <1>2, <1>3, <1>4, <1>5, WritesTyped

\* What the first pass makes of the source: clang's reading of its present text.
LEMMA ClangMade ==
  ASSUME TypeOK, NEW p \in Procs
  PROVE  LET x == Made(p, Passes(cfg[p])[1]) IN
         /\ Origin(x) = <<U(p), src[U(p)].ver, p>>
         /\ \A f \in Passes(cfg[p])[1].out : LogOK(Phase(cfg[p], f), x.log)
<1>. DEFINE s == Passes(cfg[p])[1]
            x == Made(p, s)
            t == Text(U(p), p)
<1>1. s = Frontend(cfg[p])[1]
  BY FirstPass DEF TypeOK
<1>2. s.in = "src" /\ s.more = {} /\ s.tool = "clang" /\ s.out = {"a.ll"}
  BY SMT, <1>1, FrontendReads, FrontendTools, FrontendWrites
<1>3. Reads(s) = {"src"} /\ File(p, "src") = t
  BY <1>2 DEF Reads, File
<1>4. Origin(t) = <<U(p), src[U(p)].ver, p>> /\ t.log = <<>> /\ t \in Content
  BY <1>3, FilesTyped DEF Text, Origin
<1>5. t # Torn
  BY SMT, <1>4, OwnNotTorn
<1>6. x = [t EXCEPT !.log = Append(@, "clang")]
  <2>. HIDE DEF s, t
  <2>1. {File(p, f) : f \in Reads(s)} = {t}
    BY <1>3
  <2>. QED BY <1>2, <1>3, <1>5, <2>1 DEF Made
<1>7. Origin(x) = Origin(t) /\ x.log = Append(<<>>, "clang")
  BY <1>4, <1>6, LoggedOrigin
<1>8. Plain(x.log)
  <2>1. <<>> \in Seq(Tools) /\ "clang" \in Tools /\ Plain(<<>>)
    BY SMT DEF Tools, Plain
  <2>2. Plain(Append(<<>>, "clang"))
    BY <2>1, PlainAppend
  <2>. QED BY <1>7, <2>2
<1>9. \A f \in s.out : LogOK(Phase(cfg[p], f), x.log)
  <2>1. Phase(cfg[p], "a.ll") = "plain"
    BY Phases
  <2>. QED BY <1>2, <1>8, <2>1 DEF LogOK
<1>. QED BY <1>4, <1>7, <1>9

\* What a later pass makes of fresh inputs is fresh.
LEMMA PassMade ==
  ASSUME TypeOK, NEW p \in Procs, Progress(p), WorkFresh(p), At(p, "pass"), step[p] # 1
  PROVE  LET s == Passes(cfg[p])[step[p]]
             x == Made(p, s) IN
         /\ Origin(x) = Source(p, unit[p])
         /\ \A f \in s.out : LogOK(Phase(cfg[p], f), x.log)
<1>. DEFINE s == Passes(cfg[p])[step[p]]
            x == Made(p, s)
            y == work[WorkDir(p)][s.in]
<1>1. cfg[p] \in Configs /\ step[p] \in 2 .. 17 /\ s.run
  <2>1. cfg[p] \in Configs /\ step[p] \in 1 .. 18
    BY DEF TypeOK
  <2>. QED BY SMT, <2>1 DEF Progress, At
<1>2. ASSUME NEW f \in Reads(s)
      PROVE  File(p, f) = work[WorkDir(p)][f] /\ Origin(File(p, f)) = Source(p, unit[p]) /\ File(p, f) # Torn
  <2>1. f # "src" /\ Fresh(p, f)
    BY <1>2, ReadsFresh
  <2>2. File(p, f) = work[WorkDir(p)][f] /\ Origin(File(p, f)) = Source(p, unit[p])
    BY <2>1 DEF File, Fresh
  <2>. QED BY SMT, <2>2, OwnNotTorn DEF Source
<1>3. s.in \in Reads(s) /\ s.in \in WorkFiles /\ Fresh(p, s.in)
  <2>1. s.in \in Reads(s)
    BY DEF Reads
  <2>. QED BY <2>1, ReadsFresh
<1>4. File(p, s.in) = y /\ y \in Content
  <2>1. File(p, s.in) \in Content
    BY <1>3, FilesTyped
  <2>. QED BY <1>2, <1>3, <2>1
<1>5. x = [y EXCEPT !.log = Append(@, s.tool)]
  <2>. HIDE DEF s, y
  <2>. QED BY <1>2, <1>4 DEF Made
<1>6. Origin(x) = Source(p, unit[p]) /\ x.log = Append(y.log, s.tool)
  <2>1. Origin(y) = Source(p, unit[p])
    BY <1>2, <1>3, <1>4
  <2>. HIDE DEF s, x, y
  <2>. QED BY <1>4, <1>5, <2>1, LoggedOrigin
<1>7. y.log \in Seq(Tools) /\ s.tool \in Tools /\ LogOK(Phase(cfg[p], s.in), y.log)
  <2>1. LogOK(Phase(cfg[p], s.in), y.log)
    BY <1>3 DEF Fresh
  <2>2. s.tool \in Tools
    BY SMT, <1>1, PassTyped
  <2>3. y.log \in Seq(Tools)
    BY <1>4 DEF Content
  <2>. QED BY <2>1, <2>2, <2>3
<1>8. ASSUME NEW f \in s.out PROVE LogOK(Phase(cfg[p], f), x.log)
  <2>1. Advances(Phase(cfg[p], s.in), s.tool, Phase(cfg[p], f))
    BY <1>1, <1>8, PassAdvances
  <2>. QED BY <1>6, <1>7, <2>1, LogAdvances
<1>. QED BY <1>6, <1>8

\* A step that leaves a process's work directory, and where it stands, alone.
LEMMA WorkFreshKept ==
  ASSUME NEW p \in Procs, WorkFresh(p), cfg' = cfg, unit'[p] = unit[p], step'[p] = step[p], read'[p] = read[p],
         state'[p] \in Passed \cup {"pass"} =>
           state[p] \in Passed \cup {"pass"} /\ work'[WorkDir(p)] = work[WorkDir(p)]
  PROVE  WorkFresh(p)'
BY DEF WorkFresh, Fresh, Source, WorkDir

\* A step of one process does not touch the work directory of another one at work.
LEMMA WorkOfOthers ==
  ASSUME TypeOK, Exclusive, NEW p \in Procs, Act(p), NEW q \in Procs, q # p, Active(q)
  PROVE  work'[WorkDir(q)] = work[WorkDir(q)]
<1>1. work \in [Procs \cup {"kept"} -> [WorkFiles -> Content]] /\ WorkDir(q) \in Procs \cup {"kept"}
      /\ WorkDir(p) \in Procs \cup {"kept"}
  BY FilesTyped DEF TypeOK
<1>2. WorkDir(q) # p
  BY ProcAssumption DEF WorkDir
<1>3. CASE RunPass(p)
  <2>1. Active(p)
    BY <1>3 DEF RunPass, At, Active, Idle
  <2>2. ~(cfg[p].keep /\ cfg[q].keep)
    BY <2>1 DEF Exclusive, Shares
  <2>3. WorkDir(p) # WorkDir(q)
    BY <2>2, ProcAssumption DEF WorkDir
  <2>. QED BY <1>1, <1>3, <2>3 DEF RunPass
<1>4. CASE work' = work
  BY <1>4
<1>5. CASE work' = [work EXCEPT ![p] = Empty]
  BY <1>1, <1>2, <1>5
<1>6. ASSUME Start(p) \/ WriteMarker(p) \/ Begin(p) \/ Open(p) \/ Lookup(p) \/ HeaderTemp(p) \/ HeaderFill(p)
               \/ HeaderRename(p) \/ Truncate(p) \/ Fill(p) \/ CheckMagic(p) \/ Toolexec(p) \/ HookStep(p)
               \/ Kill(p)
      PROVE  work' = work
  BY <1>6 DEF Start, WriteMarker, Begin, Open, Lookup, HeaderTemp, HeaderFill, HeaderRename, Truncate, Fill,
              CheckMagic, Toolexec, HookStep, Kill, dirs
<1>7. ASSUME NextUnit(p) \/ Refuse(p) \/ Fail(p) PROVE work' = [work EXCEPT ![p] = Empty]
  BY <1>7 DEF NextUnit, Refuse, Fail, Failed, WorkGone
<1>. QED BY <1>3, <1>4, <1>5, <1>6, <1>7 DEF Act, Step

\* A pass of a process keeps its own files fresh.
LEMMA WorkFreshPass ==
  ASSUME TypeOK, NEW p \in Procs, Progress(p), WorkFresh(p), RunPass(p)
  PROVE  WorkFresh(p)'
<1>. DEFINE s == Passes(cfg[p])[step[p]]
            d == WorkDir(p)
            new == Made(p, s)
            ph(f) == Phase(cfg[p], f)
<1>0. /\ cfg' = cfg /\ unit' = unit /\ cfg[p] \in Configs /\ At(p, "pass")
      /\ step \in [Procs -> 1 .. 18] /\ read \in [Procs -> Seq(Nat)] /\ unit \in [Procs -> Nat]
  BY DEF RunPass, TypeOK
<1>1. PICK j \in 2 .. 18 : Follows(cfg[p], step[p], j) /\ step' = [step EXCEPT ![p] = j]
  BY DEF RunPass
<1>2. step'[p] = j /\ step[p] \in 1 .. 17 /\ j > step[p]
  BY <1>0, <1>1, FollowsLater
<1>3. ASSUME NEW m \in 1 .. j - 1, Passes(cfg[p])[m].run PROVE m \in 1 .. step[p]
  <2>1. \A k \in step[p] + 1 .. j - 1 : ~Passes(cfg[p])[k].run
    BY <1>1 DEF Follows
  <2>. QED BY SMT, <1>2, <1>3, <2>1
<1>4. /\ WorkDir(p)' = d /\ work \in [Procs \cup {"kept"} -> [WorkFiles -> Content]] /\ d \in Procs \cup {"kept"}
      /\ work' = [work EXCEPT ![d] = [f \in WorkFiles |-> IF f \in s.out THEN new ELSE @[f]]]
  <2>1. WorkDir(p)' = d
    BY <1>0 DEF WorkDir
  <2>2. work \in [Procs \cup {"kept"} -> [WorkFiles -> Content]] /\ d \in Procs \cup {"kept"}
    BY FilesTyped DEF TypeOK
  <2>. QED BY <2>1, <2>2 DEF RunPass
<1>5. \A f \in WorkFiles : work'[d][f] = IF f \in s.out THEN new ELSE work[d][f]
  <2>. HIDE DEF s, d, new
  <2>. QED BY <1>4
<1>6. /\ Origin(new) = <<U(p), read'[p][unit[p]], p>> /\ \A f \in s.out : LogOK(ph(f), new.log)
      /\ step[p] # 1 => read' = read
  <2>1. CASE step[p] = 1
    <3>1. read' = [read EXCEPT ![p] = Append(@, src[U(p)].ver)]
      BY SMT, <1>0, <1>2, <2>1, PassTyped DEF RunPass
    <3>2. Len(read[p]) + 1 = unit[p] /\ read[p] \in Seq(Nat)
      BY SMTT(30), <1>0, <2>1 DEF Progress, At
    <3>3. read'[p][unit[p]] = src[U(p)].ver
      BY SMT, <1>0, <3>1, <3>2
    <3>. QED BY <2>1, <3>3, ClangMade
  <2>2. CASE step[p] # 1
    <3>1. read' = read
      <4>1. s.tool # "clang"
        BY <1>0, <1>2, <2>2, PassTyped
      <4>. QED BY <4>1 DEF RunPass
    <3>2. Origin(new) = Source(p, unit[p]) /\ \A f \in s.out : LogOK(ph(f), new.log)
      BY <1>0, <2>2, PassMade
    <3>. QED BY <3>1, <3>2 DEF Source, U
  <2>. QED BY <2>1, <2>2
<1>7. ASSUME NEW m \in 1 .. j - 1, Passes(cfg[p])[m].run, NEW f \in Passes(cfg[p])[m].out
      PROVE  Origin(work'[d][f]) = <<U(p), read'[p][unit[p]], p>> /\ LogOK(ph(f), work'[d][f].log)
  <2>1. m \in 1 .. step[p] /\ m \in 1 .. 17
    BY SMT, <1>2, <1>3, <1>7
  <2>2. f \in WorkFiles
    BY <1>0, <1>7, <2>1, WritesTyped
  <2>3. CASE f \in s.out
    <3>. HIDE DEF s, d, new, ph
    <3>. QED BY <1>5, <1>6, <2>2, <2>3
  <2>4. CASE f \notin s.out
    <3>1. m \in 1 .. step[p] - 1
      BY SMTT(30), <1>2, <1>7, <2>1, <2>4
    <3>2. Fresh(p, f)
      BY <1>0, <1>7, <3>1 DEF WorkFresh, At
    <3>3. Origin(work[d][f]) = <<U(p), read[p][unit[p]], p>> /\ LogOK(ph(f), work[d][f].log)
      BY ZenonT(30), <3>2 DEF Fresh, Source, U
    <3>4. work'[d][f] = work[d][f] /\ read' = read
      BY SMT, <1>2, <1>5, <1>6, <2>2, <2>4, <3>1
    <3>. QED BY <3>3, <3>4
  <2>. QED BY <2>3, <2>4
<1>8. ASSUME NEW m \in 1 .. j - 1, Passes(cfg[p])[m].run, NEW f \in Passes(cfg[p])[m].out PROVE Fresh(p, f)'
  BY <1>0, <1>4, <1>7, <1>8 DEF Fresh, Source, U
<1>. QED BY <1>0, <1>2, <1>8 DEF WorkFresh

\* Every step keeps the work directories of the processes fresh.
LEMMA WorkFreshStep ==
  ASSUME TypeOK, Exclusive, \A p \in Procs : Progress(p) /\ WorkFresh(p), [Next]_vars
  PROVE  \A p \in Procs : WorkFresh(p)'
<1>0. state \in [Procs -> Stages] /\ step \in [Procs -> 1 .. 18]
  BY DEF TypeOK
<1>1. ASSUME NEW p \in Procs, Act(p), NEW q \in Procs, q # p PROVE WorkFresh(q)'
  <2>1. /\ state'[q] = state[q] /\ unit'[q] = unit[q] /\ step'[q] = step[q] /\ read'[q] = read[q]
        /\ cfg' = cfg
    <3>1. /\ Same(state', state, p) /\ Same(unit', unit, p) /\ Same(step', step, p) /\ Same(read', read, p)
          /\ cfg' = cfg
      BY <1>1, OtherProcs
    <3>. QED BY <1>1, <3>1 DEF Same
  <2>2. state[q] \in Passed \cup {"pass"} => Active(q)
    BY DEF Passed, Kinds, Active, Idle
  <2>3. Active(q) => work'[WorkDir(q)] = work[WorkDir(q)]
    BY <1>1, WorkOfOthers
  <2>. QED BY <2>1, <2>2, <2>3, WorkFreshKept
<1>2. ASSUME NEW p \in Procs, Begin(p) PROVE WorkFresh(p)'
  <2>1. step'[p] = 1
    BY <1>0, <1>2 DEF Begin
  <2>. QED BY SMT, <2>1 DEF WorkFresh
<1>3. ASSUME NEW p \in Procs, state'[p] \notin Passed \cup {"pass"} PROVE WorkFresh(p)'
  BY <1>3 DEF WorkFresh
<1>4. ASSUME NEW p \in Procs, Open(p) \/ Lookup(p) \/ HeaderTemp(p) \/ HeaderFill(p) \/ HeaderRename(p)
      PROVE  WorkFresh(p)'
  <2>1. state[p] \in Passed
    BY <1>0, <1>4 DEF Open, Lookup, HeaderTemp, HeaderFill, HeaderRename, At, Passed
  <2>2. UNCHANGED <<unit, step, read, cfg, work>>
    BY <1>4 DEF Open, Lookup, HeaderTemp, HeaderFill, HeaderRename, own, dirs
  <2>. QED BY <2>1, <2>2, WorkFreshKept
<1>5. ASSUME NEW p \in Procs, Truncate(p) \/ Fill(p) \/ CheckMagic(p) PROVE WorkFresh(p)'
  <2>1. state[p] \in Passed
    BY <1>0, <1>5 DEF Truncate, Fill, CheckMagic, At, Passed
  <2>2. UNCHANGED <<unit, step, read, cfg, work>>
    BY <1>5 DEF Truncate, Fill, CheckMagic, own, dirs
  <2>. QED BY <2>1, <2>2, WorkFreshKept
<1>6. ASSUME NEW p \in Procs, Start(p) \/ WriteMarker(p) \/ NextUnit(p) PROVE WorkFresh(p)'
  <2>1. state'[p] \notin Passed \cup {"pass"}
    BY <1>0, <1>6 DEF Start, WriteMarker, NextUnit, Go, At, Passed, Kinds
  <2>. QED BY <2>1, <1>3
<1>7. ASSUME NEW p \in Procs, Toolexec(p) \/ HookStep(p) \/ Refuse(p) \/ Fail(p) \/ Kill(p) PROVE WorkFresh(p)'
  <2>1. state'[p] \notin Passed \cup {"pass"}
    BY <1>0, <1>7 DEF Toolexec, HookStep, Refuse, Fail, Kill, Failed, Go, At, Passed, Kinds
  <2>. QED BY <2>1, <1>3
<1>8. ASSUME NEW p \in Procs, Act(p) PROVE \A q \in Procs : WorkFresh(q)'
  BY <1>1, <1>2, <1>4, <1>5, <1>6, <1>7, <1>8, WorkFreshPass DEF Act, Step
<1>9. ASSUME UNCHANGED <<state, unit, step, read, cfg, work>> PROVE \A p \in Procs : WorkFresh(p)'
  BY <1>9, WorkFreshKept
<1>. QED BY <1>8, <1>9 DEF Next, Act, Edit, vars, own, dirs

\* What the passes rest on: the types, the directories, the progress and the work files.
WorkInv == /\ TypeOK /\ Exclusive
           /\ \A p \in Procs : Progress(p) /\ WorkFresh(p)

\* WorkInv is inductive.
LEMMA WorkInductive == (Init => WorkInv) /\ (WorkInv /\ [Next]_vars => WorkInv')
<1>1. ASSUME Init PROVE WorkInv
  <2>1. TypeOK
    BY <1>1, TypeInit
  <2>2. \A p \in Procs : state[p] = "idle" /\ unit[p] = 1 /\ read[p] = <<>>
    BY <1>1 DEF Init
  <2>3. Exclusive
    BY <2>2 DEF Exclusive, Active, Idle
  <2>4. ASSUME NEW p \in Procs PROVE Progress(p) /\ WorkFresh(p)
    <3>1. Len(read[p]) = unit[p] - 1
      BY SMT, <2>2
    <3>. QED BY <2>2, <3>1 DEF Progress, WorkFresh, Passed, Kinds
  <2>. QED BY <2>1, <2>3, <2>4 DEF WorkInv
<1>2. ASSUME WorkInv, [Next]_vars PROVE WorkInv'
  BY <1>2, TypeStep, ExclusiveStep, ProgressStep, WorkFreshStep DEF WorkInv
<1>. QED BY <1>1, <1>2

\* pipeline.run: every file a pass reads was made for the same C file by the same process,
\* from the text clang read, whatever the options, the leftovers in a kept work directory
\* and the edits: for any number of processes, C files, edits and faults.
THEOREM PassesReadFresh == Spec => []InputsFresh
<1>1. ASSUME WorkInv PROVE InputsFresh
  <2>. SUFFICES ASSUME NEW p \in Procs, At(p, "pass"), NEW f \in Reads(Passes(cfg[p])[step[p]])
                PROVE  LET x == File(p, f) IN
                       x.u = U(p) /\ x.by = p /\ (f # "src" => x.ver = read[p][Len(read[p])])
    BY DEF InputsFresh
  <2>1. TypeOK /\ Progress(p) /\ WorkFresh(p)
    BY <1>1 DEF WorkInv
  <2>2. CASE step[p] = 1
    <3>1. Passes(cfg[p])[1] = Frontend(cfg[p])[1]
      BY <2>1, FirstPass DEF TypeOK
    <3>2. f = "src"
      BY SMTT(30), <2>2, <3>1, FrontendReads DEF Reads
    <3>. QED BY ZenonT(30), <3>2 DEF File, Text
  <2>3. CASE step[p] # 1
    <3>1. f # "src" /\ Fresh(p, f)
      BY <2>1, <2>3, ReadsFresh
    <3>2. Origin(File(p, f)) = <<U(p), read[p][unit[p]], p>>
      BY <3>1 DEF Fresh, File, Source, U
    <3>3. Len(read[p]) = unit[p]
      BY <2>1, <2>3 DEF Progress, At
    <3>. QED BY <3>2, <3>3 DEF Origin
  <2>. QED BY <2>2, <2>3
<1>. QED BY <1>1, WorkInductive, PTL DEF Spec
==================================================================================
