------------------------------- MODULE BuildProofs -------------------------------
(* Proofs about the builds of module Build, for any number of goc processes, command *)
(* lines, C files, edits and faults.                                                 *)
EXTENDS Build, TLAPS

(* The leaves are first-order reasoning for Zenon, where they do not name    *)
(* another prover.                                                           *)
USE Zenon

Tools == {"clang", "color", "strip", "gate", "opt", "stackmap", "reanchor", "copy", "fix-ir", "rename",
          "goabi", "llc", "align", "concat", "mc", "convert"}
Content == [u : Nat, ver : Nat, by : Procs \cup {"none", "torn"}, log : Seq(Tools)]
Header == Archs \cup {"none", "torn"}
DiskFiles == {c.objdir : c \in Configs} \X (1 .. NUnits) \X Kinds

Stages == Idle \cup Kinds \cup {"marker", "build", "pass", "open", "lookup", "hopen", "hfill", "hmove",
                                "magic", "next", "go build"}

TypeOK ==
  /\ src \in [1 .. NUnits -> [ver : Nat, host : BOOLEAN]]
  /\ work \in [Procs \cup {"kept"} -> [WorkFiles -> Content]]
  /\ disk \in [DiskFiles -> Content]
  /\ hcache \in [Archs -> Header]
  /\ htmp \in [Procs -> Header]
  /\ archive \in [Procs -> [Pkgs -> Seq(Content)]]
  /\ symfile \in [Procs -> [Pkgs -> Seq(Content)]]
  /\ cfg \in [Procs -> Configs]
  /\ state \in [Procs -> Stages]
  /\ unit \in [Procs -> Nat] /\ \A p \in Procs : unit[p] \in 1 .. Len(cfg[p].units)
  /\ step \in [Procs -> 1 .. 18]
  /\ elf \in [Procs -> Content]
  /\ hdr \in [Procs -> Header]
  /\ read \in [Procs -> Seq(Nat)]
  /\ done \in [Procs -> SUBSET Calls]
  /\ busy \in [Procs -> Calls \cup {"none"}]
  /\ nextObj \in [Procs -> Nat \ {0}]

Act(p) == Step(p) \/ Refuse(p) \/ Fail(p) \/ Kill(p)

\* The C files of a command line.
LEMMA UnitsTyped ==
  ASSUME NEW c \in Configs
  PROVE  /\ c.units \in Seq(1 .. NUnits) /\ Len(c.units) \in Nat \ {0}
         /\ \A k \in 1 .. Len(c.units) : c.units[k] \in 1 .. NUnits
         /\ \A k, m \in 1 .. Len(c.units) : c.units[k] = c.units[m] => k = m
<1>1. c.units \in Seq(1 .. NUnits) /\ Len(c.units) > 0
  BY ConfigAssumption
<1>2. DOMAIN c.units = 1 .. Len(c.units)
  BY SMT, <1>1
<1>. QED BY SMT, <1>1, <1>2, ConfigAssumption

\* The C file of a process, and the files it works on.
LEMMA FilesTyped ==
  ASSUME TypeOK, NEW p \in Procs
  PROVE  /\ cfg[p] \in Configs /\ cfg[p].units \in Seq(1 .. NUnits)
         /\ \A k \in 1 .. Len(cfg[p].units) : cfg[p].units[k] \in 1 .. NUnits
         /\ U(p) \in 1 .. NUnits
         /\ WorkDir(p) \in Procs \cup {"kept"}
         /\ \A u \in 1 .. NUnits, k \in Kinds : Path(p, u, k) \in DiskFiles
         /\ \A f \in WorkFiles \cup {"src"} : File(p, f) \in Content
<1>1. cfg[p] \in Configs /\ cfg[p].units \in Seq(1 .. NUnits) /\ U(p) \in 1 .. NUnits
  <2>1. cfg[p] \in Configs /\ unit[p] \in 1 .. Len(cfg[p].units)
    BY DEF TypeOK
  <2>. QED BY <2>1, UnitsTyped DEF U
<1>2. WorkDir(p) \in Procs \cup {"kept"}
  BY DEF WorkDir
<1>3. \A u \in 1 .. NUnits, k \in Kinds : Path(p, u, k) \in DiskFiles
  BY <1>1 DEF Path, DiskFiles
<1>4. ASSUME NEW f \in WorkFiles \cup {"src"} PROVE File(p, f) \in Content
  <2>1. Text(U(p), p) \in Content
    <3>1. U(p) \in Nat /\ src[U(p)].ver \in Nat
      <4>1. src \in [1 .. NUnits -> [ver : Nat, host : BOOLEAN]]
        BY DEF TypeOK
      <4>2. \A x \in [ver : Nat, host : BOOLEAN] : x.ver \in Nat
        OBVIOUS
      <4>3. 1 .. NUnits \subseteq Nat
        BY SMT, ConfigAssumption
      <4>. QED BY <1>1, <4>1, <4>2, <4>3
    <3>2. <<>> \in Seq(Tools)
      BY SMT
    <3>. QED BY <3>1, <3>2 DEF Text, Content
  <2>. QED BY SMT, <2>1, <1>2 DEF File, TypeOK, WorkFiles
<1>5. ASSUME NEW k \in 1 .. Len(cfg[p].units) PROVE cfg[p].units[k] \in 1 .. NUnits
  BY <1>1, UnitsTyped
<1>. QED BY <1>1, <1>2, <1>3, <1>4, <1>5

\* The two marks of a file without content.
LEMMA MarksTyped == NoFile \in Content /\ Torn \in Content
BY SMT DEF NoFile, Torn, Content

\* The passes, by position, and the files they read and write.
LEMMA PassAt ==
  ASSUME NEW c \in Configs
  PROVE  /\ \A k \in 1 .. 7 : Passes(c)[k] = Frontend(c)[k]
         /\ \A k \in 8 .. 17 : Passes(c)[k] = Backend(c)[k - 7]
BY SMT DEF Passes, Tables

\* The first pass is clang's.
LEMMA FirstPass ==
  ASSUME NEW c \in Configs
  PROVE  Passes(c)[1] = Frontend(c)[1]
BY SMT, PassAt

\* What a pass is and which files it reads.
LEMMA PassTyped ==
  ASSUME NEW c \in Configs, NEW k \in 1 .. 17
  PROVE  LET s == Passes(c)[k] IN
         /\ s.in \in WorkFiles \cup {"src"} /\ s.more \subseteq WorkFiles
         /\ s.tool \in Tools \ {"convert"} /\ (s.tool = "clang" <=> k = 1)
<1>1. ASSUME NEW m \in 1 .. 7
      PROVE  LET s == Frontend(c)[m] IN
             /\ s.in \in WorkFiles \cup {"src"} /\ s.more \subseteq WorkFiles
             /\ s.tool \in Tools \ {"convert"} /\ (s.tool = "clang") = (m = 1)
  BY SMT DEF Frontend, Pass, WorkFiles, Tools
<1>2. ASSUME NEW m \in 1 .. 10
      PROVE  LET s == Backend(c)[m] IN
             /\ s.in \in WorkFiles \cup {"src"} /\ s.more \subseteq WorkFiles
             /\ s.tool \in Tools \ {"convert", "clang"}
  BY SMT DEF Backend, Pass, WorkFiles, Tools, Prepared, LlcInput, Body
<1>3. CASE k \in 1 .. 7
  BY <1>1, <1>3, PassAt
<1>4. CASE k \in 8 .. 17
  <2>1. k - 7 \in 1 .. 10 /\ Passes(c)[k] = Backend(c)[k - 7] /\ k # 1
    BY SMT, <1>4, PassAt
  <2>. QED BY <2>1, <1>2
<1>. QED BY SMT, <1>3, <1>4

\* The pass after another one comes later in the table.
LEMMA FollowsLater ==
  ASSUME NEW c, NEW i \in 1 .. 18, NEW j \in 2 .. 18, Follows(c, i, j)
  PROVE  i \in 1 .. 17 /\ j > i
BY SMT DEF Follows

\* A tool appends its name to the log of its input.
LEMMA LoggedTyped ==
  ASSUME NEW x \in Content, NEW t \in Tools
  PROVE  [x EXCEPT !.log = Append(@, t)] \in Content
<1>. DEFINE By == Procs \cup {"none", "torn"}
<1>1. x \in [u : Nat, ver : Nat, by : By, log : Seq(Tools)]
  BY DEF Content
<1>. HIDE DEF By
<1>2. [x EXCEPT !.log = Append(@, t)] \in [u : Nat, ver : Nat, by : By, log : Seq(Tools)]
  BY SMTT(30), <1>1
<1>. USE DEF By
<1>. QED BY <1>2 DEF Content

\* What a tool writes, and what the converter publishes, is content of a file.
LEMMA MadeTyped ==
  ASSUME TypeOK, NEW p \in Procs
  PROVE  /\ \A k \in 1 .. 17 : Made(p, Passes(cfg[p])[k]) \in Content
         /\ \A kind \in Kinds : Published(p, kind) \in Content
<1>2. ASSUME NEW k \in 1 .. 17 PROVE Made(p, Passes(cfg[p])[k]) \in Content
  <2>1. File(p, Passes(cfg[p])[k].in) \in Content /\ Passes(cfg[p])[k].tool \in Tools
    BY FilesTyped, PassTyped
  <2>2. [File(p, Passes(cfg[p])[k].in) EXCEPT !.log = Append(@, Passes(cfg[p])[k].tool)] \in Content
    BY <2>1, LoggedTyped
  <2>. QED BY <2>1, <2>2, MarksTyped DEF Made
<1>3. ASSUME NEW kind \in Kinds PROVE Published(p, kind) \in Content
  <2>1. elf[p] \in Content /\ "convert" \in Tools
    BY DEF TypeOK, Tools
  <2>2. "body.llc.o" \in WorkFiles /\ LlcInput(cfg[p]) \in WorkFiles
    BY DEF WorkFiles, LlcInput
  <2>3. [elf[p] EXCEPT !.log = Append(@, "convert")] \in Content
    BY <2>1, LoggedTyped
  <2>. QED BY <2>1, <2>2, <2>3, FilesTyped DEF Published, Kinds
<1>. QED BY <1>2, <1>3

\* Before a process starts, no file of its own exists.
LEMMA TypeInit == Init => TypeOK
<1>. SUFFICES ASSUME Init PROVE TypeOK
  OBVIOUS
<1>1. /\ work \in [Procs \cup {"kept"} -> [WorkFiles -> Content]] /\ disk \in [DiskFiles -> Content]
      /\ elf \in [Procs -> Content]
  BY MarksTyped DEF Init, Empty, DiskFiles
<1>2. ASSUME NEW p \in Procs PROVE unit[p] \in 1 .. Len(cfg[p].units)
  <2>1. cfg[p] \in Configs /\ unit[p] = 1
    BY DEF Init
  <2>. QED BY SMT, <2>1, UnitsTyped
<1>3. /\ src \in [1 .. NUnits -> [ver : Nat, host : BOOLEAN]]
      /\ hcache \in [Archs -> Header] /\ htmp \in [Procs -> Header] /\ hdr \in [Procs -> Header]
      /\ archive \in [Procs -> [Pkgs -> Seq(Content)]] /\ symfile \in [Procs -> [Pkgs -> Seq(Content)]]
  BY SMT DEF Init, Header
<1>. QED BY SMT, <1>1, <1>2, <1>3 DEF Init, TypeOK, Stages, Idle

\* The names of the stages a step goes to.
LEMMA StageNames ==
  /\ "marker" \in Stages /\ "build" \in Stages /\ "pass" \in Stages /\ "open" \in Stages
  /\ "lookup" \in Stages /\ "goobj" \in Stages /\ "hopen" \in Stages /\ "hfill" \in Stages
  /\ "hmove" \in Stages /\ "gocobj" \in Stages /\ "go build" \in Stages
  /\ "ok" \in Stages /\ "failed" \in Stages /\ "killed" \in Stages
  /\ \A p \in Procs, kind \in Kinds : After(p, kind) \in Stages
<1>1. \A p \in Procs, kind \in Kinds : After(p, kind) \in Stages
  BY DEF Stages, Kinds, After
<1>. QED BY <1>1 DEF Stages, Idle, Kinds

\* A step that moves one process to a stage keeps the type of state.
LEMMA GoTyped ==
  ASSUME TypeOK, NEW p \in Procs, NEW s \in Stages, Go(p, s)
  PROVE  state' \in [Procs -> Stages]
BY DEF TypeOK, Go

\* The passes keep the types: what they write is a file's content.
LEMMA TypeRunPass ==
  ASSUME TypeOK, NEW p \in Procs, RunPass(p)
  PROVE  TypeOK'
<1>. DEFINE s == Passes(cfg[p])[step[p]]
<1>1. PICK j \in 2 .. 18 : /\ Follows(cfg[p], step[p], j) /\ step' = [step EXCEPT ![p] = j]
                           /\ Go(p, IF j = 18 THEN "open" ELSE "pass")
  BY DEF RunPass
<1>2. step[p] \in 1 .. 17
  <2>1. step[p] \in 1 .. 18
    BY DEF TypeOK
  <2>. QED BY <1>1, <2>1, FollowsLater
<1>3. step' \in [Procs -> 1 .. 18]
  BY SMT, <1>1 DEF TypeOK
<1>4. state' \in [Procs -> Stages]
  BY <1>1, StageNames, GoTyped
<1>5. work' \in [Procs \cup {"kept"} -> [WorkFiles -> Content]]
  <2>1. Made(p, s) \in Content /\ WorkDir(p) \in Procs \cup {"kept"}
    BY <1>2, MadeTyped, FilesTyped
  <2>2. work' = [work EXCEPT ![WorkDir(p)] = [f \in WorkFiles |-> IF f \in s.out THEN Made(p, s) ELSE @[f]]]
    BY DEF RunPass
  <2>3. work \in [Procs \cup {"kept"} -> [WorkFiles -> Content]]
    BY DEF TypeOK
  <2>. HIDE DEF s
  <2>. QED BY <2>1, <2>2, <2>3
<1>6. read' \in [Procs -> Seq(Nat)]
  <2>1. src[U(p)].ver \in Nat
    BY FilesTyped DEF TypeOK
  <2>2. read' = [read EXCEPT ![p] = Append(@, src[U(p)].ver)] \/ read' = read
    BY DEF RunPass
  <2>3. read \in [Procs -> Seq(Nat)]
    BY DEF TypeOK
  <2>4. Append(read[p], src[U(p)].ver) \in Seq(Nat)
    BY SMT, <2>1, <2>3
  <2>. QED BY <2>2, <2>3, <2>4
<1>7. UNCHANGED <<src, disk, hcache, htmp, archive, symfile, cfg, unit, elf, hdr, done, busy, nextObj>>
  BY DEF RunPass, headers, linking
<1>. QED BY <1>3, <1>4, <1>5, <1>6, <1>7 DEF TypeOK

\* The steps of the converter keep the types.
LEMMA TypeConvert ==
  ASSUME TypeOK, NEW p \in Procs,
         Open(p) \/ Lookup(p) \/ HeaderTemp(p) \/ HeaderFill(p) \/ HeaderRename(p) \/ Truncate(p) \/ Fill(p)
           \/ CheckMagic(p)
  PROVE  TypeOK'
<1>1. CASE Open(p)
  <2>1. state' \in [Procs -> Stages]
    BY <1>1, StageNames, GoTyped DEF Open
  <2>2. "body.llc.o" \in WorkFiles
    BY DEF WorkFiles
  <2>3. elf' \in [Procs -> Content]
    BY <1>1, <2>2, FilesTyped DEF Open, TypeOK
  <2>. QED BY <1>1, <2>1, <2>3 DEF Open, TypeOK, dirs, headers, linking
<1>2. CASE Lookup(p)
  <2>1. state' \in [Procs -> Stages]
    BY <1>2, StageNames, GoTyped DEF Lookup
  <2>2. cfg[p].arch \in Archs
    BY SMT, ConfigAssumption DEF TypeOK, Archs
  <2>3. hcache[cfg[p].arch] \in Header /\ cfg[p].arch \in Header
    BY <2>2 DEF TypeOK, Header
  <2>4. hdr' \in [Procs -> Header]
    BY <1>2, <2>3 DEF Lookup, TypeOK
  <2>. QED BY <1>2, <2>1, <2>4 DEF Lookup, TypeOK, dirs, headers, linking
<1>3. CASE HeaderTemp(p) \/ HeaderFill(p)
  <2>1. state' \in [Procs -> Stages]
    BY <1>3, StageNames, GoTyped DEF HeaderTemp, HeaderFill
  <2>2. "torn" \in Header
    BY DEF Header
  <2>3. htmp \in [Procs -> Header] /\ hdr \in [Procs -> Header]
    BY DEF TypeOK
  <2>4. htmp' \in [Procs -> Header]
    BY <1>3, <2>2, <2>3 DEF HeaderTemp, HeaderFill
  <2>. QED BY <1>3, <2>1, <2>4 DEF HeaderTemp, HeaderFill, TypeOK, dirs, linking, own
<1>4. CASE HeaderRename(p)
  <2>1. state' \in [Procs -> Stages]
    BY <1>4, StageNames, GoTyped DEF HeaderRename
  <2>2. "none" \in Header
    BY DEF Header
  <2>3. htmp' \in [Procs -> Header] /\ hcache' \in [Archs -> Header]
    BY <1>4, <2>2 DEF HeaderRename, TypeOK
  <2>. QED BY <1>4, <2>1, <2>3 DEF HeaderRename, TypeOK, dirs, linking, own
<1>5. CASE Truncate(p)
  <2>1. disk' \in [DiskFiles -> Content]
    BY <1>5, FilesTyped, MarksTyped DEF Truncate, TypeOK
  <2>. QED BY <1>5, <2>1 DEF Truncate, TypeOK, headers, linking
<1>6. CASE Fill(p)
  <2>1. disk' \in [DiskFiles -> Content]
    BY <1>6, FilesTyped, MadeTyped DEF Fill, TypeOK
  <2>2. state' \in [Procs -> Stages]
    BY <1>6, StageNames, GoTyped DEF Fill
  <2>. QED BY <1>6, <2>1, <2>2 DEF Fill, TypeOK, headers, linking
<1>7. CASE CheckMagic(p)
  <2>1. state' \in [Procs -> Stages]
    BY <1>7, StageNames, GoTyped DEF CheckMagic
  <2>. QED BY <1>7, <2>1 DEF CheckMagic, TypeOK, dirs, headers, linking, own
<1>. QED BY <1>1, <1>2, <1>3, <1>4, <1>5, <1>6, <1>7

\* The steps of go build and of the hook keep the types.
LEMMA TypeLink ==
  ASSUME TypeOK, NEW p \in Procs, NextUnit(p) \/ Toolexec(p) \/ HookStep(p)
  PROVE  TypeOK'
<1>1. CASE NextUnit(p)
  <2>1. unit' \in [Procs -> Nat] /\ \A q \in Procs : unit'[q] \in 1 .. Len(cfg[q].units)
    <3>1. \A q \in Procs : Len(cfg[q].units) \in Nat
      BY UnitsTyped DEF TypeOK
    <3>2. unit \in [Procs -> Nat] /\ \A q \in Procs : unit[q] \in 1 .. Len(cfg[q].units)
      BY DEF TypeOK
    <3>3. unit' = IF unit[p] < Len(cfg[p].units) THEN [unit EXCEPT ![p] = @ + 1] ELSE unit
      BY <1>1 DEF NextUnit
    <3>. QED BY SMT, <3>1, <3>2, <3>3
  <2>2. state' \in [Procs -> Stages]
    BY <1>1, StageNames, GoTyped DEF NextUnit
  <2>3. work' \in [Procs \cup {"kept"} -> [WorkFiles -> Content]] /\ elf' \in [Procs -> Content]
    BY <1>1, MarksTyped DEF NextUnit, WorkGone, Empty, TypeOK
  <2>4. done' \in [Procs -> SUBSET Calls] /\ archive' = archive
    BY <1>1 DEF NextUnit, Skipped, TypeOK
  <2>5. UNCHANGED <<src, disk, hcache, htmp, symfile, cfg, step, hdr, read, busy, nextObj>>
    BY <1>1 DEF NextUnit, headers
  <2>. QED BY <2>1, <2>2, <2>3, <2>4, <2>5 DEF TypeOK
<1>2. CASE Toolexec(p)
  <2>1. PICK call \in Calls \ done[p] :
             IF Hooked(call) THEN /\ busy' = [busy EXCEPT ![p] = call] /\ nextObj' = [nextObj EXCEPT ![p] = 1]
                                  /\ UNCHANGED <<done, state>>
             ELSE /\ done' = [done EXCEPT ![p] = @ \cup {call}]
                  /\ Go(p, IF call = "link" THEN "ok" ELSE state[p])
                  /\ UNCHANGED <<busy, nextObj>>
    BY <1>2 DEF Toolexec
  <2>2. state' \in [Procs -> Stages]
    <3>1. state[p] \in Stages /\ state \in [Procs -> Stages]
      BY DEF TypeOK
    <3>. QED BY <2>1, <3>1, StageNames, GoTyped
  <2>3. nextObj' \in [Procs -> Nat \ {0}] /\ busy' \in [Procs -> Calls \cup {"none"}]
        /\ done' \in [Procs -> SUBSET Calls]
    <3>1. nextObj \in [Procs -> Nat \ {0}] /\ busy \in [Procs -> Calls \cup {"none"}]
          /\ done \in [Procs -> SUBSET Calls]
      BY DEF TypeOK
    <3>2. CASE Hooked(call)
      BY SMT, <2>1, <3>1, <3>2
    <3>3. CASE ~Hooked(call)
      BY SMT, <2>1, <3>1, <3>3
    <3>. QED BY <3>2, <3>3
  <2>4. UNCHANGED <<src, work, disk, hcache, htmp, archive, symfile, cfg, unit, step, elf, hdr, read>>
    BY <1>2 DEF Toolexec, dirs, headers, linking
  <2>. QED BY <2>2, <2>3, <2>4 DEF TypeOK
<1>3. CASE HookStep(p)
  <2>1. nextObj' \in [Procs -> Nat \ {0}] /\ busy' \in [Procs -> Calls \cup {"none"}]
        /\ done' \in [Procs -> SUBSET Calls]
    <3>1. nextObj \in [Procs -> Nat \ {0}] /\ busy \in [Procs -> Calls \cup {"none"}]
          /\ done \in [Procs -> SUBSET Calls]
      BY DEF TypeOK
    <3>2. \/ nextObj' = [nextObj EXCEPT ![p] = @ + 1] /\ UNCHANGED <<busy, done>>
          \/ /\ busy' = [busy EXCEPT ![p] = "none"] /\ done' = [done EXCEPT ![p] = @ \cup {busy[p]}]
             /\ UNCHANGED nextObj /\ busy[p] # "none"
      BY <1>3 DEF HookStep
    <3>. QED BY SMT, <3>1, <3>2
  <2>2. ASSUME nextObj[p] <= Len(cfg[p].units), NEW kind \in Kinds
        PROVE  disk[Path(p, cfg[p].units[nextObj[p]], kind)] \in Content
    <3>1. nextObj[p] \in Nat \ {0} /\ cfg[p] \in Configs /\ disk \in [DiskFiles -> Content]
      BY DEF TypeOK
    <3>2. cfg[p].units[nextObj[p]] \in 1 .. NUnits
      BY SMT, <2>2, <3>1, UnitsTyped
    <3>. QED BY <3>1, <3>2, FilesTyped
  <2>3. PkgOf(busy[p]) \in Pkgs /\ "symabis" \in Kinds /\ "goobj" \in Kinds
    BY DEF PkgOf, Pkgs, Kinds
  <2>4. ASSUME NEW files \in [Procs -> [Pkgs -> Seq(Content)]], NEW x \in Content, NEW files2,
               files2 = [files EXCEPT ![p][PkgOf(busy[p])] = Append(@, x)]
        PROVE  files2 \in [Procs -> [Pkgs -> Seq(Content)]]
    BY SMT, <2>3, <2>4
  <2>5. archive \in [Procs -> [Pkgs -> Seq(Content)]] /\ symfile \in [Procs -> [Pkgs -> Seq(Content)]]
    BY DEF TypeOK
  <2>6. archive' \in [Procs -> [Pkgs -> Seq(Content)]] /\ symfile' \in [Procs -> [Pkgs -> Seq(Content)]]
    <3>1. \/ archive' = archive
          \/ \E x \in Content : archive' = [archive EXCEPT ![p][PkgOf(busy[p])] = Append(@, x)]
      BY <1>3, <2>2, <2>3 DEF HookStep
    <3>2. \/ symfile' = symfile
          \/ \E x \in Content : symfile' = [symfile EXCEPT ![p][PkgOf(busy[p])] = Append(@, x)]
      BY <1>3, <2>2, <2>3 DEF HookStep
    <3>3. archive' \in [Procs -> [Pkgs -> Seq(Content)]]
      BY <3>1, <2>4, <2>5
    <3>4. symfile' \in [Procs -> [Pkgs -> Seq(Content)]]
      BY <3>2, <2>4, <2>5
    <3>. QED BY <3>3, <3>4
  <2>7. UNCHANGED <<src, work, disk, hcache, htmp, cfg, state, unit, step, elf, hdr, read>>
    BY <1>3 DEF HookStep, dirs, headers
  <2>. QED BY <2>1, <2>6, <2>7 DEF TypeOK
<1>. QED BY <1>1, <1>2, <1>3

\* Every step keeps the types.
LEMMA TypeStep == TypeOK /\ [Next]_vars => TypeOK'
<1>. SUFFICES ASSUME TypeOK, [Next]_vars PROVE TypeOK'
  OBVIOUS
<1>1. ASSUME NEW p \in Procs, Start(p) PROVE TypeOK'
  BY <1>1, StageNames, GoTyped DEF Start, TypeOK, dirs, headers, linking, own
<1>2. ASSUME NEW p \in Procs, WriteMarker(p) PROVE TypeOK'
  <2>1. state' \in [Procs -> Stages]
    BY <1>2, StageNames, GoTyped DEF WriteMarker, TypeOK
  <2>. QED BY <1>2, <2>1 DEF WriteMarker, TypeOK, headers, linking
<1>3. ASSUME NEW p \in Procs, Begin(p) PROVE TypeOK'
  <2>1. state' \in [Procs -> Stages]
    BY <1>3, StageNames, GoTyped DEF Begin
  <2>2. step' \in [Procs -> 1 .. 18]
    BY SMT, <1>3 DEF Begin, TypeOK
  <2>. QED BY <1>3, <2>1, <2>2 DEF Begin, TypeOK, dirs, headers, linking
<1>4. ASSUME NEW p \in Procs, Refuse(p) \/ Fail(p) \/ Kill(p) PROVE TypeOK'
  <2>1. state' \in [Procs -> Stages]
    BY <1>4, StageNames, GoTyped DEF Refuse, Fail, Kill, Failed
  <2>2. work' \in [Procs \cup {"kept"} -> [WorkFiles -> Content]]
    <3>1. work \in [Procs \cup {"kept"} -> [WorkFiles -> Content]] /\ Empty \in [WorkFiles -> Content]
      BY MarksTyped DEF TypeOK, Empty
    <3>2. work' = [work EXCEPT ![p] = Empty] \/ work' = work
      BY <1>4 DEF Refuse, Fail, Kill, Failed, WorkGone, dirs
    <3>. QED BY <3>1, <3>2
  <2>3. UNCHANGED <<src, disk, hcache, htmp, archive, symfile, cfg, unit, step, elf, hdr, read, done, busy, nextObj>>
    BY <1>4 DEF Refuse, Fail, Kill, Failed, dirs, headers, linking, own
  <2>. QED BY <2>1, <2>2, <2>3 DEF TypeOK
<1>5. ASSUME NEW u \in 1 .. NUnits, Edit(u) PROVE TypeOK'
  <2>1. src' \in [1 .. NUnits -> [ver : Nat, host : BOOLEAN]]
    <3>1. src \in [1 .. NUnits -> [ver : Nat, host : BOOLEAN]]
      BY DEF TypeOK
    <3>2. src' = [src EXCEPT ![u] = [ver |-> @.ver + 1, host |-> ~@.host]]
      BY <1>5 DEF Edit
    <3>. QED BY SMT, <3>1, <3>2
  <2>. QED BY <1>5, <2>1 DEF Edit, TypeOK, dirs, headers, linking, own
<1>6. CASE UNCHANGED vars
  BY <1>6 DEF vars, TypeOK, dirs, headers, linking, own
<1>. QED
  BY <1>1, <1>2, <1>3, <1>4, <1>5, <1>6, TypeRunPass, TypeConvert, TypeLink DEF Next, Step

\* The variables of module Build have their types in every reachable state.
THEOREM TypeCorrect == Spec => []TypeOK
<1>. QED BY TypeInit, TypeStep, PTL DEF Spec

----------------------------------------------------------------------------------
(* What one step changes. *)

\* Two functions on the processes that agree but for one process.
Same(f, g, p) == \A q \in Procs \ {p} : f[q] = g[q]

\* A step of process p leaves the local state of the others, and every command line, alone;
\* only an active process, or one that starts, takes a step.
LEMMA OtherProcs ==
  ASSUME TypeOK, NEW p \in Procs, Act(p)
  PROVE  /\ cfg' = cfg /\ src' = src
         /\ Same(state', state, p) /\ Same(unit', unit, p) /\ Same(step', step, p)
         /\ Same(elf', elf, p) /\ Same(hdr', hdr, p) /\ Same(read', read, p)
         /\ Same(done', done, p) /\ Same(busy', busy, p) /\ Same(nextObj', nextObj, p)
         /\ Same(htmp', htmp, p) /\ Same(archive', archive, p) /\ Same(symfile', symfile, p)
         /\ Active(p) \/ Start(p)
<1>. DEFINE Funs == /\ DOMAIN state = Procs /\ DOMAIN unit = Procs /\ DOMAIN step = Procs
                    /\ DOMAIN elf = Procs /\ DOMAIN hdr = Procs /\ DOMAIN read = Procs
                    /\ DOMAIN done = Procs /\ DOMAIN busy = Procs /\ DOMAIN nextObj = Procs
                    /\ DOMAIN htmp = Procs /\ DOMAIN archive = Procs /\ DOMAIN symfile = Procs
            Goal == /\ cfg' = cfg /\ src' = src
                    /\ Same(state', state, p) /\ Same(unit', unit, p) /\ Same(step', step, p)
                    /\ Same(elf', elf, p) /\ Same(hdr', hdr, p) /\ Same(read', read, p)
                    /\ Same(done', done, p) /\ Same(busy', busy, p) /\ Same(nextObj', nextObj, p)
                    /\ Same(htmp', htmp, p) /\ Same(archive', archive, p) /\ Same(symfile', symfile, p)
<1>0. Funs
  BY DEF TypeOK
<1>1. ASSUME Start(p) PROVE Goal
  BY <1>0, <1>1 DEF Start, Same, Go, dirs, headers, linking, own
<1>2. ASSUME WriteMarker(p) PROVE Goal
  BY <1>0, <1>2 DEF WriteMarker, Same, Go, headers, linking
<1>3. ASSUME Begin(p) PROVE Goal
  BY <1>0, <1>3 DEF Begin, Same, Go, dirs, headers, linking
<1>4. ASSUME RunPass(p) PROVE Goal
  BY <1>0, <1>4 DEF RunPass, Same, Go, headers, linking
<1>5. ASSUME Open(p) PROVE Goal
  BY <1>0, <1>5 DEF Open, Same, Go, dirs, headers, linking
<1>6. ASSUME Lookup(p) PROVE Goal
  BY <1>0, <1>6 DEF Lookup, Same, Go, dirs, headers, linking
<1>7. ASSUME HeaderTemp(p) PROVE Goal
  BY <1>0, <1>7 DEF HeaderTemp, Same, Go, dirs, linking, own
<1>8. ASSUME HeaderFill(p) PROVE Goal
  BY <1>0, <1>8 DEF HeaderFill, Same, Go, dirs, linking, own
<1>9. ASSUME HeaderRename(p) PROVE Goal
  BY <1>0, <1>9 DEF HeaderRename, Same, Go, dirs, linking, own
<1>10. ASSUME Truncate(p) PROVE Goal
  BY <1>0, <1>10 DEF Truncate, Same, headers, linking
<1>11. ASSUME Fill(p) PROVE Goal
  BY <1>0, <1>11 DEF Fill, Same, Go, headers, linking
<1>12. ASSUME CheckMagic(p) PROVE Goal
  BY <1>0, <1>12 DEF CheckMagic, Same, Go, dirs, headers, linking, own
<1>13. ASSUME NextUnit(p) PROVE Goal
  BY <1>0, <1>13 DEF NextUnit, Same, Go, Skipped, headers
<1>14. ASSUME Toolexec(p) PROVE Goal
  BY <1>0, <1>14 DEF Toolexec, Same, Go, dirs, headers, linking
<1>15. ASSUME HookStep(p) PROVE Goal
  BY <1>0, <1>15 DEF HookStep, Same, dirs, headers
<1>16. ASSUME Refuse(p) \/ Fail(p) \/ Kill(p) PROVE Goal
  BY <1>0, <1>16 DEF Refuse, Fail, Kill, Failed, Same, Go, headers, linking, own
<1>17. Start(p) \/ Active(p)
  BY DEF Act, Step, WriteMarker, Begin, RunPass, Open, Lookup, HeaderTemp, HeaderFill, HeaderRename,
         Truncate, Fill, CheckMagic, NextUnit, Toolexec, HookStep, Refuse, Fail, Kill, At, Active, Idle, Kinds
<1>. QED
  BY <1>1, <1>2, <1>3, <1>4, <1>5, <1>6, <1>7, <1>8, <1>9, <1>10, <1>11, <1>12, <1>13, <1>14, <1>15, <1>16, <1>17 DEF Act, Step

----------------------------------------------------------------------------------
(* The header cache. *)

\* A cached line is whole: it is renamed into place after it was filled, and a process
\* that wrote or read it holds the line of its own architecture.
HeaderInv ==
  /\ \A a \in Archs : hcache[a] \in {"none", a}
  /\ \A p \in Procs : /\ hdr[p] \in {"none", cfg[p].arch}
                      /\ state[p] \in {"hopen", "hfill", "hmove"} => hdr[p] = cfg[p].arch
                      /\ state[p] = "hmove" => htmp[p] = cfg[p].arch

\* HeaderInv holds at the start, when the cache is empty.
LEMMA HeaderInit == Init => HeaderInv
BY DEF Init, HeaderInv

\* Every step keeps HeaderInv.
LEMMA HeaderStep == TypeOK /\ HeaderInv /\ [Next]_vars => HeaderInv'
<1>. SUFFICES ASSUME TypeOK, HeaderInv, [Next]_vars PROVE HeaderInv'
  OBVIOUS
<1>. DEFINE Line(p) == /\ hdr[p] \in {"none", cfg[p].arch}
                       /\ state[p] \in {"hopen", "hfill", "hmove"} => hdr[p] = cfg[p].arch
                       /\ state[p] = "hmove" => htmp[p] = cfg[p].arch
            Cache == \A a \in Archs : hcache[a] \in {"none", a}
<1>0. /\ state \in [Procs -> Stages] /\ hdr \in [Procs -> Header] /\ htmp \in [Procs -> Header]
      /\ \A p \in Procs : cfg[p].arch \in Archs
      /\ hcache \in [Archs -> Header]
  BY SMT, ConfigAssumption DEF TypeOK, Archs
<1>1. ASSUME NEW p \in Procs, Act(p), NEW q \in Procs, q # p PROVE Line(q)'
  BY SMT, <1>1, OtherProcs DEF HeaderInv, Same
<1>2. ASSUME NEW p \in Procs, Lookup(p) PROVE Line(p)' /\ Cache'
  BY <1>0, <1>2 DEF Lookup, HeaderInv, Go, headers, Archs
<1>3. ASSUME NEW p \in Procs, HeaderTemp(p) PROVE Line(p)' /\ Cache'
  BY <1>0, <1>3 DEF HeaderTemp, HeaderInv, Go, At, own
<1>4. ASSUME NEW p \in Procs, HeaderFill(p) PROVE Line(p)' /\ Cache'
  BY <1>0, <1>4 DEF HeaderFill, HeaderInv, Go, At, own
<1>5. ASSUME NEW p \in Procs, HeaderRename(p) PROVE Line(p)' /\ Cache'
  BY <1>0, <1>5 DEF HeaderRename, HeaderInv, Go, At, own
<1>6. ASSUME NEW p \in Procs, state'[p] \notin {"hopen", "hfill", "hmove"},
             UNCHANGED <<cfg, hdr, hcache>>
      PROVE  Line(p)' /\ Cache'
  BY <1>6 DEF HeaderInv
<1>7. ASSUME NEW p \in Procs, Act(p), ~Lookup(p), ~HeaderTemp(p), ~HeaderFill(p), ~HeaderRename(p)
      PROVE  Line(p)' /\ Cache'
  <2>1. UNCHANGED <<cfg, hdr, hcache>>
    BY <1>7 DEF Act, Step, Start, WriteMarker, Begin, RunPass, Open, Truncate, Fill, CheckMagic, NextUnit,
                Toolexec, HookStep, Refuse, Fail, Kill, Failed, own, headers
  <2>2. ASSUME Start(p) \/ WriteMarker(p) \/ Begin(p) \/ RunPass(p) \/ Open(p)
        PROVE  state'[p] \notin {"hopen", "hfill", "hmove"}
    BY <1>0, <2>2 DEF Start, WriteMarker, Begin, RunPass, Open, Go, At
  <2>3. ASSUME Truncate(p) \/ Fill(p) \/ CheckMagic(p) \/ NextUnit(p)
        PROVE  state'[p] \notin {"hopen", "hfill", "hmove"}
    BY <1>0, <2>3 DEF Truncate, Fill, After, CheckMagic, NextUnit, Go, At, Kinds
  <2>4. ASSUME Toolexec(p) \/ HookStep(p) \/ Refuse(p) \/ Fail(p) \/ Kill(p)
        PROVE  state'[p] \notin {"hopen", "hfill", "hmove"}
    BY <1>0, <2>4 DEF Toolexec, HookStep, Refuse, Fail, Kill, Failed, Go, At
  <2>. QED BY <2>1, <2>2, <2>3, <2>4, <1>6, <1>7 DEF Act, Step
<1>8. ASSUME NEW p \in Procs, Act(p) PROVE HeaderInv'
  <2>1. Line(p)' /\ Cache'
    BY <1>2, <1>3, <1>4, <1>5, <1>7, <1>8
  <2>2. \A q \in Procs : Line(q)'
    BY <2>1, <1>1, <1>8
  <2>. QED BY <2>1, <2>2 DEF HeaderInv
<1>9. ASSUME NEW u \in 1 .. NUnits, Edit(u) PROVE HeaderInv'
  BY <1>9 DEF Edit, HeaderInv, headers, own
<1>10. CASE UNCHANGED vars
  BY <1>10 DEF vars, HeaderInv, headers, own
<1>. QED BY <1>8, <1>9, <1>10 DEF Next, Act

\* objectHeader: a process never writes a torn header line, or another architecture's,
\* into its objects, however many processes fill the cache and are killed while they do.
THEOREM HeaderAlwaysWhole == Spec => []HeaderWhole
<1>1. TypeOK /\ HeaderInv => HeaderWhole
  BY DEF HeaderInv, HeaderWhole
<1>. QED BY <1>1, TypeInit, TypeStep, HeaderInit, HeaderStep, PTL DEF Spec

----------------------------------------------------------------------------------
(* Directories of their own. *)

\* Two processes at work share neither their object directory nor a kept work directory.
Exclusive == \A p, q \in Procs : p # q /\ Active(p) /\ Active(q) => ~Shares(cfg[p], cfg[q])

\* Every step keeps Exclusive: only Start makes a process active, and it waits.
LEMMA ExclusiveStep == TypeOK /\ Exclusive /\ [Next]_vars => Exclusive'
<1>. SUFFICES ASSUME TypeOK, Exclusive, [Next]_vars PROVE Exclusive'
  OBVIOUS
<1>1. ASSUME NEW p \in Procs, Act(p), NEW q \in Procs, q # p, Active(p)', Active(q)'
      PROVE  ~Shares(cfg[p], cfg[q])' /\ ~Shares(cfg[q], cfg[p])'
  <2>1. Active(q) /\ cfg' = cfg /\ (Active(p) \/ Start(p))
    BY SMT, <1>1, OtherProcs DEF Same, Active
  <2>2. ~Shares(cfg[p], cfg[q]) /\ ~Shares(cfg[q], cfg[p])
    BY <1>1, <2>1 DEF Exclusive, Start, Shares
  <2>. QED BY <2>1, <2>2 DEF Shares
<1>2. ASSUME NEW p \in Procs, Act(p), NEW q \in Procs, NEW r \in Procs, q # p, r # p, q # r,
             Active(q)', Active(r)'
      PROVE  ~Shares(cfg[q], cfg[r])'
  BY SMT, <1>2, OtherProcs DEF Same, Active, Exclusive, Shares
<1>3. ASSUME NEW p \in Procs, Act(p) PROVE Exclusive'
  BY <1>1, <1>2, <1>3 DEF Exclusive
<1>4. ASSUME NEW u \in 1 .. NUnits, Edit(u) PROVE Exclusive'
  BY <1>4 DEF Edit, Exclusive, Active, Shares, own
<1>5. CASE UNCHANGED vars
  BY <1>5 DEF vars, Exclusive, Active, Shares, own
<1>. QED BY <1>3, <1>4, <1>5 DEF Next, Act

----------------------------------------------------------------------------------
(* Where a process stands. *)

Passed == Kinds \cup {"open", "lookup", "hopen", "hfill", "hmove", "magic", "next"}

\* clang has read the C files before the current one, and the current one once its first
\* pass ran; a process that passes, or has passed, runs only passes of its command line.
Progress(p) ==
  /\ state[p] \in {"idle", "marker"} => unit[p] = 1
  /\ state[p] \in {"idle", "marker", "build"} => Len(read[p]) = unit[p] - 1
  /\ state[p] = "pass" => /\ Len(read[p]) = IF step[p] = 1 THEN unit[p] - 1 ELSE unit[p]
                          /\ step[p] # 18 /\ Passes(cfg[p])[step[p]].run
  /\ state[p] \in Passed => Len(read[p]) = unit[p] /\ step[p] = 18
  /\ state[p] \in {"go build", "ok"} => Len(read[p]) = unit[p] /\ unit[p] = Len(cfg[p].units)

\* Steps between two stages of one C file, or none, that read no source and run no pass.
LEMMA ProgressKept ==
  ASSUME NEW p \in Procs, Progress(p), unit'[p] = unit[p], step'[p] = step[p], read'[p] = read[p], cfg' = cfg,
         \/ state'[p] = state[p]
         \/ state[p] = "idle" /\ state'[p] = "marker"
         \/ state[p] \in {"idle", "marker"} /\ state'[p] = "build"
         \/ state[p] \in Passed /\ state'[p] \in Passed
         \/ state[p] = "go build" /\ state'[p] = "ok"
         \/ state'[p] \in {"failed", "killed"}
  PROVE  Progress(p)'
BY DEF Progress, Passed, Kinds

\* Every step keeps Progress.
LEMMA ProgressStep ==
  ASSUME TypeOK, \A p \in Procs : Progress(p), [Next]_vars
  PROVE  \A p \in Procs : Progress(p)'
<1>0. /\ state \in [Procs -> Stages] /\ unit \in [Procs -> Nat] /\ step \in [Procs -> 1 .. 18]
      /\ read \in [Procs -> Seq(Nat)] /\ cfg \in [Procs -> Configs]
  BY DEF TypeOK
<1>1. ASSUME NEW p \in Procs, Act(p), NEW q \in Procs, q # p PROVE Progress(q)'
  <2>1. /\ state'[q] = state[q] /\ unit'[q] = unit[q] /\ step'[q] = step[q] /\ read'[q] = read[q]
        /\ cfg' = cfg
    BY SMT, <1>1, OtherProcs DEF Same
  <2>. QED BY <2>1, ProgressKept
<1>2. ASSUME NEW p \in Procs, Start(p) PROVE Progress(p)'
  <2>1. state[p] = "idle" /\ state'[p] \in {"marker", "build"} /\ UNCHANGED <<unit, step, read, cfg>>
    BY <1>0, <1>2 DEF Start, Go, At, own
  <2>. QED BY <2>1, ProgressKept
<1>3. ASSUME NEW p \in Procs, WriteMarker(p) PROVE Progress(p)'
  <2>1. /\ state'[p] = state[p] \/ (state[p] = "marker" /\ state'[p] = "build")
        /\ UNCHANGED <<unit, step, read, cfg>>
    BY <1>0, <1>3 DEF WriteMarker, Go, At
  <2>. QED BY <2>1, ProgressKept
<1>4. ASSUME NEW p \in Procs, Begin(p) PROVE Progress(p)'
  <2>1. state[p] = "build" /\ state'[p] = "pass" /\ step'[p] = 1 /\ UNCHANGED <<unit, read, cfg>>
    BY <1>0, <1>4 DEF Begin, Go, At
  <2>2. Passes(cfg[p])[1].run
    <3>1. Passes(cfg[p])[1] = Frontend(cfg[p])[1]
      BY <1>0, FirstPass
    <3>. QED BY SMT, <3>1 DEF Frontend, Pass
  <2>3. Len(read'[p]) = unit'[p] - 1
    BY <2>1 DEF Progress
  <2>4. step'[p] # 18 /\ Passes(cfg'[p])[step'[p]].run
    BY SMT, <2>1, <2>2
  <2>. QED BY <2>1, <2>3, <2>4 DEF Progress, Passed, Kinds
<1>5. ASSUME NEW p \in Procs, RunPass(p) PROVE Progress(p)'
  <2>1. PICK j \in 2 .. 18 : /\ Follows(cfg[p], step[p], j) /\ step' = [step EXCEPT ![p] = j]
                             /\ Go(p, IF j = 18 THEN "open" ELSE "pass")
    BY <1>5 DEF RunPass
  <2>2. step[p] \in 1 .. 17 /\ state[p] = "pass" /\ UNCHANGED <<unit, cfg>>
    <3>1. step[p] \in 1 .. 17
      BY <1>0, <2>1, FollowsLater
    <3>. QED BY <1>5, <3>1 DEF RunPass, At
  <2>3. Len(read'[p]) = unit[p]
    <3>1. CASE step[p] = 1
      <4>1. read' = [read EXCEPT ![p] = Append(@, src[U(p)].ver)]
        BY <1>0, <1>5, <2>2, <3>1, PassTyped DEF RunPass
      <4>2. Len(read[p]) = unit[p] - 1 /\ read[p] \in Seq(Nat) /\ unit[p] \in Nat
        BY <1>0, <2>2, <3>1 DEF Progress
      <4>3. src[U(p)].ver \in Nat
        BY FilesTyped DEF TypeOK
      <4>. QED BY SMT, <1>0, <4>1, <4>2, <4>3
    <3>2. CASE step[p] # 1
      <4>1. read' = read
        <5>1. Passes(cfg[p])[step[p]].tool # "clang"
          BY <1>0, <2>2, <3>2, PassTyped
        <5>. QED BY <1>5, <5>1 DEF RunPass
      <4>. QED BY <4>1, <2>2, <3>2 DEF Progress
    <3>. QED BY <3>1, <3>2
  <2>4. step'[p] = j /\ state'[p] = IF j = 18 THEN "open" ELSE "pass"
    BY <1>0, <2>1 DEF Go
  <2>5. j < 18 => Passes(cfg[p])[j].run
    BY <2>1 DEF Follows
  <2>6. CASE j = 18
    BY <2>2, <2>3, <2>4, <2>6 DEF Progress, Passed, Kinds
  <2>7. CASE j # 18
    <3>1. Passes(cfg'[p])[step'[p]].run /\ step'[p] # 18 /\ step'[p] # 1 /\ state'[p] = "pass"
      BY SMT, <2>2, <2>4, <2>5, <2>7
    <3>. QED BY <2>2, <2>3, <3>1 DEF Progress, Passed, Kinds
  <2>. QED BY <2>6, <2>7
<1>6. ASSUME NEW p \in Procs, Open(p) \/ Lookup(p) \/ HeaderTemp(p) \/ HeaderFill(p) \/ HeaderRename(p)
      PROVE  Progress(p)'
  <2>1. state[p] \in Passed /\ state'[p] \in Passed
    BY <1>0, <1>6 DEF Open, Lookup, HeaderTemp, HeaderFill, HeaderRename, Go, At, Passed, Kinds
  <2>2. UNCHANGED <<unit, step, read, cfg>>
    BY <1>6 DEF Open, Lookup, HeaderTemp, HeaderFill, HeaderRename, own
  <2>. QED BY <2>1, <2>2, ProgressKept
<1>7. ASSUME NEW p \in Procs, Truncate(p) \/ Fill(p) \/ CheckMagic(p) PROVE Progress(p)'
  <2>1. state[p] \in Passed /\ state'[p] \in Passed
    BY <1>0, <1>7 DEF Truncate, Fill, CheckMagic, After, Go, At, Passed, Kinds
  <2>2. UNCHANGED <<unit, step, read, cfg>>
    BY <1>7 DEF Truncate, Fill, CheckMagic, own
  <2>. QED BY <2>1, <2>2, ProgressKept
<1>8. ASSUME NEW p \in Procs, NextUnit(p) PROVE Progress(p)'
  <2>1. /\ state[p] = "next" /\ UNCHANGED <<read, step, cfg>>
        /\ unit' = IF unit[p] < Len(cfg[p].units) THEN [unit EXCEPT ![p] = @ + 1] ELSE unit
        /\ state'[p] = IF unit[p] < Len(cfg[p].units) THEN "build" ELSE IF cfg[p].link THEN "go build" ELSE "ok"
    BY <1>0, <1>8 DEF NextUnit, Go, At
  <2>2. Len(read[p]) = unit[p] /\ Len(cfg[p].units) \in Nat /\ unit[p] \in 1 .. Len(cfg[p].units)
    BY <1>0, <2>1, UnitsTyped DEF Progress, Passed, TypeOK
  <2>3. CASE unit[p] < Len(cfg[p].units)
    <3>1. state'[p] = "build" /\ unit'[p] = unit[p] + 1
      BY <1>0, <2>1, <2>3
    <3>2. read'[p] = read[p] /\ Len(read[p]) = unit[p] /\ unit[p] \in Nat
      BY <1>0, <2>1, <2>2
    <3>3. Len(read'[p]) = unit'[p] - 1
      BY SMT, <3>1, <3>2
    <3>. QED BY <3>1, <3>3 DEF Progress, Passed, Kinds
  <2>4. CASE ~(unit[p] < Len(cfg[p].units))
    <3>1. state'[p] \in {"go build", "ok"} /\ unit'[p] = unit[p]
      BY <2>1, <2>4
    <3>2. unit[p] = Len(cfg[p].units)
      BY SMT, <2>2, <2>4
    <3>. QED BY <2>1, <2>2, <3>1, <3>2 DEF Progress, Passed, Kinds
  <2>. QED BY <2>3, <2>4
<1>9. ASSUME NEW p \in Procs, Toolexec(p) \/ HookStep(p) PROVE Progress(p)'
  <2>1. /\ state'[p] = state[p] \/ (state[p] = "go build" /\ state'[p] = "ok")
        /\ UNCHANGED <<unit, step, read, cfg>>
    BY <1>0, <1>9 DEF Toolexec, HookStep, Go, At
  <2>. QED BY <2>1, ProgressKept
<1>10. ASSUME NEW p \in Procs, Refuse(p) \/ Fail(p) \/ Kill(p) PROVE Progress(p)'
  <2>1. state'[p] \in {"failed", "killed"} /\ UNCHANGED <<unit, step, read, cfg>>
    BY <1>0, <1>10 DEF Refuse, Fail, Kill, Failed, Go, own
  <2>. QED BY <2>1, ProgressKept
<1>11. ASSUME NEW p \in Procs, Act(p) PROVE \A q \in Procs : Progress(q)'
  BY <1>1, <1>2, <1>3, <1>4, <1>5, <1>6, <1>7, <1>8, <1>9, <1>10, <1>11 DEF Act, Step
<1>12. ASSUME UNCHANGED <<state, unit, step, read, cfg>> PROVE \A p \in Procs : Progress(p)'
  BY <1>12 DEF Progress
<1>. QED BY <1>11, <1>12 DEF Next, Act, Edit, vars, own
==================================================================================
