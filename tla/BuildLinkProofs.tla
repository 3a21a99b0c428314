----------------------------- MODULE BuildLinkProofs -----------------------------
(* From the ELF object to the binary: the objects the converter writes, the files of *)
(* the objdir, and the calls of the toolexec hooks inside one `go build`.            *)
EXTENDS BuildPassProofs

(* The leaves are first-order reasoning for Zenon, where they do not name    *)
(* another prover.                                                           *)
USE Zenon

(* The ELF object the converter loaded, and the stack maps of the objects. *)

Loaded == {"lookup", "hopen", "hfill", "hmove", "goobj", "symabis"}

\* The converter works on the ELF object of the C file the process compiles, whose maps
\* were recorded once.
ElfFresh(p) == state[p] \in Loaded => Origin(elf[p]) = Source(p, unit[p]) /\ OnceMapped(elf[p].log)

\* After the passes the ELF object in the work directory is the one to convert.
LEMMA ElfReady ==
  ASSUME TypeOK, NEW p \in Procs, Progress(p), WorkFresh(p), state[p] \in Passed
  PROVE  LET x == File(p, "body.llc.o") IN Origin(x) = Source(p, unit[p]) /\ OnceMapped(x.log)
<1>1. cfg[p] \in Configs /\ step[p] = 18
  BY DEF TypeOK, Progress
<1>2. Passes(cfg[p])[17] = Backend(cfg[p])[10]
  BY SMT, <1>1, PassAt
<1>3. Passes(cfg[p])[17].run /\ "body.llc.o" \in Passes(cfg[p])[17].out
  BY SMT, <1>2, BackendRuns, BackendWrites
<1>4. Fresh(p, "body.llc.o")
  BY SMT, <1>1, <1>3 DEF WorkFresh
<1>5. Phase(cfg[p], "body.llc.o") = "mapped"
  BY Phases
<1>. QED BY <1>4, <1>5 DEF Fresh, File, LogOK

\* Every step keeps ElfFresh.
LEMMA ElfFreshStep ==
  ASSUME WorkInv, \A p \in Procs : ElfFresh(p), [Next]_vars
  PROVE  \A p \in Procs : ElfFresh(p)'
<1>0. TypeOK /\ state \in [Procs -> Stages] /\ elf \in [Procs -> Content]
  BY DEF TypeOK, WorkInv
<1>1. ASSUME NEW p \in Procs, cfg' = cfg, unit'[p] = unit[p], read'[p] = read[p], elf'[p] = elf[p],
             state'[p] \in Loaded => state[p] \in Loaded
      PROVE  ElfFresh(p)'
  BY <1>1 DEF ElfFresh, Source
<1>2. ASSUME NEW p \in Procs, Act(p), NEW q \in Procs, q # p PROVE ElfFresh(q)'
  BY SMT, <1>0, <1>1, <1>2, OtherProcs DEF Same
<1>3. ASSUME NEW p \in Procs, Open(p) PROVE ElfFresh(p)'
  <2>1. elf'[p] = File(p, "body.llc.o") /\ state[p] = "open" /\ UNCHANGED <<cfg, unit, read>>
    BY <1>0, <1>3 DEF Open, At
  <2>2. Origin(elf'[p]) = Source(p, unit[p]) /\ OnceMapped(elf'[p].log)
    BY <2>1, ElfReady DEF WorkInv, Passed
  <2>. QED BY <2>1, <2>2 DEF ElfFresh, Source
<1>4. ASSUME NEW p \in Procs, Lookup(p) \/ HeaderTemp(p) \/ HeaderFill(p) \/ HeaderRename(p) PROVE ElfFresh(p)'
  <2>1. state[p] \in Loaded
    BY <1>4 DEF Lookup, HeaderTemp, HeaderFill, HeaderRename, At, Loaded
  <2>2. UNCHANGED <<cfg, unit, read, elf>>
    BY <1>4 DEF Lookup, HeaderTemp, HeaderFill, HeaderRename, own
  <2>. QED BY <1>1, <2>1, <2>2
<1>5. ASSUME NEW p \in Procs, Truncate(p) \/ Fill(p) \/ CheckMagic(p) PROVE ElfFresh(p)'
  <2>1. state'[p] \in Loaded => state[p] \in Loaded
    BY <1>0, <1>5 DEF Truncate, Fill, CheckMagic, After, Go, At, Kinds, Loaded
  <2>2. UNCHANGED <<cfg, unit, read, elf>>
    BY <1>5 DEF Truncate, Fill, CheckMagic, own
  <2>. QED BY <1>1, <2>1, <2>2
<1>6. ASSUME NEW p \in Procs, state'[p] \notin Loaded PROVE ElfFresh(p)'
  BY <1>6 DEF ElfFresh
<1>7. ASSUME NEW p \in Procs, Start(p) \/ WriteMarker(p) \/ Begin(p) \/ RunPass(p) \/ NextUnit(p) PROVE ElfFresh(p)'
  <2>1. state'[p] \notin Loaded
    BY <1>0, <1>7 DEF Start, WriteMarker, Begin, RunPass, NextUnit, Go, At, Loaded
  <2>. QED BY <2>1, <1>6
<1>8. ASSUME NEW p \in Procs, Toolexec(p) \/ HookStep(p) \/ Refuse(p) \/ Fail(p) \/ Kill(p) PROVE ElfFresh(p)'
  <2>1. state'[p] \notin Loaded
    BY <1>0, <1>8 DEF Toolexec, HookStep, Refuse, Fail, Kill, Failed, Go, At, Loaded
  <2>. QED BY <2>1, <1>6
<1>9. ASSUME NEW p \in Procs, Act(p) PROVE \A q \in Procs : ElfFresh(q)'
  BY <1>2, <1>3, <1>4, <1>5, <1>7, <1>8, <1>9 DEF Act, Step
<1>10. ASSUME UNCHANGED <<state, unit, read, cfg, elf>> PROVE \A p \in Procs : ElfFresh(p)'
  BY <1>1, <1>10
<1>. QED BY <1>9, <1>10 DEF Next, Act, Edit, vars, own

\* Only the two halves of a write change the object directory.
LEMMA DiskWrites ==
  ASSUME NEW p \in Procs, Act(p), ~Truncate(p), ~Fill(p)
  PROVE  disk' = disk
BY DEF Act, Step, Start, WriteMarker, Begin, RunPass, Open, Lookup, HeaderTemp, HeaderFill, HeaderRename,
       CheckMagic, NextUnit, Toolexec, HookStep, Refuse, Fail, Kill, Failed, dirs

\* What a write of process p leaves in the object directory.
LEMMA DiskWritten ==
  ASSUME TypeOK, NEW p \in Procs, Truncate(p) \/ Fill(p)
  PROVE  LET kind == state[p]
             path == Path(p, U(p), kind) IN
         /\ kind \in Kinds /\ path \in DiskFiles
         /\ \A f \in DiskFiles \ {path} : disk'[f] = disk[f]
         /\ Truncate(p) => disk'[path] = Torn
         /\ Fill(p) => disk'[path] = Published(p, kind)
<1>1. disk \in [DiskFiles -> Content] /\ state[p] \in Kinds
  BY DEF TypeOK, Truncate, Fill
<1>2. Path(p, U(p), state[p]) \in DiskFiles
  BY <1>1, FilesTyped
<1>. QED BY <1>1, <1>2 DEF Truncate, Fill

\* Every step keeps MapsOnce: only Fill writes an object, from the loaded ELF object.
LEMMA MapsOnceStep == WorkInv /\ (\A p \in Procs : ElfFresh(p)) /\ MapsOnce /\ [Next]_vars => MapsOnce'
<1>. SUFFICES ASSUME WorkInv, \A p \in Procs : ElfFresh(p), MapsOnce, [Next]_vars PROVE MapsOnce'
  OBVIOUS
<1>0. TypeOK /\ DOMAIN disk = DiskFiles /\ DOMAIN disk' = DiskFiles
  <2>1. TypeOK /\ TypeOK'
    BY TypeStep DEF WorkInv
  <2>2. disk \in [DiskFiles -> Content] /\ disk' \in [DiskFiles -> Content]
    BY <2>1 DEF TypeOK
  <2>. QED BY <2>1, <2>2
<1>1. ASSUME disk' = disk PROVE MapsOnce'
  BY <1>1 DEF MapsOnce
<1>2. ASSUME NEW p \in Procs, Truncate(p) PROVE MapsOnce'
  <2>1. \A f \in DiskFiles : disk'[f] = Torn \/ disk'[f] = disk[f]
    BY <1>0, <1>2, DiskWritten
  <2>. QED BY <1>0, <2>1 DEF MapsOnce
<1>3. ASSUME NEW p \in Procs, Fill(p) PROVE MapsOnce'
  <2>. DEFINE path == Path(p, U(p), state[p])
  <2>1. state[p] \in Kinds /\ disk'[path] = Published(p, state[p]) /\ \A f \in DiskFiles \ {path} : disk'[f] = disk[f]
    BY <1>0, <1>3, DiskWritten
  <2>2. path[3] = state[p]
    BY DEF Path
  <2>3. state[p] = "goobj" => OnceMapped(disk'[path].log)
    <3>1. SUFFICES ASSUME state[p] = "goobj" PROVE OnceMapped(disk'[path].log)
      OBVIOUS
    <3>2. disk'[path] = [elf[p] EXCEPT !.log = Append(@, "convert")]
      BY <2>1, <3>1 DEF Published
    <3>3. elf[p] \in Content /\ "convert" \in Tools
      BY <1>0 DEF TypeOK, Tools
    <3>4. OnceMapped(elf[p].log) /\ elf[p].log \in Seq(Tools)
      BY <3>1, <3>3 DEF ElfFresh, Loaded, Content
    <3>5. OnceMapped(Append(elf[p].log, "convert"))
      BY <3>3, <3>4, OnceAppend
    <3>. QED BY <3>2, <3>3, <3>5, LoggedOrigin
  <2>4. ASSUME NEW f \in DiskFiles, f[3] = "goobj", disk'[f] \notin {NoFile, Torn} PROVE OnceMapped(disk'[f].log)
    <3>. HIDE DEF path
    <3>. QED BY <1>0, <2>1, <2>2, <2>3, <2>4 DEF MapsOnce
  <2>. QED BY <1>0, <2>4 DEF MapsOnce
<1>. QED BY <1>1, <1>2, <1>3, DiskWrites DEF Next, Act, Edit, vars, dirs

\* What the objects rest on.
ObjectInv == WorkInv /\ (\A p \in Procs : ElfFresh(p)) /\ MapsOnce

\* ObjectInv is inductive.
LEMMA ObjectInductive == (Init => ObjectInv) /\ (ObjectInv /\ [Next]_vars => ObjectInv')
<1>1. ASSUME Init PROVE ObjectInv
  BY <1>1, WorkInductive DEF Init, ObjectInv, ElfFresh, Loaded, MapsOnce
<1>2. ASSUME ObjectInv, [Next]_vars PROVE ObjectInv'
  BY <1>2, WorkInductive, ElfFreshStep, MapsOnceStep DEF ObjectInv
<1>. QED BY <1>1, <1>2

\* finalIR and lowerIR: the code of every object in an object directory went through the
\* stack map pass once, after opt and before goc-llc, at every optimisation level and
\* whoever wrote it.
THEOREM ObjectsMappedOnce == Spec => []MapsOnce
<1>1. ObjectInv => MapsOnce
  BY DEF ObjectInv
<1>. QED BY <1>1, ObjectInductive, PTL DEF Spec

----------------------------------------------------------------------------------
(* The object directory. *)

\* The stages after a file of this kind was written for the current C file.
Wrote(kind) == IF kind = "goobj" THEN {"symabis", "magic", "gocobj", "ll", "next", "go build"}
               ELSE {"magic", "gocobj", "ll", "next", "go build"}

\* Process p has written the object and the symabis of its k-th C file.
Stored(p, kind, k) == k < unit[p] \/ (k = unit[p] /\ state[p] \in Wrote(kind))

\* What a process at work has written is there: of its own making, and of the source it read.
DiskFresh(p) ==
  Active(p) => \A kind \in {"goobj", "symabis"}, k \in 1 .. Len(cfg[p].units) :
                 Stored(p, kind, k) => Origin(disk[Path(p, cfg[p].units[k], kind)]) = Source(p, k)

\* A step that neither writes the files of a process nor moves it.
LEMMA DiskFreshKept ==
  ASSUME NEW p \in Procs, DiskFresh(p), cfg' = cfg, unit'[p] = unit[p], read'[p] = read[p],
         Active(p)' => Active(p),
         \A kind \in {"goobj", "symabis"} : state'[p] \in Wrote(kind) => state[p] \in Wrote(kind),
         Active(p) => \A u \in 1 .. NUnits, kind \in Kinds : disk'[Path(p, u, kind)] = disk[Path(p, u, kind)],
         \A k \in 1 .. Len(cfg[p].units) : cfg[p].units[k] \in 1 .. NUnits
  PROVE  DiskFresh(p)'
<1>. SUFFICES ASSUME Active(p)', NEW kind \in {"goobj", "symabis"}, NEW k \in 1 .. Len(cfg[p].units),
                     Stored(p, kind, k)'
              PROVE  Origin(disk'[Path(p, cfg[p].units[k], kind)]) = <<cfg[p].units[k], read'[p][k], p>>
  BY DEF DiskFresh, Source, Path
<1>1. Stored(p, kind, k)
  BY DEF Stored
<1>2. Origin(disk[Path(p, cfg[p].units[k], kind)]) = <<cfg[p].units[k], read[p][k], p>>
  BY <1>1 DEF DiskFresh, Source
<1>3. disk'[Path(p, cfg[p].units[k], kind)] = disk[Path(p, cfg[p].units[k], kind)]
  BY DEF Kinds
<1>. QED BY <1>2, <1>3

\* A write of one process does not touch the files of another one at work.
LEMMA DiskOfOthers ==
  ASSUME TypeOK, Exclusive, NEW p \in Procs, Act(p), NEW q \in Procs, q # p, Active(q),
         NEW u \in 1 .. NUnits, NEW kind \in Kinds
  PROVE  disk'[Path(q, u, kind)] = disk[Path(q, u, kind)]
<1>1. CASE Truncate(p) \/ Fill(p)
  <2>1. Active(p)
    BY <1>1 DEF Truncate, Fill, Active, Idle, Kinds
  <2>2. cfg[p].objdir # cfg[q].objdir
    BY <2>1 DEF Exclusive, Shares
  <2>3. Path(q, u, kind) # Path(p, U(p), state[p]) /\ Path(q, u, kind) \in DiskFiles
    BY <2>2, FilesTyped DEF Path
  <2>. QED BY <1>1, <2>3, DiskWritten
<1>2. CASE ~Truncate(p) /\ ~Fill(p)
  BY <1>2, DiskWrites
<1>. QED BY <1>1, <1>2

\* A write of a process does not touch what it stored before.
LEMMA DiskOfEarlier ==
  ASSUME TypeOK, NEW p \in Procs, Truncate(p) \/ Fill(p), NEW kind \in {"goobj", "symabis"},
         NEW k \in 1 .. Len(cfg[p].units), Stored(p, kind, k)
  PROVE  disk'[Path(p, cfg[p].units[k], kind)] = disk[Path(p, cfg[p].units[k], kind)]
<1>1. /\ cfg[p] \in Configs /\ unit[p] \in 1 .. Len(cfg[p].units) /\ cfg[p].units[k] \in 1 .. NUnits
      /\ Len(cfg[p].units) \in Nat
  BY FilesTyped, UnitsTyped DEF TypeOK
<1>2. kind # state[p] \/ cfg[p].units[k] # U(p)
  <2>1. CASE k = unit[p]
    <3>1. state[p] \in Wrote(kind)
      BY SMT, <1>1, <2>1 DEF Stored
    <3>. QED BY <3>1 DEF Wrote
  <2>2. CASE k # unit[p]
    BY <1>1, <2>2, UnitsTyped DEF U
  <2>. QED BY <2>1, <2>2
<1>3. Path(p, cfg[p].units[k], kind) \in DiskFiles /\ Path(p, cfg[p].units[k], kind) # Path(p, U(p), state[p])
  <2>1. kind \in Kinds
    BY DEF Kinds
  <2>. QED BY <1>1, <1>2, <2>1, FilesTyped DEF Path
<1>. QED BY <1>3, DiskWritten

\* Every step keeps what the processes stored.
LEMMA DiskFreshStep ==
  ASSUME WorkInv, \A p \in Procs : ElfFresh(p) /\ DiskFresh(p), [Next]_vars
  PROVE  \A p \in Procs : DiskFresh(p)'
<1>0. TypeOK /\ Exclusive /\ state \in [Procs -> Stages] /\ read \in [Procs -> Seq(Nat)] /\ unit \in [Procs -> Nat]
      /\ \A p \in Procs : Progress(p)
  BY DEF TypeOK, WorkInv
<1>1. \A p \in Procs : \A k \in 1 .. Len(cfg[p].units) : cfg[p].units[k] \in 1 .. NUnits
  BY <1>0, FilesTyped
<1>2. ASSUME NEW p \in Procs, Act(p), NEW q \in Procs, q # p PROVE DiskFresh(q)'
  <2>1. state'[q] = state[q] /\ unit'[q] = unit[q] /\ read'[q] = read[q] /\ cfg' = cfg
    BY SMT, <1>0, <1>2, OtherProcs DEF Same
  <2>2. Active(q) => \A u \in 1 .. NUnits, kind \in Kinds : disk'[Path(q, u, kind)] = disk[Path(q, u, kind)]
    BY <1>0, <1>2, DiskOfOthers
  <2>. QED BY <1>1, <2>1, <2>2, DiskFreshKept DEF Active
<1>3. ASSUME NEW p \in Procs, disk' = disk, UNCHANGED <<cfg, unit, read>>, Active(p)' => Active(p),
             \A kind \in {"goobj", "symabis"} : state'[p] \in Wrote(kind) => state[p] \in Wrote(kind)
      PROVE  DiskFresh(p)'
  BY <1>1, <1>3, DiskFreshKept
<1>4. ASSUME NEW p \in Procs, Start(p) PROVE DiskFresh(p)'
  <2>1. unit'[p] = 1 /\ state'[p] \in {"marker", "build"}
    BY <1>0, <1>4 DEF Start, Go, At, Progress, own
  <2>2. ASSUME NEW kind \in {"goobj", "symabis"}, NEW k \in Nat \ {0} PROVE ~Stored(p, kind, k)'
    <3>1. ~(k < unit'[p])
      BY SMT, <2>1
    <3>2. state'[p] \notin Wrote(kind)
      BY <2>1 DEF Wrote
    <3>. QED BY <3>1, <3>2 DEF Stored
  <2>3. cfg' = cfg /\ \A k \in 1 .. Len(cfg[p].units) : k \in Nat \ {0}
    BY SMT, <1>4 DEF Start, own
  <2>. QED BY <2>2, <2>3 DEF DiskFresh
<1>5. ASSUME NEW p \in Procs, WriteMarker(p) \/ Begin(p) \/ Open(p) \/ Lookup(p) PROVE DiskFresh(p)'
  <2>1. disk' = disk /\ UNCHANGED <<cfg, unit, read>>
    BY <1>5 DEF WriteMarker, Begin, Open, Lookup, dirs
  <2>2. state'[p] \in {"marker", "build", "pass", "lookup", "goobj", "hopen"} /\ Active(p)
    BY <1>0, <1>5 DEF WriteMarker, Begin, Open, Lookup, Go, At, Active, Idle
  <2>. QED BY <1>3, <2>1, <2>2 DEF Wrote
<1>6. ASSUME NEW p \in Procs, HeaderTemp(p) \/ HeaderFill(p) \/ HeaderRename(p) \/ CheckMagic(p) PROVE DiskFresh(p)'
  <2>1. disk' = disk /\ UNCHANGED <<cfg, unit, read>>
    BY <1>6 DEF HeaderTemp, HeaderFill, HeaderRename, CheckMagic, dirs, own
  <2>2. /\ state'[p] \in {"hfill", "hmove", "goobj"} \/ (state'[p] = "gocobj" /\ state[p] = "magic")
        /\ Active(p)
    BY <1>0, <1>6 DEF HeaderTemp, HeaderFill, HeaderRename, CheckMagic, Go, At, Active, Idle
  <2>. QED BY <1>3, <2>1, <2>2 DEF Wrote
<1>7. ASSUME NEW p \in Procs, RunPass(p) PROVE DiskFresh(p)'
  <2>1. disk' = disk /\ UNCHANGED <<cfg, unit>> /\ state[p] = "pass" /\ state'[p] \in {"pass", "open"}
    BY <1>0, <1>7 DEF RunPass, At, Go
  <2>2. \A k \in Nat \ {0} : k < unit[p] => read'[p][k] = read[p][k]
    <3>1. Len(read[p]) \in Nat /\ Len(read[p]) >= unit[p] - 1 /\ unit[p] \in Nat
      <4>1. Len(read[p]) = unit[p] - 1 \/ Len(read[p]) = unit[p]
        BY <1>0, <2>1 DEF Progress
      <4>2. unit[p] \in Nat /\ Len(read[p]) \in Nat
        BY SMT, <1>0
      <4>. QED BY SMT, <4>1, <4>2
    <3>2. read' = read \/ read' = [read EXCEPT ![p] = Append(@, src[U(p)].ver)]
      BY <1>7 DEF RunPass
    <3>3. read'[p] = read[p] \/ read'[p] = Append(read[p], src[U(p)].ver)
      BY <1>0, <3>2
    <3>4. read[p] \in Seq(Nat) /\ src[U(p)].ver \in Nat
      BY <1>0, FilesTyped DEF TypeOK
    <3>5. ASSUME NEW k \in Nat \ {0}, k < unit[p] PROVE k \in 1 .. Len(read[p])
      BY SMT, <3>1, <3>5
    <3>6. \A i \in 1 .. Len(read[p]) : Append(read[p], src[U(p)].ver)[i] = read[p][i]
      BY SMT, <3>4
    <3>7. \A i \in 1 .. Len(read[p]) : read'[p][i] = read[p][i]
      BY <3>3, <3>6
    <3>. QED BY <3>5, <3>7
  <2>3. ASSUME NEW kind \in {"goobj", "symabis"}, NEW k \in 1 .. Len(cfg[p].units), Stored(p, kind, k)'
        PROVE  (Origin(disk[Path(p, cfg[p].units[k], kind)]) = Source(p, k))'
    <3>1. k < unit[p]
      BY <2>1, <2>3 DEF Stored, Wrote
    <3>2. Origin(disk[Path(p, cfg[p].units[k], kind)]) = Source(p, k)
      BY <2>1, <3>1 DEF DiskFresh, Active, Idle, Stored
    <3>. QED BY SMT, <2>1, <2>2, <3>1, <3>2 DEF Source, Path
  <2>. QED BY <2>1, <2>3 DEF DiskFresh
<1>8. ASSUME NEW p \in Procs, Truncate(p) PROVE DiskFresh(p)'
  <2>1. UNCHANGED <<cfg, unit, read, state>> /\ Active(p)
    BY <1>8 DEF Truncate, Active, Idle, Kinds
  <2>2. ASSUME NEW kind \in {"goobj", "symabis"}, NEW k \in 1 .. Len(cfg[p].units), Stored(p, kind, k)'
        PROVE  (Origin(disk[Path(p, cfg[p].units[k], kind)]) = Source(p, k))'
    <3>1. Stored(p, kind, k)
      BY <2>1, <2>2 DEF Stored
    <3>2. Origin(disk[Path(p, cfg[p].units[k], kind)]) = Source(p, k)
      BY <2>1, <3>1 DEF DiskFresh
    <3>3. disk'[Path(p, cfg[p].units[k], kind)] = disk[Path(p, cfg[p].units[k], kind)]
      BY <1>0, <1>8, <3>1, DiskOfEarlier
    <3>. QED BY <2>1, <3>2, <3>3 DEF Source, Path
  <2>. QED BY <2>1, <2>2 DEF DiskFresh
<1>9. ASSUME NEW p \in Procs, Fill(p) PROVE DiskFresh(p)'
  <2>1. UNCHANGED <<cfg, unit, read>> /\ Active(p) /\ state'[p] = After(p, state[p]) /\ state[p] \in Kinds
    BY <1>0, <1>9 DEF Fill, Active, Idle, Kinds, Go
  <2>2. ASSUME NEW kind \in {"goobj", "symabis"}, NEW k \in 1 .. Len(cfg[p].units), Stored(p, kind, k)'
        PROVE  (Origin(disk[Path(p, cfg[p].units[k], kind)]) = Source(p, k))'
    <3>1. Stored(p, kind, k) \/ (k = unit[p] /\ state[p] = kind)
      <4>1. CASE k < unit[p]
        BY <4>1 DEF Stored
      <4>2. CASE ~(k < unit[p])
        <5>1. k = unit[p] /\ After(p, state[p]) \in Wrote(kind)
          BY <2>1, <2>2, <4>2 DEF Stored
        <5>2. state[p] \in Wrote(kind) \/ state[p] = kind
          BY <2>1, <5>1 DEF After, Wrote, Kinds
        <5>. QED BY <5>1, <5>2 DEF Stored
      <4>. QED BY <4>1, <4>2
    <3>2. CASE Stored(p, kind, k)
      <4>1. Origin(disk[Path(p, cfg[p].units[k], kind)]) = Source(p, k)
        BY <2>1, <3>2 DEF DiskFresh
      <4>2. disk'[Path(p, cfg[p].units[k], kind)] = disk[Path(p, cfg[p].units[k], kind)]
        BY <1>0, <1>9, <3>2, DiskOfEarlier
      <4>. QED BY <2>1, <4>1, <4>2 DEF Source, Path
    <3>3. CASE k = unit[p] /\ state[p] = kind
      <4>1. disk'[Path(p, U(p), kind)] = Published(p, kind)
        BY <1>0, <1>9, <3>3, DiskWritten
      <4>2. Published(p, kind) = [elf[p] EXCEPT !.log = Append(@, "convert")] /\ elf[p] \in Content
        BY <1>0 DEF Published, TypeOK
      <4>3. Origin(elf[p]) = Source(p, unit[p])
        BY <3>3 DEF ElfFresh, Loaded
      <4>4. Origin(Published(p, kind)) = Source(p, k)
        <5>1. Origin([elf[p] EXCEPT !.log = Append(@, "convert")]) = Origin(elf[p])
          BY <4>2, LoggedOrigin
        <5>. QED BY <3>3, <4>2, <4>3, <5>1
      <4>5. disk'[Path(p, cfg[p].units[k], kind)] = Published(p, kind)
        BY <3>3, <4>1 DEF U
      <4>. QED BY <2>1, <4>4, <4>5 DEF Source, Path
    <3>. QED BY <3>1, <3>2, <3>3
  <2>. QED BY <2>1, <2>2 DEF DiskFresh
<1>10. ASSUME NEW p \in Procs, NextUnit(p) PROVE DiskFresh(p)'
  <2>1. UNCHANGED <<cfg, disk, read>> /\ Active(p) /\ state[p] = "next"
    BY <1>10 DEF NextUnit, Active, Idle, At
  <2>2. (unit'[p] = unit[p] + 1 /\ state'[p] = "build") \/ (unit'[p] = unit[p] /\ state'[p] \in {"go build", "ok"})
    BY <1>0, <1>10 DEF NextUnit, Go
  <2>3. ASSUME NEW kind \in {"goobj", "symabis"}, NEW k \in 1 .. Len(cfg[p].units), Stored(p, kind, k)'
        PROVE  (Origin(disk[Path(p, cfg[p].units[k], kind)]) = Source(p, k))'
    <3>1. k <= unit[p] /\ unit[p] \in Nat
      <4>1. unit[p] \in Nat
        BY <1>0
      <4>2. CASE unit'[p] = unit[p] + 1 /\ state'[p] = "build"
        <5>1. k < unit[p] + 1
          BY <2>3, <4>2 DEF Stored, Wrote
        <5>. QED BY SMT, <4>1, <5>1
      <4>3. CASE unit'[p] = unit[p]
        <5>1. k < unit[p] \/ k = unit[p]
          BY <2>3, <4>3 DEF Stored
        <5>. QED BY SMT, <4>1, <5>1
      <4>. QED BY <2>2, <4>1, <4>2, <4>3
    <3>2. Stored(p, kind, k)
      BY SMT, <2>1, <3>1 DEF Stored, Wrote
    <3>3. Origin(disk[Path(p, cfg[p].units[k], kind)]) = Source(p, k)
      BY <2>1, <3>2 DEF DiskFresh
    <3>. QED BY <2>1, <3>3 DEF Source, Path
  <2>. QED BY <2>1, <2>3 DEF DiskFresh
<1>11. ASSUME NEW p \in Procs, Toolexec(p) \/ HookStep(p) PROVE DiskFresh(p)'
  <2>1. disk' = disk /\ UNCHANGED <<cfg, unit, read>>
    BY <1>11 DEF Toolexec, HookStep, dirs
  <2>2. state[p] = "go build" /\ state'[p] \in {"go build", "ok"}
    BY <1>0, <1>11 DEF Toolexec, HookStep, Go, At
  <2>. QED BY <1>3, <2>1, <2>2 DEF Wrote, Active, Idle
<1>12. ASSUME NEW p \in Procs, Refuse(p) \/ Fail(p) \/ Kill(p) PROVE DiskFresh(p)'
  <2>1. state'[p] \in {"failed", "killed"}
    BY <1>0, <1>12 DEF Refuse, Fail, Kill, Failed, Go
  <2>. QED BY <2>1 DEF DiskFresh, Active, Idle
<1>13. ASSUME NEW p \in Procs, Act(p) PROVE \A q \in Procs : DiskFresh(q)'
  BY SMTT(30), <1>2, <1>4, <1>5, <1>6, <1>7, <1>8, <1>9, <1>10, <1>11, <1>12, <1>13 DEF Act, Step
<1>14. ASSUME UNCHANGED <<state, unit, read, cfg, disk>> PROVE \A p \in Procs : DiskFresh(p)'
  BY <1>3, <1>14 DEF Active
<1>. QED BY <1>13, <1>14 DEF Next, Act, Edit, vars, own, dirs

----------------------------------------------------------------------------------
(* go build and the hook. *)

Working == Stages \ {"go build", "ok", "failed", "killed"}

\* Before `go build` the archives hold no C object and no call is in the hook.
Bare(p) == state[p] \in Working =>
             busy[p] = "none" /\ \A g \in Pkgs : archive[p][g] = <<>> /\ symfile[p][g] = <<>>

Links(p) == state[p] = "go build" \/ (state[p] = "ok" /\ cfg[p].link)

\* The calls of one `go build`: only hooked ones are in the hook, and they run in order.
CallsOrdered(p) ==
  /\ Links(p) => /\ busy[p] \in {"none", "gensymabis", "compile", "asm"} /\ busy[p] \notin done[p]
                 /\ \A call \in done[p] \cup {busy[p]} : Needs(call) \subseteq done[p]
                 /\ busy[p] \in {"gensymabis", "compile"} => nextObj[p] <= Len(cfg[p].units) + 1
  /\ state[p] = "ok" /\ cfg[p].link => "link" \in done[p]

\* How many C files a call has added.
Count(p, call) == IF call \in done[p] THEN Len(cfg[p].units)
                  ELSE IF busy[p] = call THEN nextObj[p] - 1 ELSE 0

\* The files are those of the first n C files of process p, in order.
Added(p, files, n) == Len(files) = n /\ \A k \in 1 .. n : Origin(files[k]) = Source(p, k)

\* The archive and the symabis file hold what the calls have added, and no other package's do.
FilesAdded(p) ==
  Links(p) => /\ Added(p, archive[p][Own], Count(p, "compile"))
              /\ Added(p, symfile[p][Own], Count(p, "gensymabis"))
              /\ archive[p]["dep"] = <<>> /\ symfile[p]["dep"] = <<>>

\* A step that leaves the link of a process alone.
LEMMA LinkKept ==
  ASSUME NEW p \in Procs, Bare(p), CallsOrdered(p), FilesAdded(p), cfg' = cfg,
         read'[p] = read[p] \/ state'[p] \in Working,
         busy'[p] = busy[p], done'[p] = done[p], nextObj'[p] = nextObj[p], archive'[p] = archive[p],
         symfile'[p] = symfile[p],
         \/ state'[p] = state[p]
         \/ state[p] \in Working /\ state'[p] \in Working
         \/ state'[p] \in {"failed", "killed"}
  PROVE  Bare(p)' /\ CallsOrdered(p)' /\ FilesAdded(p)'
<1>1. state'[p] \in Working => state[p] \in Working
  BY DEF Working
<1>2. Links(p)' => Links(p) /\ state'[p] = state[p] /\ read'[p] = read[p]
  BY DEF Links, Working
<1>3. Bare(p)'
  BY <1>1 DEF Bare
<1>4. CallsOrdered(p)'
  <2>1. state'[p] = "ok" /\ cfg[p].link => state[p] = "ok"
    BY DEF Working
  <2>. QED BY <1>2, <2>1 DEF CallsOrdered
<1>5. ASSUME Links(p)' PROVE FilesAdded(p)'
  <2>1. Links(p) /\ read'[p] = read[p]
    BY <1>2, <1>5
  <2>2. Count(p, "compile")' = Count(p, "compile") /\ Count(p, "gensymabis")' = Count(p, "gensymabis")
    BY DEF Count
  <2>3. \A k : Source(p, k)' = Source(p, k)
    BY <2>1 DEF Source
  <2>. QED BY <2>1, <2>2, <2>3 DEF FilesAdded, Added
<1>. QED BY <1>3, <1>4, <1>5 DEF FilesAdded

\* The loop over the C files ends: nothing is added yet.
LEMMA LinkNextUnit ==
  ASSUME TypeOK, NEW p \in Procs, Bare(p), NextUnit(p)
  PROVE  Bare(p)' /\ CallsOrdered(p)' /\ FilesAdded(p)'
<1>1. /\ \/ state'[p] = "build"
         \/ state'[p] = "go build" /\ cfg[p].link
         \/ state'[p] = "ok" /\ ~cfg[p].link
      /\ done'[p] = {} /\ UNCHANGED <<cfg, archive, symfile, busy>>
  <2>1. state \in [Procs -> Stages] /\ done \in [Procs -> SUBSET Calls]
    BY DEF TypeOK
  <2>. QED BY <2>1 DEF NextUnit, Go, At, Skipped
<1>2. state[p] = "next" /\ state[p] \in Working
  BY DEF NextUnit, At, Working, Stages
<1>3. busy[p] = "none" /\ \A g \in Pkgs : archive[p][g] = <<>> /\ symfile[p][g] = <<>>
  BY <1>2 DEF Bare
<1>4. busy'[p] = "none" /\ \A g \in Pkgs : archive'[p][g] = <<>> /\ symfile'[p][g] = <<>>
  BY <1>1, <1>3
<1>5. Bare(p)'
  BY <1>4 DEF Bare
<1>6. CallsOrdered(p)'
  <2>1. ~(state'[p] = "ok" /\ cfg'[p].link)
    BY <1>1
  <2>. QED BY <1>1, <1>4, <2>1 DEF CallsOrdered, Needs
<1>7. FilesAdded(p)'
  <2>1. Count(p, "compile")' = 0 /\ Count(p, "gensymabis")' = 0
    BY <1>1, <1>4 DEF Count
  <2>2. Added(p, <<>>, 0)'
    BY SMT DEF Added
  <2>3. Own \in Pkgs /\ "dep" \in Pkgs
    BY DEF Pkgs, Own
  <2>. QED BY <1>4, <2>1, <2>2, <2>3 DEF FilesAdded, Added
<1>. QED BY <1>5, <1>6, <1>7

\* What the calls need.
LEMMA NeedsOf ==
  /\ Needs("none") = {} /\ Needs("gensymabis") = {} /\ Needs("dep compile") = {}
  /\ Needs("compile") = {"dep compile", "gensymabis"} /\ Needs("asm") = {"compile"} /\ Needs("link") = {"asm"}
BY DEF Needs

\* The calls of this package that the hook completes.
LEMMA HookedCalls ==
  ASSUME NEW call \in Calls
  PROVE  IF call \in {"gensymabis", "compile", "asm"} THEN Hooked(call) /\ PkgOf(call) = Own ELSE ~Hooked(call)
BY DEF Calls, Hooked, ToolOf, PkgOf, Own

\* go build calls a tool: a hooked call adds from the first C file on, any other is done.
LEMMA LinkToolexec ==
  ASSUME TypeOK, NEW p \in Procs, CallsOrdered(p), FilesAdded(p), Toolexec(p)
  PROVE  Bare(p)' /\ CallsOrdered(p)' /\ FilesAdded(p)'
<1>0. /\ state \in [Procs -> Stages] /\ done \in [Procs -> SUBSET Calls] /\ busy \in [Procs -> Calls \cup {"none"}]
      /\ nextObj \in [Procs -> Nat \ {0}]
  BY DEF TypeOK
<1>1. PICK call \in Calls \ done[p] :
        /\ Needs(call) \subseteq done[p]
        /\ IF Hooked(call) THEN /\ busy' = [busy EXCEPT ![p] = call] /\ nextObj' = [nextObj EXCEPT ![p] = 1]
                                /\ UNCHANGED <<done, state>>
           ELSE /\ done' = [done EXCEPT ![p] = @ \cup {call}]
                /\ Go(p, IF call = "link" THEN "ok" ELSE state[p])
                /\ UNCHANGED <<busy, nextObj>>
  BY DEF Toolexec
<1>2. state[p] = "go build" /\ busy[p] = "none" /\ UNCHANGED <<cfg, read, archive, symfile>> /\ Links(p)
  BY DEF Toolexec, At, linking, Links
<1>3. /\ \A c \in done[p] : Needs(c) \subseteq done[p]
      /\ "none" \notin done[p] /\ Len(cfg[p].units) \in Nat \ {0}
  <2>1. cfg[p] \in Configs
    BY DEF TypeOK
  <2>. QED BY <1>2, <2>1, UnitsTyped DEF CallsOrdered
<1>4. state'[p] \in {"go build", "ok"}
  BY <1>0, <1>1, <1>2 DEF Go
<1>5. Bare(p)'
  BY <1>4 DEF Bare, Working
<1>6. CASE Hooked(call)
  <2>1. call \in {"gensymabis", "compile", "asm"}
    BY <1>6, HookedCalls
  <2>2. busy'[p] = call /\ nextObj'[p] = 1 /\ done' = done /\ state'[p] = "go build"
    BY <1>0, <1>1, <1>2, <1>6
  <2>3. CallsOrdered(p)'
    <3>1. busy'[p] \in {"none", "gensymabis", "compile", "asm"} /\ busy'[p] \notin done'[p]
      BY <1>1, <2>1, <2>2
    <3>2. \A c \in done'[p] \cup {busy'[p]} : Needs(c) \subseteq done'[p]
      BY <1>1, <1>3, <2>2
    <3>3. nextObj'[p] <= Len(cfg'[p].units) + 1
      <4>1. Len(cfg'[p].units) = Len(cfg[p].units) /\ nextObj'[p] = 1
        BY <1>2, <2>2
      <4>2. 1 <= Len(cfg[p].units) + 1
        BY SMT, <1>3
      <4>. QED BY <4>1, <4>2
    <3>. QED BY <2>2, <3>1, <3>2, <3>3 DEF CallsOrdered
  <2>4. ASSUME NEW c \in {"compile", "gensymabis"} PROVE Count(p, c)' = Count(p, c)
    <3>1. c \in done[p] => Count(p, c)' = Len(cfg[p].units) /\ Count(p, c) = Len(cfg[p].units)
      BY <1>2, <2>2 DEF Count
    <3>2. c \notin done[p] => Count(p, c) = 0
      BY <1>2, <2>4 DEF Count
    <3>3. c \notin done[p] => Count(p, c)' = 1 - 1 \/ Count(p, c)' = 0
      BY <2>2 DEF Count
    <3>. QED BY SMT, <3>1, <3>2, <3>3
  <2>5. FilesAdded(p)'
    BY <1>2, <2>4 DEF FilesAdded, Added, Source
  <2>. QED BY <1>5, <2>3, <2>5
<1>7. CASE ~Hooked(call)
  <2>1. call \notin {"gensymabis", "compile", "asm"}
    BY <1>7, HookedCalls
  <2>2. busy' = busy /\ nextObj' = nextObj /\ done'[p] = done[p] \cup {call} /\ (state'[p] = "ok" => call = "link")
    BY <1>0, <1>1, <1>2, <1>7 DEF Go
  <2>3. CallsOrdered(p)'
    <3>1. "none" \notin done'[p]
      BY <1>3, <2>2 DEF Calls
    <3>2. \A c \in done'[p] \cup {busy'[p]} : Needs(c) \subseteq done'[p]
      BY <1>1, <1>2, <1>3, <2>2, NeedsOf
    <3>. QED BY <1>2, <2>2, <3>1, <3>2 DEF CallsOrdered
  <2>4. ASSUME NEW c \in {"compile", "gensymabis"} PROVE Count(p, c)' = Count(p, c)
    BY <1>2, <2>1, <2>2 DEF Count
  <2>5. FilesAdded(p)'
    BY <1>2, <2>4 DEF FilesAdded, Added, Source
  <2>. QED BY <1>5, <2>3, <2>5
<1>. QED BY <1>6, <1>7

\* One more file of the right origin.
LEMMA AddedAppend ==
  ASSUME NEW p \in Procs, NEW files \in Seq(Content), NEW n \in Nat, NEW x \in Content, Added(p, files, n),
         Origin(x) = Source(p, n + 1)
  PROVE  Added(p, Append(files, x), n + 1)
<1>. DEFINE new == Append(files, x)
<1>1. Len(new) = n + 1 /\ new[n + 1] = x /\ \A k \in 1 .. n : new[k] = files[k]
  BY SMT DEF Added
<1>2. \A k \in 1 .. n + 1 : k \in 1 .. n \/ k = n + 1
  BY SMT
<1>3. \A k \in 1 .. n : Origin(files[k]) = Source(p, k)
  BY DEF Added
<1>. HIDE DEF new
<1>. QED BY SMTT(30), <1>1, <1>2, <1>3 DEF Added

\* A position that the hook has not passed.
LEMMA Positions ==
  ASSUME NEW a \in Nat \ {0}, NEW b \in Nat, a <= b
  PROVE  a \in 1 .. b /\ (a < b \/ a = b)
BY SMT

\* The file the hook adds next is there, and of this build.
LEMMA HookReads ==
  ASSUME TypeOK, NEW p \in Procs, Progress(p), DiskFresh(p), state[p] = "go build", nextObj[p] <= Len(cfg[p].units),
         NEW kind \in {"goobj", "symabis"}
  PROVE  LET x == disk[Path(p, cfg[p].units[nextObj[p]], kind)] IN
         x \in Content /\ x # NoFile /\ Origin(x) = Source(p, nextObj[p])
<1>1. /\ cfg[p] \in Configs /\ nextObj[p] \in Nat \ {0} /\ disk \in [DiskFiles -> Content]
      /\ unit[p] = Len(cfg[p].units)
  BY DEF TypeOK, Progress
<1>2. nextObj[p] \in 1 .. Len(cfg[p].units) /\ Len(cfg[p].units) \in Nat
  <2>1. Len(cfg[p].units) \in Nat
    BY <1>1, UnitsTyped
  <2>. QED BY <1>1, <2>1, Positions
<1>3. Stored(p, kind, nextObj[p])
  <2>1. nextObj[p] < unit[p] \/ nextObj[p] = unit[p]
    BY <1>1, <1>2, Positions
  <2>. QED BY <2>1 DEF Stored, Wrote
<1>4. Active(p)
  BY DEF Active, Idle
<1>5. Origin(disk[Path(p, cfg[p].units[nextObj[p]], kind)]) = Source(p, nextObj[p])
  BY <1>2, <1>3, <1>4 DEF DiskFresh
<1>6. Path(p, cfg[p].units[nextObj[p]], kind) \in DiskFiles
  BY <1>2, FilesTyped DEF Kinds
<1>7. disk[Path(p, cfg[p].units[nextObj[p]], kind)] \in Content
  BY <1>1, <1>6
<1>8. disk[Path(p, cfg[p].units[nextObj[p]], kind)] # NoFile
  <2>1. \A x, u, v : Origin(x) = <<u, v, p>> => x # NoFile
    BY OwnNotTorn
  <2>. QED BY <1>5, <2>1 DEF Source
<1>. QED BY <1>5, <1>7, <1>8

\* The hook adds the next file.
LEMMA LinkHookAdds ==
  ASSUME TypeOK, NEW p \in Procs, Progress(p), DiskFresh(p), CallsOrdered(p), FilesAdded(p), HookStep(p),
         busy[p] # "asm", nextObj[p] <= Len(cfg[p].units)
  PROVE  CallsOrdered(p)' /\ FilesAdded(p)'
<1>. DEFINE call == busy[p]
            n == nextObj[p]
            x(kind) == disk[Path(p, cfg[p].units[n], kind)]
<1>1. /\ state[p] = "go build" /\ call # "none" /\ Links(p)
      /\ UNCHANGED <<cfg, state, read, busy, done>> /\ nextObj' = [nextObj EXCEPT ![p] = @ + 1]
  BY DEF HookStep, At, Links
<1>2. /\ call \in {"gensymabis", "compile"} /\ call \notin done[p]
      /\ \A c \in done[p] \cup {call} : Needs(c) \subseteq done[p]
  BY <1>1 DEF CallsOrdered
<1>3. n \in Nat \ {0} /\ nextObj'[p] = n + 1 /\ Len(cfg[p].units) \in Nat
  <2>1. nextObj \in [Procs -> Nat \ {0}] /\ cfg[p] \in Configs
    BY DEF TypeOK
  <2>. QED BY <1>1, <2>1, UnitsTyped
<1>4. CallsOrdered(p)'
  <2>1. nextObj'[p] <= Len(cfg[p].units) + 1
    BY SMT, <1>3
  <2>. QED BY <1>1, <1>2, <2>1 DEF CallsOrdered
<1>5. ASSUME NEW kind \in {"goobj", "symabis"} PROVE x(kind) \in Content /\ x(kind) # NoFile /\ Origin(x(kind)) = Source(p, n)
  BY <1>1, HookReads
<1>6. /\ archive[p][Own] \in Seq(Content) /\ symfile[p][Own] \in Seq(Content) /\ Own \in Pkgs /\ Own # "dep"
      /\ archive \in [Procs -> [Pkgs -> Seq(Content)]] /\ symfile \in [Procs -> [Pkgs -> Seq(Content)]]
  BY SMT DEF TypeOK, Pkgs, Own
<1>7. /\ Added(p, archive[p][Own], Count(p, "compile")) /\ Added(p, symfile[p][Own], Count(p, "gensymabis"))
      /\ archive[p]["dep"] = <<>> /\ symfile[p]["dep"] = <<>>
  BY <1>1 DEF FilesAdded
<1>8. \A c \in {"compile", "gensymabis"} \ {call} : Count(p, c)' = Count(p, c)
  BY <1>1 DEF Count
<1>9. ASSUME NEW c \in {"compile", "gensymabis"}, c = call PROVE Count(p, c) = n - 1 /\ Count(p, c)' = n
  <2>1. Count(p, c) = n - 1
    BY <1>2, <1>9 DEF Count
  <2>2. Count(p, c)' = nextObj'[p] - 1
    BY <1>1, <1>2, <1>9 DEF Count
  <2>3. nextObj'[p] - 1 = n
    BY SMT, <1>3
  <2>. QED BY <2>1, <2>2, <2>3
<1>10. ASSUME NEW files \in Seq(Content), NEW y \in Content, Added(p, files, n - 1), Origin(y) = Source(p, n)
       PROVE  Added(p, Append(files, y), n)
  <2>1. n - 1 \in Nat /\ (n - 1) + 1 = n
    BY SMT, <1>3
  <2>. QED BY <1>10, <2>1, AddedAppend
<1>11. \A k : Source(p, k)' = Source(p, k)
  BY <1>1 DEF Source
<1>12. CASE call = "compile"
  <2>1. symfile' = symfile /\ archive' = [archive EXCEPT ![p][Own] = Append(@, x("goobj"))]
    <3>1. PkgOf(call) = Own
      BY <1>12 DEF PkgOf
    <3>. QED BY <1>5, <1>12, <3>1 DEF HookStep
  <2>2. archive'[p][Own] = Append(archive[p][Own], x("goobj")) /\ archive'[p]["dep"] = archive[p]["dep"]
    BY <1>6, <2>1 DEF Pkgs
  <2>3. Added(p, archive'[p][Own], n)
    BY <1>5, <1>6, <1>7, <1>9, <1>10, <1>12, <2>2
  <2>4. Added(p, archive[p][Own], Count(p, "compile"))'
    BY <1>9, <1>11, <1>12, <2>3 DEF Added
  <2>5. Added(p, symfile[p][Own], Count(p, "gensymabis"))'
    BY <1>7, <1>8, <1>11, <1>12, <2>1 DEF Added
  <2>. QED BY <1>4, <1>7, <2>1, <2>2, <2>4, <2>5 DEF FilesAdded
<1>13. CASE call = "gensymabis"
  <2>1. archive' = archive /\ symfile' = [symfile EXCEPT ![p][Own] = Append(@, x("symabis"))]
    <3>1. PkgOf(call) = Own /\ ToolOf(call) # "compile"
      BY <1>13 DEF PkgOf, ToolOf
    <3>. QED BY <1>5, <1>13, <3>1 DEF HookStep
  <2>2. symfile'[p][Own] = Append(symfile[p][Own], x("symabis")) /\ symfile'[p]["dep"] = symfile[p]["dep"]
    BY <1>6, <2>1 DEF Pkgs
  <2>3. Added(p, symfile'[p][Own], n)
    BY <1>5, <1>6, <1>7, <1>9, <1>10, <1>13, <2>2
  <2>4. Added(p, symfile[p][Own], Count(p, "gensymabis"))'
    BY <1>9, <1>11, <1>13, <2>3 DEF Added
  <2>5. Added(p, archive[p][Own], Count(p, "compile"))'
    BY <1>7, <1>8, <1>11, <1>13, <2>1 DEF Added
  <2>. QED BY <1>4, <1>7, <2>1, <2>2, <2>4, <2>5 DEF FilesAdded
<1>. QED BY <1>2, <1>12, <1>13

\* The hook has added every file: the call is done.
LEMMA LinkHookEnds ==
  ASSUME TypeOK, NEW p \in Procs, CallsOrdered(p), FilesAdded(p), HookStep(p),
         busy[p] = "asm" \/ ~(nextObj[p] <= Len(cfg[p].units))
  PROVE  CallsOrdered(p)' /\ FilesAdded(p)'
<1>. DEFINE call == busy[p]
            n == nextObj[p]
<1>1. /\ state[p] = "go build" /\ call # "none" /\ Links(p)
      /\ UNCHANGED <<cfg, state, read, archive, symfile>>
      /\ busy' = [busy EXCEPT ![p] = "none"] /\ done' = [done EXCEPT ![p] = @ \cup {call}]
  BY DEF HookStep, At, Links
<1>2. /\ busy \in [Procs -> Calls \cup {"none"}] /\ done \in [Procs -> SUBSET Calls] /\ "none" \notin Calls
      /\ n \in Nat \ {0} /\ Len(cfg[p].units) \in Nat
  <2>1. cfg[p] \in Configs /\ nextObj[p] \in Nat \ {0}
    BY DEF TypeOK
  <2>. QED BY <2>1, UnitsTyped DEF TypeOK, Calls
<1>3. busy'[p] = "none" /\ done'[p] = done[p] \cup {call} /\ "none" \notin done'[p]
  BY <1>1, <1>2
<1>4. /\ call \in {"gensymabis", "compile", "asm"} /\ call \notin done[p]
      /\ \A c \in done[p] \cup {call} : Needs(c) \subseteq done[p]
      /\ call \in {"gensymabis", "compile"} => n <= Len(cfg[p].units) + 1
  BY <1>1 DEF CallsOrdered
<1>5. CallsOrdered(p)'
  <2>1. \A c \in done'[p] \cup {busy'[p]} : Needs(c) \subseteq done'[p]
    BY <1>3, <1>4, NeedsOf
  <2>. QED BY <1>1, <1>3, <2>1 DEF CallsOrdered
<1>6. ASSUME NEW c \in {"compile", "gensymabis"} PROVE Count(p, c)' = Count(p, c)
  <2>1. CASE c = call
    <3>1. Count(p, c)' = Len(cfg[p].units)
      BY <1>1, <1>3, <2>1 DEF Count
    <3>2. Count(p, c) = n - 1
      BY <1>4, <2>1 DEF Count
    <3>3. n - 1 = Len(cfg[p].units)
      <4>1. n <= Len(cfg[p].units) + 1 /\ ~(n <= Len(cfg[p].units))
        BY <1>4, <1>6, <2>1
      <4>. QED BY SMT, <1>2, <4>1
    <3>. QED BY <3>1, <3>2, <3>3
  <2>2. CASE c # call
    BY <1>1, <1>3, <1>6, <2>2 DEF Count
  <2>. QED BY <2>1, <2>2
<1>7. FilesAdded(p)'
  BY <1>1, <1>6 DEF FilesAdded, Added, Source
<1>. QED BY <1>5, <1>7

LinkInv(p) == Bare(p) /\ CallsOrdered(p) /\ FilesAdded(p)

\* Every step keeps LinkInv.
LEMMA LinkStep ==
  ASSUME WorkInv, \A p \in Procs : DiskFresh(p) /\ LinkInv(p), [Next]_vars
  PROVE  \A p \in Procs : LinkInv(p)'
<1>0. TypeOK /\ state \in [Procs -> Stages] /\ read \in [Procs -> Seq(Nat)]
  BY DEF TypeOK, WorkInv
<1>1. ASSUME NEW p \in Procs, cfg' = cfg, read'[p] = read[p] \/ state'[p] \in Working,
             busy'[p] = busy[p], done'[p] = done[p], nextObj'[p] = nextObj[p], archive'[p] = archive[p],
             symfile'[p] = symfile[p],
             \/ state'[p] = state[p]
             \/ state[p] \in Working /\ state'[p] \in Working
             \/ state'[p] \in {"failed", "killed"}
      PROVE  LinkInv(p)'
  BY <1>1, LinkKept DEF LinkInv
<1>2. ASSUME NEW p \in Procs, Act(p), NEW q \in Procs, q # p PROVE LinkInv(q)'
  <2>1. /\ cfg' = cfg /\ read'[q] = read[q] /\ state'[q] = state[q] /\ busy'[q] = busy[q] /\ done'[q] = done[q]
        /\ nextObj'[q] = nextObj[q] /\ archive'[q] = archive[q] /\ symfile'[q] = symfile[q]
    BY SMT, <1>0, <1>2, OtherProcs DEF Same
  <2>. QED BY <1>1, <2>1
<1>3. ASSUME NEW p \in Procs, Start(p) \/ WriteMarker(p) \/ Begin(p) \/ Open(p) PROVE LinkInv(p)'
  <2>1. state[p] \in {"idle", "marker", "build", "open"} /\ state'[p] \in {"marker", "build", "pass", "lookup"}
    BY <1>0, <1>3 DEF Start, WriteMarker, Begin, Open, Go, At
  <2>2. UNCHANGED <<cfg, read, busy, done, nextObj, archive, symfile>>
    BY <1>3 DEF Start, WriteMarker, Begin, Open, own, linking
  <2>3. state[p] \in Working /\ state'[p] \in Working
    BY <2>1 DEF Working, Stages, Idle
  <2>. QED BY <1>1, <2>2, <2>3
<1>4. ASSUME NEW p \in Procs, RunPass(p) PROVE LinkInv(p)'
  <2>1. state[p] = "pass" /\ state'[p] \in {"pass", "open"} /\ UNCHANGED <<cfg, busy, done, nextObj, archive, symfile>>
    BY <1>0, <1>4 DEF RunPass, Go, At, linking
  <2>2. state[p] \in Working /\ state'[p] \in Working
    BY <2>1 DEF Working, Stages
  <2>. QED BY <1>1, <2>1, <2>2
<1>5. ASSUME NEW p \in Procs, Lookup(p) \/ HeaderTemp(p) \/ HeaderFill(p) \/ HeaderRename(p) \/ CheckMagic(p)
      PROVE  LinkInv(p)'
  <2>1. state[p] \in {"lookup", "hopen", "hfill", "hmove", "magic"} /\ state'[p] \in {"goobj", "hopen", "hfill", "hmove", "gocobj"}
    BY <1>0, <1>5 DEF Lookup, HeaderTemp, HeaderFill, HeaderRename, CheckMagic, Go, At
  <2>2. UNCHANGED <<cfg, read, busy, done, nextObj, archive, symfile>>
    BY <1>5 DEF Lookup, HeaderTemp, HeaderFill, HeaderRename, CheckMagic, own, linking
  <2>3. state[p] \in Working /\ state'[p] \in Working
    BY <2>1 DEF Working, Stages, Kinds
  <2>. QED BY <1>1, <2>2, <2>3
<1>6. ASSUME NEW p \in Procs, Truncate(p) \/ Fill(p) PROVE LinkInv(p)'
  <2>1. state[p] \in Kinds /\ (state'[p] = state[p] \/ state'[p] \in {"symabis", "magic", "gocobj", "ll", "next"})
    BY <1>0, <1>6 DEF Truncate, Fill, Go, After, Kinds
  <2>2. UNCHANGED <<cfg, read, busy, done, nextObj, archive, symfile>>
    BY <1>6 DEF Truncate, Fill, linking
  <2>3. state[p] \in Working /\ state'[p] \in Working
    BY <2>1 DEF Working, Stages, Kinds
  <2>. QED BY <1>1, <2>2, <2>3
<1>7. ASSUME NEW p \in Procs, NextUnit(p) \/ Toolexec(p) PROVE LinkInv(p)'
  BY <1>0, <1>7, LinkNextUnit, LinkToolexec DEF LinkInv
<1>8. ASSUME NEW p \in Procs, HookStep(p) PROVE LinkInv(p)'
  <2>1. state'[p] = "go build"
    BY <1>8 DEF HookStep, At
  <2>2. Bare(p)'
    BY <2>1 DEF Bare, Working
  <2>3. Progress(p)
    BY DEF WorkInv
  <2>. QED BY <1>0, <1>8, <2>2, <2>3, LinkHookAdds, LinkHookEnds DEF LinkInv
<1>9. ASSUME NEW p \in Procs, Refuse(p) \/ Fail(p) \/ Kill(p) PROVE LinkInv(p)'
  <2>1. state'[p] \in {"failed", "killed"} /\ UNCHANGED <<cfg, read, busy, done, nextObj, archive, symfile>>
    BY <1>0, <1>9 DEF Refuse, Fail, Kill, Failed, Go, own, linking
  <2>. QED BY <1>1, <2>1
<1>10. ASSUME NEW p \in Procs, Act(p) PROVE \A q \in Procs : LinkInv(q)'
  BY <1>2, <1>3, <1>4, <1>5, <1>6, <1>7, <1>8, <1>9, <1>10 DEF Act, Step
<1>11. ASSUME UNCHANGED <<state, cfg, read, busy, done, nextObj, archive, symfile>> PROVE \A p \in Procs : LinkInv(p)'
  BY <1>1, <1>11
<1>. QED BY <1>10, <1>11 DEF Next, Act, Edit, vars, own, linking

\* What the executable rests on: the objects, the object directory and the link.
BuildInv == ObjectInv /\ \A p \in Procs : DiskFresh(p) /\ LinkInv(p)

\* BuildInv is inductive.
LEMMA BuildInductive == (Init => BuildInv) /\ (BuildInv /\ [Next]_vars => BuildInv')
<1>1. ASSUME Init PROVE BuildInv
  <2>1. ASSUME NEW p \in Procs PROVE DiskFresh(p) /\ LinkInv(p)
    <3>1. /\ state[p] = "idle" /\ busy[p] = "none"
          /\ \A g \in Pkgs : archive[p][g] = <<>> /\ symfile[p][g] = <<>>
      BY <1>1 DEF Init
    <3>. QED BY <3>1 DEF DiskFresh, Active, Idle, LinkInv, Bare, CallsOrdered, FilesAdded, Links
  <2>. QED BY <1>1, <2>1, ObjectInductive DEF BuildInv
<1>2. ASSUME BuildInv, [Next]_vars PROVE BuildInv'
  BY <1>2, ObjectInductive, DiskFreshStep, LinkStep DEF BuildInv, ObjectInv
<1>. QED BY <1>1, <1>2

\* cmdGo and cmdToolexec: a `goc go` that succeeds links exactly the objects it compiled
\* itself, each once and in order, and adds nothing to another package, for any number of
\* processes, C files, edits and faults: stale objects and killed builds never show.
THEOREM BinaryAlwaysFresh == Spec => []BinaryFresh
<1>1. ASSUME BuildInv, NEW p \in Procs, state[p] = "ok", cfg[p].link
      PROVE  /\ Origins(archive[p][Own]) = Compiled(p) /\ Origins(symfile[p][Own]) = Compiled(p)
             /\ archive[p]["dep"] = <<>> /\ symfile[p]["dep"] = <<>>
  <2>1. TypeOK /\ CallsOrdered(p) /\ FilesAdded(p) /\ Links(p)
    BY <1>1 DEF BuildInv, ObjectInv, WorkInv, LinkInv, Links
  <2>2. "compile" \in done[p] /\ "gensymabis" \in done[p]
    BY <1>1, <2>1, NeedsOf DEF CallsOrdered
  <2>3. Count(p, "compile") = Len(cfg[p].units) /\ Count(p, "gensymabis") = Len(cfg[p].units)
    BY <2>2 DEF Count
  <2>4. archive[p][Own] \in Seq(Content) /\ symfile[p][Own] \in Seq(Content)
    BY SMTT(30), <2>1 DEF TypeOK, Pkgs, Own
  <2>5. ASSUME NEW files \in Seq(Content), Added(p, files, Len(cfg[p].units)) PROVE Origins(files) = Compiled(p)
    BY SMT, <2>5 DEF Added, Origins, Compiled, Source
  <2>. QED BY <2>1, <2>3, <2>4, <2>5 DEF FilesAdded
<1>2. BuildInv => BinaryFresh
  BY <1>1 DEF BinaryFresh, At, Pkgs, Own
<1>. QED BY <1>2, BuildInductive, PTL DEF Spec
==================================================================================
