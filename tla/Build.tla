---------------------------------- MODULE Build ----------------------------------
(* `goc go` and `goc build` on one package directory, as separate processes that  *)
(* share the sources, the object directory, a kept work directory, the Go object  *)
(* header cache and the Go build cache.  A process compiles its C files one after *)
(* another (internal/pipeline), converts each result (internal/convert), and then *)
(* runs `go build` with itself as the -toolexec hook (cmd/goc/toolexec.go).       *)
(*                                                                                *)
(* A file's content is its origin (C file, version of its text, process that      *)
(* compiled it) and the passes applied to it, in order.  A file being written is  *)
(* Torn between the truncation and the last byte; so is one whose writer was      *)
(* killed.  Files of the work directory are written by the tools in one step.     *)
EXTENDS Naturals, Sequences

CONSTANTS Procs,      \* the goc processes, each of which runs once
          Configs,    \* command lines: [units, link, arch, opt, report, renames, magic, keep, objdir]
          NUnits,     \* the C files of the directory are 1 .. NUnits
          MaxEdits,   \* edits of the sources while processes run
          MaxFaults   \* processes that fail for a reason of their own, or are killed

\* `goc build` compiles one C file; `goc go` those a glob finds in the directory, sorted,
\* and stops when there is none.  What marks files without a process is not one.
ASSUME ConfigAssumption ==
  /\ NUnits \in Nat
  /\ Configs \subseteq [units : Seq(1 .. NUnits), link : BOOLEAN, arch : {"amd64", "arm64"}, opt : 0 .. 3,
                        report : BOOLEAN, renames : BOOLEAN, magic : BOOLEAN, keep : BOOLEAN, objdir : STRING]
  /\ \A c \in Configs : /\ Len(c.units) > 0
                        /\ \A i, j \in DOMAIN c.units : c.units[i] = c.units[j] => i = j

ASSUME ProcAssumption == Procs \cap {"none", "torn", "kept"} = {}

VARIABLES src,      \* C file -> [ver, host]: its version, and does it contain amd64 host code
          work,     \* work directory -> file -> content
          disk,     \* <<object directory, C file, kind>> -> content
          marker,   \* arch -> the assembly file that lets Go accept bodyless declarations
          hcache,   \* arch -> the cached object header
          htmp,     \* process -> its temporary copy of that header
          gocache,  \* arch -> the package archive in the Go build cache
          archive,  \* process -> package -> C objects in its archive
          symfile,  \* process -> package -> C symabis in its symabis file
          faults,   \* such processes so far
          cfg,      \* process -> its command line
          state,    \* process -> what it does next
          unit,     \* process -> position in units of the C file it compiles
          step,     \* process -> position of the pass it runs
          opened,   \* process -> has it truncated the file it writes
          elf,      \* process -> the ELF object the converter loaded
          hdr,      \* process -> the object header line it uses
          read,     \* process -> the version of each C file that clang read
          done,     \* process -> the finished tool calls of its `go build`
          busy,     \* process -> the tool call the hook completes
          nextObj   \* process -> position in units of the file the hook adds next

dirs == <<work, disk, marker>>
headers == <<hcache, htmp>>
linking == <<gocache, archive, symfile>>
own == <<cfg, unit, step, opened, elf, hdr, read, done, busy, nextObj>>
vars == <<src, dirs, headers, linking, faults, own, state>>

NoFile == [u |-> 0, ver |-> 0, by |-> "none", log |-> <<>>]
Torn == [u |-> 0, ver |-> 0, by |-> "torn", log |-> <<>>]
Text(u, p) == [u |-> u, ver |-> src[u].ver, by |-> p, log |-> <<>>]
Origin(x) == <<x.u, x.ver, x.by>>

Kinds == {"goobj", "symabis", "gocobj", "ll"}
Archs == {"amd64", "arm64"}
Own == "own"
Pkgs == {Own, "dep"}

----------------------------------------------------------------------------------
(* The passes over one C file: tool, whether this command line runs it, the file  *)
(* it transforms, the other files it reads, and the files it writes.              *)

Pass(tool, run, in, more, out) == [tool |-> tool, run |-> run, in |-> in, more |-> more, out |-> out]
Reads(s) == {s.in} \cup s.more

\* Clang, then the IR passes up to the stack maps.
Frontend(c) ==
  LET coloured == IF c.report THEN "a.color.nodbg.ll" ELSE "a.color.ll" IN
  << Pass("clang", TRUE, "src", {}, {"a.ll"}),
     Pass("color", TRUE, "a.ll", {}, {"a.color.ll"}),
     Pass("strip", c.report, "a.color.ll", {}, {"a.color.nodbg.ll"}),
     Pass("gate", TRUE, coloured, {}, {"a.gate.ll"}),
     Pass("opt", c.opt # 0, "a.gate.ll", {}, {"a.opt.ll"}),
     Pass("stackmap", c.opt # 0, "a.opt.ll", {}, {"a.sm.ll"}),
     Pass("reanchor", c.opt # 0, "a.sm.ll", {}, {"a.reanchor.ll"}) >>

\* The IR the frontend returns, and whether goc-stackmap already ran on it.
Body(c) == IF c.opt = 0 THEN "a.gate.ll" ELSE "a.reanchor.ll"

\* A backend that does not look at prepared (a mutant of Prepared).
PreparedNever(c) == FALSE

Prepared(c) == c.opt # 0

\* A backend that lowers body.sm.ll whoever wrote it (a mutant of LlcInput).
LlcInputMapped(c) == "body.sm.ll"

LlcInput(c) == IF Prepared(c) THEN "body.ll" ELSE "body.sm.ll"

\* Lowering up to the ELF object: Go ABI thunks, goc-llc, llvm-mc.
Backend(c) ==
  << Pass("copy", TRUE, Body(c), {}, {"body.ll"}),
     Pass("fix-ir", TRUE, "body.ll", {}, {"body.ll"}),
     Pass("rename", c.renames, "body.ll", {}, {"body.ll"}),
     Pass("goabi", TRUE, "body.ll", {}, {"thunks.goc.s", "body.impl.ll", "thunks.s", "goabi.json"}),
     Pass("copy", TRUE, "body.impl.ll", {}, {"body.ll"}),
     Pass("stackmap", ~Prepared(c), "body.ll", {}, {"body.sm.ll"}),
     Pass("llc", TRUE, LlcInput(c), {"goabi.json"}, {"body.s", "body.goc.s"}),
     Pass("align", c.arch # "arm64", "body.s", {}, {"body.s"}),
     Pass("concat", TRUE, "body.s", {"thunks.s", "body.goc.s", "thunks.goc.s"}, {"body.thunks.s"}),
     Pass("mc", TRUE, "body.thunks.s", {}, {"body.llc.o"}) >>

Tables == [c \in Configs |-> [k \in 1 .. 17 |-> IF k <= 7 THEN Frontend(c)[k] ELSE Backend(c)[k - 7]]]
Passes(c) == Tables[c]

\* Pass j of command line c is the one after pass i; 18 is the end.
Follows(c, i, j) == /\ j > i
                    /\ j < 18 => Passes(c)[j].run
                    /\ \A k \in i + 1 .. j - 1 : ~Passes(c)[k].run

WorkFiles == {"a.ll", "a.color.ll", "a.color.nodbg.ll", "a.gate.ll", "a.opt.ll", "a.sm.ll",
              "a.reanchor.ll", "body.ll", "body.impl.ll", "thunks.s", "thunks.goc.s",
              "goabi.json", "body.sm.ll", "body.s", "body.goc.s", "body.thunks.s", "body.llc.o"}
Empty == [f \in WorkFiles |-> NoFile]

----------------------------------------------------------------------------------
(* Processes. *)

WorkDir(p) == IF cfg[p].keep THEN "kept" ELSE p
U(p) == cfg[p].units[unit[p]]
Path(p, u, kind) == <<cfg[p].objdir, u, kind>>
File(p, f) == IF f = "src" THEN Text(U(p), p) ELSE work[WorkDir(p)][f]

Idle == {"idle", "ok", "failed", "killed"}
Active(p) == state[p] \notin Idle
At(p, s) == state[p] = s
Go(p, s) == state' = [state EXCEPT ![p] = s]

\* Two command lines write the same object directory or the same kept work directory.
Shares(c, d) == c.objdir = d.objdir \/ (c.keep /\ d.keep)

\* os.RemoveAll of the temporary work directory, deferred until Build returns.
WorkGone(p) == work' = [work EXCEPT ![p] = Empty]

Init ==
  /\ src = [u \in 1 .. NUnits |-> [ver |-> 1, host |-> FALSE]]
  /\ work = [d \in Procs \cup {"kept"} |-> Empty]
  /\ disk = [f \in {c.objdir : c \in Configs} \X (1 .. NUnits) \X Kinds |-> NoFile]
  /\ marker = [a \in Archs |-> "none"]
  /\ hcache = [a \in Archs |-> "none"]
  /\ htmp = [p \in Procs |-> "none"]
  /\ gocache = [a \in Archs |-> <<>>]
  /\ archive = [p \in Procs |-> [g \in Pkgs |-> <<>>]]
  /\ symfile = [p \in Procs |-> [g \in Pkgs |-> <<>>]]
  /\ faults = 0
  /\ cfg \in [Procs -> Configs]
  /\ state = [p \in Procs |-> "idle"]
  /\ unit = [p \in Procs |-> 1]
  /\ step = [p \in Procs |-> 1]
  /\ opened = [p \in Procs |-> FALSE]
  /\ elf = [p \in Procs |-> NoFile]
  /\ hdr = [p \in Procs |-> "none"]
  /\ read = [p \in Procs |-> <<>>]
  /\ done = [p \in Procs |-> {}]
  /\ busy = [p \in Procs |-> "none"]
  /\ nextObj = [p \in Procs |-> 1]

\* cmdGo/goBuild up to the loop over the C files, or cmdBuild.  The code takes no lock on
\* its directories: that nobody starts a process on those of a running one is assumed.
Start(p) ==
  LET c == cfg[p] IN
  /\ At(p, "idle")
  /\ \A q \in Procs : Active(q) => ~Shares(c, cfg[q])
  /\ Go(p, IF c.link /\ marker[c.arch] = "none" THEN "marker" ELSE "build")
  /\ UNCHANGED <<src, dirs, headers, linking, faults, own>>

\* Go accepts a bodyless declaration only in a package with assembly: goBuild writes it.
WriteMarker(p) ==
  LET a == cfg[p].arch IN
  /\ At(p, "marker")
  /\ opened' = [opened EXCEPT ![p] = ~@]
  /\ \/ ~opened[p] /\ marker' = [marker EXCEPT ![a] = "torn"] /\ UNCHANGED state
     \/ opened[p] /\ marker' = [marker EXCEPT ![a] = "whole"] /\ Go(p, "build")
  /\ UNCHANGED <<src, work, disk, headers, linking, faults, cfg, unit, step, elf, hdr, read, done, busy, nextObj>>

\* builder.run up to the frontend: amd64 host code is refused for arm64, and the work
\* directory is made (a kept one still holds the files of the last build).
Begin(p) ==
  /\ At(p, "build")
  /\ ~(cfg[p].arch = "arm64" /\ src[U(p)].host)
  /\ Go(p, "pass") /\ step' = [step EXCEPT ![p] = 1]
  /\ UNCHANGED <<src, dirs, headers, linking, faults, cfg, unit, opened, elf, hdr, read, done, busy, nextObj>>

\* What a tool makes of its inputs; nothing usable when they do not belong together.
Made(p, s) ==
  LET ins == {File(p, f) : f \in Reads(s)} IN
  IF Torn \in ins \/ (\E x, y \in ins : Origin(x) # Origin(y)) THEN Torn
  ELSE [File(p, s.in) EXCEPT !.log = Append(@, s.tool)]

\* One pass: read the inputs, write the outputs.  clang's reading of the source is the
\* version the object will be of.
RunPass(p) ==
  LET s == Passes(cfg[p])[step[p]] IN
  /\ At(p, "pass")
  /\ \A f \in Reads(s) : File(p, f) # NoFile
  /\ work' = [work EXCEPT ![WorkDir(p)] = [f \in WorkFiles |-> IF f \in s.out THEN Made(p, s) ELSE @[f]]]
  /\ \E j \in 2 .. 18 : /\ Follows(cfg[p], step[p], j)
                        /\ step' = [step EXCEPT ![p] = j]
                        /\ Go(p, IF j = 18 THEN "open" ELSE "pass")
  /\ read' = IF s.tool = "clang" THEN [read EXCEPT ![p] = Append(@, src[U(p)].ver)] ELSE read
  /\ UNCHANGED <<src, disk, marker, headers, linking, faults, cfg, unit, opened, elf, hdr, done, busy, nextObj>>

----------------------------------------------------------------------------------
(* convert.Main: load the ELF object, get the header line, write the object, then  *)
(* its symabis; then the pipeline copies the ELF object and the IR beside it.      *)

Open(p) ==
  /\ At(p, "open")
  /\ File(p, "body.llc.o") \notin {NoFile, Torn}
  /\ elf' = [elf EXCEPT ![p] = File(p, "body.llc.o")] /\ Go(p, "lookup")
  /\ UNCHANGED <<src, dirs, headers, linking, faults, cfg, unit, step, opened, hdr, read, done, busy, nextObj>>

\* objectHeader: a cached line is used if it starts with "go object ", which a torn
\* one may or may not do.
Lookup(p) ==
  LET h == hcache[cfg[p].arch] IN
  /\ At(p, "lookup")
  /\ \/ h # "none" /\ hdr' = [hdr EXCEPT ![p] = h] /\ Go(p, "goobj")
     \/ h \in {"none", "torn"} /\ hdr' = [hdr EXCEPT ![p] = cfg[p].arch] /\ Go(p, "hopen")
  /\ UNCHANGED <<src, dirs, headers, linking, faults, cfg, unit, step, opened, elf, read, done, busy, nextObj>>

\* The header line written to the cache file itself (a mutant of HeaderTemp).
HeaderTempInPlace(p) ==
  /\ At(p, "hopen")
  /\ hcache' = [hcache EXCEPT ![cfg[p].arch] = "torn"] /\ Go(p, "hfill")
  /\ UNCHANGED <<src, dirs, htmp, linking, faults, own>>

\* The line `go tool asm` wrote goes to a file named after the process.
HeaderTemp(p) ==
  /\ At(p, "hopen")
  /\ \/ htmp' = [htmp EXCEPT ![p] = "torn"] /\ Go(p, "hfill")
     \/ htmp' = htmp /\ Go(p, "goobj")          \* no cache directory: not cached
  /\ UNCHANGED <<src, dirs, hcache, linking, faults, own>>

HeaderFill(p) ==
  /\ At(p, "hfill") /\ htmp' = [htmp EXCEPT ![p] = hdr[p]] /\ Go(p, "hmove")
  /\ UNCHANGED <<src, dirs, hcache, linking, faults, own>>

HeaderRename(p) ==
  /\ At(p, "hmove")
  /\ hcache' = [hcache EXCEPT ![cfg[p].arch] = htmp[p]]
  /\ htmp' = [htmp EXCEPT ![p] = "none"]
  /\ Go(p, "goobj")
  /\ UNCHANGED <<src, dirs, linking, faults, own>>

\* The order of the files beside the object, and what each holds.
After(p, kind) == CASE kind = "goobj" -> "symabis"
                    [] kind = "symabis" -> IF cfg[p].magic THEN "magic" ELSE "gocobj"
                    [] kind = "gocobj" -> "ll"
                    [] kind = "ll" -> "next"
Published(p, kind) == CASE kind \in {"goobj", "symabis"} -> [elf[p] EXCEPT !.log = Append(@, "convert")]
                        [] kind = "gocobj" -> File(p, "body.llc.o")
                        [] kind = "ll" -> File(p, LlcInput(cfg[p]))

\* os.Create or os.WriteFile: truncate, then fill.
Truncate(p) ==
  /\ state[p] \in Kinds /\ ~opened[p]
  /\ disk' = [disk EXCEPT ![Path(p, U(p), state[p])] = Torn]
  /\ opened' = [opened EXCEPT ![p] = TRUE]
  /\ UNCHANGED <<src, work, marker, headers, linking, faults, cfg, unit, step, elf, hdr, read, done, busy, nextObj, state>>

Fill(p) ==
  LET kind == state[p] IN
  /\ kind \in Kinds /\ opened[p]
  /\ disk' = [disk EXCEPT ![Path(p, U(p), kind)] = Published(p, kind)]
  /\ opened' = [opened EXCEPT ![p] = FALSE] /\ Go(p, After(p, kind))
  /\ UNCHANGED <<src, work, marker, headers, linking, faults, cfg, unit, step, elf, hdr, read, done, busy, nextObj>>

\* ObjectHasMagic reads the object back.
CheckMagic(p) ==
  /\ At(p, "magic") /\ disk[Path(p, U(p), "goobj")] # Torn /\ Go(p, "gocobj")
  /\ UNCHANGED <<src, dirs, headers, linking, faults, own>>

----------------------------------------------------------------------------------
(* go build -a -toolexec. *)

\* The tool calls of `go build`: another package's compiler, and this package's.
Calls == {"dep compile", "gensymabis", "compile", "asm", "link"}
ToolOf(call) == CASE call \in {"dep compile", "compile"} -> "compile"
                  [] call \in {"gensymabis", "asm"} -> "asm"
                  [] call = "link" -> "link"
PkgOf(call) == IF call = "dep compile" THEN "dep" ELSE Own
Needs(call) == CASE call = "compile" -> {"dep compile", "gensymabis"}
                 [] call = "asm" -> {"compile"}
                 [] call = "link" -> {"asm"}
                 [] OTHER -> {}

\* The hook without its comparison of -p (a mutant of Hooked).
HookedAny(call) == ToolOf(call) \in {"asm", "compile"}

\* The calls the hook completes; it execs every other one.
Hooked(call) == ToolOf(call) \in {"asm", "compile"} /\ PkgOf(call) = Own

\* The calls `go build` skips because its cache has their result: none, for -a.
Skipped(p) == {}

\* The loop over the C files goes on, or ends: goc build is done, goc go runs go build.
NextUnit(p) ==
  LET more == unit[p] < Len(cfg[p].units) IN
  /\ At(p, "next")
  /\ WorkGone(p)
  /\ unit' = IF more THEN [unit EXCEPT ![p] = @ + 1] ELSE unit
  /\ elf' = [elf EXCEPT ![p] = NoFile]
  /\ Go(p, IF more THEN "build" ELSE IF cfg[p].link THEN "go build" ELSE "ok")
  /\ done' = [done EXCEPT ![p] = Skipped(p)]
  /\ archive' = IF more \/ Skipped(p) = {} THEN archive
                ELSE [archive EXCEPT ![p][Own] = gocache[cfg[p].arch]]
  /\ UNCHANGED <<src, disk, marker, headers, gocache, symfile, faults, cfg, step, opened, hdr, read, busy, nextObj>>

\* go build calls a tool through cmdToolexec.  The assembler needs a whole marker file.
Toolexec(p) ==
  /\ At(p, "go build") /\ busy[p] = "none"
  /\ \E call \in Calls \ done[p] :
       /\ Needs(call) \subseteq done[p]
       /\ (ToolOf(call) = "asm" => marker[cfg[p].arch] = "whole")
       /\ IF Hooked(call) THEN /\ busy' = [busy EXCEPT ![p] = call] /\ nextObj' = [nextObj EXCEPT ![p] = 1]
                               /\ UNCHANGED <<done, state>>
          ELSE /\ done' = [done EXCEPT ![p] = @ \cup {call}]
               /\ Go(p, IF call = "link" THEN "ok" ELSE state[p])
               /\ UNCHANGED <<busy, nextObj>>
  /\ UNCHANGED <<src, dirs, headers, linking, faults, cfg, unit, step, opened, elf, hdr, read>>

\* appendSymabis and packObjects: file after file; one that cannot be read is skipped.
HookStep(p) ==
  LET call == busy[p]
      u == cfg[p].units[nextObj[p]]
      more == call # "asm" /\ nextObj[p] <= Len(cfg[p].units)
      put(files, kind) ==
        LET x == disk[Path(p, u, kind)] IN
        IF x = NoFile THEN files ELSE [files EXCEPT ![p][PkgOf(call)] = Append(@, x)] IN
  /\ At(p, "go build") /\ call # "none"
  /\ \/ /\ more /\ call = "gensymabis" /\ symfile' = put(symfile, "symabis")
        /\ UNCHANGED <<archive, gocache>>
     \/ /\ more /\ ToolOf(call) = "compile" /\ archive' = put(archive, "goobj")
        /\ UNCHANGED <<symfile, gocache>>
     \/ /\ ~more
        /\ gocache' = IF call = "asm" THEN [gocache EXCEPT ![cfg[p].arch] = archive[p][Own]] ELSE gocache
        /\ UNCHANGED <<symfile, archive>>
  /\ IF more THEN nextObj' = [nextObj EXCEPT ![p] = @ + 1] /\ UNCHANGED <<busy, done>>
     ELSE /\ busy' = [busy EXCEPT ![p] = "none"] /\ done' = [done EXCEPT ![p] = @ \cup {call}]
          /\ UNCHANGED nextObj
  /\ UNCHANGED <<src, dirs, headers, faults, cfg, state, unit, step, opened, elf, hdr, read>>

----------------------------------------------------------------------------------
(* Faults and the environment. *)

\* A step that fails ends the process: every caller returns the error at once, and the
\* deferred removal of the temporary directory runs.
Failed(p) ==
  /\ Go(p, "failed") /\ WorkGone(p)
  /\ UNCHANGED <<src, disk, marker, headers, linking, own>>

\* Refused input: amd64 host code for arm64, or a marker file the assembler cannot read.
Refuse(p) ==
  /\ \/ At(p, "build") /\ cfg[p].arch = "arm64" /\ src[U(p)].host
     \/ At(p, "go build") /\ marker[cfg[p].arch] = "torn" /\ busy[p] = "none"
  /\ Failed(p) /\ UNCHANGED faults

\* Any tool, file operation or check of the pipeline, the converter or the hook can fail.
Fail(p) == Active(p) /\ faults < MaxFaults /\ faults' = faults + 1 /\ Failed(p)

\* A killed process leaves its files as they are.
Kill(p) ==
  /\ Active(p) /\ faults < MaxFaults /\ faults' = faults + 1 /\ Go(p, "killed")
  /\ UNCHANGED <<src, dirs, headers, linking, own>>

\* The programmer saves a C file, and puts amd64 host code in or takes it out.
Edit(u) ==
  /\ \A v \in 1 .. NUnits : src[v].ver <= MaxEdits
  /\ src' = [src EXCEPT ![u] = [ver |-> @.ver + 1, host |-> ~@.host]]
  /\ UNCHANGED <<dirs, headers, linking, faults, own, state>>

Step(p) == \/ Start(p) \/ WriteMarker(p) \/ Begin(p) \/ RunPass(p)
           \/ Open(p) \/ Lookup(p) \/ HeaderTemp(p) \/ HeaderFill(p) \/ HeaderRename(p)
           \/ Truncate(p) \/ Fill(p) \/ CheckMagic(p)
           \/ NextUnit(p) \/ Toolexec(p) \/ HookStep(p)
Next == (\E p \in Procs : Step(p) \/ Refuse(p) \/ Fail(p) \/ Kill(p)) \/ (\E u \in 1 .. NUnits : Edit(u))
Spec == Init /\ [][Next]_vars

----------------------------------------------------------------------------------
(* Properties. *)

\* What process p compiled: its C files in order, each in the version clang read.
Compiled(p) == [k \in 1 .. Len(cfg[p].units) |-> <<cfg[p].units[k], read[p][k], p>>]
Origins(files) == [k \in DOMAIN files |-> Origin(files[k])]

\* A `goc go` that succeeds links exactly the objects it compiled itself, each once,
\* declares exactly their symbols, and adds nothing to any other package's archive:
\* whatever an earlier process with other settings left in the object directory, the work
\* directory or the Go build cache, killed or failed at whatever point.
BinaryFresh ==
  \A p \in Procs : At(p, "ok") /\ cfg[p].link =>
    /\ Origins(archive[p][Own]) = Compiled(p) /\ Origins(symfile[p][Own]) = Compiled(p)
    /\ \A g \in Pkgs \ {Own} : archive[p][g] = <<>> /\ symfile[p][g] = <<>>

\* Every file a pass of the pipeline reads was made for the same C file by the same
\* process: no pass picks up a leftover of the C file before it, or of an earlier build,
\* in a kept work directory.
InputsFresh ==
  \A p \in Procs : At(p, "pass") =>
    \A f \in Reads(Passes(cfg[p])[step[p]]) :
      LET x == File(p, f) IN
      x.u = U(p) /\ x.by = p /\ (f # "src" => x.ver = read[p][Len(read[p])])

\* The stack maps of a log: one pass, with the rest on the right side of it.
OnceMapped(log) ==
  LET at(tools) == {i \in DOMAIN log : log[i] \in tools} IN
  \E m \in at({"stackmap"}) :
    /\ at({"stackmap"}) = {m}
    /\ \A i \in at({"clang", "color", "gate", "opt"}) : i < m
    /\ \A i \in at({"reanchor", "llc"}) : i > m
    /\ \A j \in at({"opt"}), i \in at({"color", "gate"}) : i < j

\* Stack maps are recorded exactly once on the code of every object, after the pass that
\* inlines and after the pointers were coloured and their accesses expanded, and before
\* goc-llc: at -O0 by the backend, otherwise by the frontend.
MapsOnce ==
  \A f \in DOMAIN disk : f[3] = "goobj" /\ disk[f] \notin {NoFile, Torn} => OnceMapped(disk[f].log)

\* The header line a process writes into its objects is always the whole line for its
\* architecture, although processes fill the cache side by side and may be killed while
\* they do, and although the reader only looks at how the line starts.
HeaderWhole == \A p \in Procs : hdr[p] \in {"none", cfg[p].arch}
==================================================================================
