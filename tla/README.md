# A TLA+ verification of goc

goc compiles a dialect of C to Go object files. The C code runs on goroutine
stacks, which the Go runtime grows, shrinks and copies. What has to be right is
therefore everything that makes C survive a moving stack: where addresses of
locals may be kept, which words the runtime adjusts, how much stack a function
may use before it asks for more, and what happens to values in registers at the
moment of a copy. Around that core are the object files that carry the tables
to the Go linker, the tools that drive the build, and a port of QuickJS with an
event loop of its own.

Contents: [parts](#the-parts-of-the-system), [modules](#modules-and-the-code-they-model),
[runs](#runs), [bounds](#bounds), [fairness](#fairness), [proofs](#proofs),
[findings](#where-code-and-documentation-disagree),
[not modelled](#what-is-not-modelled).

## The parts of the system

A C file goes through clang, `goc-color-escape` (which pointers may be stack
addresses), `goc-uptr-inline` (the encoding helpers and dynamic alloca),
optimisation, `goc-stackmap` and `goc-reanchor` (which frame words hold stack
addresses at each call), `internal/lower` (Go ABI thunks and stubs), `goc-llc`
(stack checks, frame address repair, tables), `convert` (Go objects), and
`go build -toolexec`. At run time the parts meet in one event, the stack copy:

| part | state | operations | source |
|---|---|---|---|
| colour inference | colours and provenance of IR values, encoded places | seed, propagate, encode, decode, fold, guard, check | `llvm/lib/Analysis/GocColor`, `Transforms/ColorEscape` |
| uptr helpers | words outside the stack, the bounds of each stack | encode, decode, test | `Transforms/StackMap/SMUptrInline.cpp` |
| dynamic alloca | pool cursor or malloc chain, one scope variable per call | `goc_dynalloc`, `goc_dynrelease` | `SMUptrInline.cpp`, `ColorEscape/CECheck.cpp` |
| safepoints | liveness sets, root slots, reloads, STACKMAP records | worklist step, rewrite, placement | `Analysis/StackMap`, `Transforms/StackMap`, `CodeGen/GocStackmapPlacement.cpp` |
| stack check | SP, stackguard0, frame sizes | check, cold block, growth, preemption | `CodeGen/GocStackCheck.cpp`, `Target/*/Goc*StackCheck.cpp` |
| morestack map | saved argument registers, pointer bitmap | save, copy, restore | `Object/GocObjTables*.cpp` |
| thunks and stubs | registers, outgoing area, SP and pointer tables | the emitted instructions | `internal/lower` |
| CLI event loop | timers, workers, message queues, handlers, jobs | the `qjs:os` API, dispatch, wait, cleanup | `ports/quickjs/host/cli_worker*`, `cli/main.go` |
| shared buffers | reference counts, owners | alloc, dup, free, post, stop | `ports/quickjs/host/cli_worker.c` |
| frame address repair | what each register and spill slot holds | transfer, join, repair after calls | `Target/X86/GocX86FrameAddr*` |
| child processes | descriptors, the table of children, FILE objects | exec, popen, waitpid, close, finalizers | `ports/quickjs/cli/std_os.go`, `host/cli_os.inc`, `cli_std_file.inc` |
| object container | tables as records of numbers and string references | write, parse, verify | `internal/gocobj` |
| conversion | ELF symbols and relocations, Go symbols, GOT slots, stubs | resolve names and addresses, emit data, text, tables | `internal/convert` |
| Go objects | symbol table, numbering, blocks | link, flush, write, read, diff | `internal/goobj` |
| driver | work directory, object directory, caches, archives | passes, publishing, go build and its hook | `cmd/goc`, `internal/pipeline` |

What is hard here is seldom one function. An address can become stale between
two calls on a path nobody tested; an encoding can be missed because a value
took a detour through a variable; a table can describe a frame that a later
instruction changed; several runtimes share one loop and free each other's
objects; a name made up in one translation unit must be the one another unit
makes up; a build finds what an interrupted build left. `PROJECT.json` lists
these hazards with the line where each bites and the property that would catch
it.

## Modules and the code they model

`map` in `PROJECT.json` gives the lines of every definition. Operators and
actions carry the names of the functions they translate where TLA+ allows it.

**GocUptr.** A stack address stored outside the stack is kept relative to
`g.stack.hi`. `heap` holds words the runtime does not see, `frame` words it
adjusts, `stack` the bounds of each goroutine's stack. The helpers are operators
on words of `2 * Msb` values; the actions are the uses the compiler makes of
them (encode on store, decode on load, the checked conversions) and
`CopyStack`, which moves a stack, its objects and the marked words. History
variables say which object a word was meant to name.

**AllocaScope, AllocaConst, AllocaPool, AllocaHeap.** `AllocaScope` is what alloca promises:
storage of the asked size that overlaps nothing live and lasts until the
function returns, or the end of the process. `AllocaConst` has the constants of
the pool and what is assumed of them. `AllocaPool`
(`--fast-stack-alloca`) is a cursor with watermarks, `AllocaHeap` one malloc
block per request, chained through headers; sizes wrap at `WordSize`. Each is
checked, and the pool also proved, to implement `AllocaScope`. For the heap
lowering one request is excepted, `WordSize - 16` (2^64 - 16 bytes): it passes
the overflow guard and its block size wraps to 0 (`HeapAssumption`).

**StackCheck.** The entry of C functions: the three tiers of the check
(small, big, huge frames) with the machine's wrap-around, nosplit leaves, the
cold block, growth as the runtime computes it from the SP table, shrinking, and
a preemption request at any moment. The frame of a thunk is any of
`ThunkFrames`: the code gives it the outgoing arguments of the signature and no
limit. What limits it is the Go linker, which refuses a chain of nosplit
functions over the budget (`Linked`, external) and does not count cold blocks.
Positions are distances below the high end
of the stack, which a copy preserves; addresses appear where the code computes
with them.

**StubArgs.** The argument registers of one entry through the cold block, for
every signature up to a length, on both machines: saved below varp, adjusted by
the runtime where the morestack map has a bit, restored. A word is "stack",
"moved" or "other"; integers that look like addresses must not move.

**SafepointProgram, SafepointReload.** The function that is compiled (blocks,
operations, where the address is defined), and what happens to it. One stack address of one function: `CrossCallLiveness` as
a worklist, one block per step; the rewrite of `goc-stackmap`, `goc-reanchor`
or rematerialisation; the placement of STACKMAP records on calls in layout
order; then the rewritten function runs along any path, any call moving the
stack. The function is a value of the variable `prog`.

**ColorEscape.** The colour pass on one function of assignments, compiled the
way clang does without optimisation: inference round by round, then
encode/decode until nothing changes, folding, the return guard and the escape
errors. What is accepted is executed on words that are raw or encoded.

**FrameAddrFix.** The last machine pass on x86-64, which repairs frame addresses
that callee-saved registers and spill slots carry across a call. Each step is
one machine instruction on the values and, beside it, its transfer function on
the abstract state, so a behaviour is a path through some function together
with what the analysis knows on it; `Merge` joins the state with another path's.
A loop goes back to an address (`back`) and executes what stands there again:
`site` has the instruction and the state of its first execution, with which the
state is joined, and copies it makes are put in the group named by its address
once more, as the code does. `gaps` is a history variable: which of two situations
the pass does not handle a behaviour has met (see the properties and below).
`Call` moves the stack, adjusts roots as the copier does, and runs the inserted
reloads, re-derivations and rebases. A value carries its meaning (`o`, an offset
in the frame or a number) and by how much its bits miss it (`lag`). Taken from
the passes before: a stack address this function did not compute is live across
a call only as a root or a register copying one; programs do not add two stack
addresses.

**ParallelMove, GoAbi, Thunk, GoExtern.** `GoAbi` assigns parameters and
results in Go's and C's conventions. `ParallelMove` is the algorithm of
`parallelGPR` and its three copies. `Thunk` executes a Go-to-C thunk
instruction by instruction on amd64 or arm64, using `ParallelMove` for its
register moves, and states what its tables say at each instruction;
`GoExtern` does the same for the C-to-Go stub.

**CliWorker, CliSab.** The event loop of the QuickJS command line. JavaScript
is the environment: callbacks make a bounded number of API calls, return or
throw. Dispatch order, deadlines, jobs, worker start and stop, failure and the
deferred cleanup follow the code. A list is a sequence in the order of the code's
list; which timer fires and until when the loop waits are stated as what the
code's scans find (`Selected`, `Earliest`). `CliSab` is the life of shared array buffers
that messages carry between runtimes.

**CliProcess.** `os.exec`, `os.waitpid`, `std.popen` and the close of a FILE.
The script and its workers are one goroutine, which is blocked while it waits
(`pc`); each child has a goroutine that calls `cmd.Wait`; the collector finalizes
the wrapped descriptors of a child once nothing reaches it. `fds` is the table
of open descriptors, `byPID` the map of `std_os.go`; the system may give the
number of a child that was waited for to a new one.

**GocObj, GocVerify, GocLower.** The object container. `Sections` writes the
tables record by record with interned strings, `Parse` reads them, `Verify` is
the checker; a variable-length integer is one element of a sequence and a bitmap
its set, so a record that is read at the wrong offset or a reference to the
wrong string shows, and the encoding of one integer does not. `GocLower` is what
comes before: which functions get a thunk and how names change (`runGoABI`), the
ABI of C symbols, and, external, the ELF object that goc-llc and llvm-mc make of
a small C unit.

**PcTab, Convert, Goobj.** The converter. One action per phase of
`converter.write` for each unit in turn: open and verify, data, text and stubs,
code and tables, the written object; an error ends the program. `Convert`
resolves names and section addresses, splits data over symbols, and translates
relocations of both machines; `PcTab` builds pc tables and stack maps and has the
runtime's lookup in them; `Goobj` is the link, the numbering of symbols, the
blocks of the object, its reader and the semantic diff. A program is two units
of a package and optionally a second version of them to compare with.

**Build.** `goc go` and `goc build` as processes that share the sources, the
object directory, a kept work directory, the header cache and Go's build cache.
The passes of a C file are a sequence with the files each reads and writes,
computed from the command line as `frontend` and `backend` do. A file's content
is its origin and the passes it went through; one that is being written is torn.
A process may fail or be killed between any two steps, and sources may be
edited. `go build` is external: it calls the tools in an order its dependencies
allow, each through `cmdToolexec`.

**MC modules.** A module named MC... gives constants their values. Most follow
one of several components per behaviour, chosen in the initial state, so that
one run answers for all of them; the component that is not followed does not
move. `MCMemory`: encoded words at run time, the colour pass on a function of
`ColorPrograms`, the pool, or the malloc chains. `MCFrames`: safepoints, or frame
address repair. `MCStack`: sizes, or argument registers. `MCThunk`: thunks of
two machines, stubs, or moves alone. `MCCli`: mixed programs, message programs,
buffers, or child processes. `MCToolchain`: conversions (the programs are in
`MCConvert`), or builds.

## Runs

| run | shows |
|---|---|
| memory | Words outside the stack and marked words in frames name their object through every interleaving of stores, loads and copies of two goroutines. Functions the colour pass accepts keep no raw stack address outside the stack and use no encoded word as an address. Both lowerings of alloca implement `AllocaScope`, at exhaustion and when sizes wrap, but for a heap request of exactly 2^64 - 16 bytes; chains partition the blocks and a release ends. |
| frames | No use reads a stale address, no map marks a slot that is unset or stale, liveness is exactly reachability of a use. After a call that moved the stack no live register or spill slot holds an old address, unless it is tainted, and no repair changes any other value; this on paths that meet neither of the pass's two gaps. |
| stack_check | Frames of all tiers fit, and cold blocks do below every thunk that leaves them room; a poisoned guard is never missed, one growth suffices; pointers in argument registers move with the stack and nothing else does. |
| thunk | Every move happens, as if all at once, and the loop ends; arguments and results arrive, callee-saved registers survive, tables match the frame at every instruction of thunks and stubs. |
| cli | The loop waits only when idle and never past a deadline, ends only when done, does not spin, delivers messages and timers in order, leaves nothing behind, and counts buffer references exactly. The status of a child is reported after its end and once, although process numbers come back; closing a pipe comes back. |
| toolchain | Every reference in the linked program reaches the byte C meant and Go's calls reach the C body (`RefsDenote`, `GoCallsReach`); the runtime reads from the object what the container's tables say (`TablesSurvive`); the diff is empty exactly when the back end wrote the same (`DiffExact`). A binary is made of exactly the objects its own process compiled (`BinaryFresh`), no pass reads a leftover (`InputsFresh`), stack maps are recorded once and in the right place (`MapsOnce`), and the cached header line is whole (`HeaderWhole`). |
| uptr_cross, stub_args_agg, cli_sab_owner, go_extern_maps, color_copies, cli_descriptors | One disagreement each, see below. |

Every property of a passing run comes with a mutant: a plausible bug in one
mapped definition under which the same run refutes the property.

## Bounds

* memory, encoded words: 5-bit words (`Msb = 16`), two goroutines, four places for a stack. The
  helpers compare, add and test one bit; five bits hold a C address below and
  above stacks, adjacent stacks and one that ends at `Msb`. The theorems hold
  for every width.
* memory, alloca: a pool of four units, three nested calls, requests around every
  rounding and wrap-around boundary of the pool; for the heap four blocks, and
  requests that fit, that are larger than any block and that the overflow guard
  refuses. 2^64 - 16, the boundary of that guard, is excepted (see below).
* stack_check: the real guard, small and big limits, frames on both sides of
  each limit and one larger than SP; thunk frames that are small, that leave a
  cold block just enough of the budget (544 bytes) and that leave it nothing
  (784), under Go frames that leave exactly the budget; five parameters for argument registers,
  in a frame smaller and larger than the save area.
* frames, safepoints: every graph of three blocks up to renaming, which has branches,
  joins, loops and a loop inside a branch, each block with the operations that
  interact (use after call, call with the address, soft safepoints before a
  call), also with a block that no path leads to. The theorems hold for every
  graph.
* memory, the colour pass: all functions of two assignments over eight kinds of place, three over
  the places encoded words move between, annotated variables, and default cptr.
  Two are enough for an escape, three for an encoded word moved to a second
  place and read there.
* frames, repair: one callee-saved and one scratch register, a spill slot, a root, a
  frame of four words and paths of four steps: an address is made, merged or
  spilled, carried over a call and read, and a loop executes an instruction
  again. On entry a callee-saved register holds its caller's value; behaviours
  about the repair itself start with a scratch register loaded. Both gaps are
  reached; without `gaps = {}` the property is false, within these bounds for
  "end" and on a path of seven steps for "group". The theorems hold for any number of
  registers, slots and steps.
* thunk: four registers, which have two disjoint cycles and a cycle with a
  tail; signatures that fill each bank to one below, at and past its last
  register, followed by mixed kinds.
* cli: two workers, four API calls of any kind; one worker and seven calls of
  messages; times up to 2 with delays 0 and 2. Four calls are enough for a
  worker that posts, a timer and a stop in between. The theorems hold for any
  number of workers, calls and delays. One buffer, two workers.
  Two children, two process numbers and seven descriptors: enough for a number
  to come back while a FILE still has it, and for both to be piped. (With three
  children the same properties hold.)
* toolchain, conversion: two units with up to three functions and three globals
  on both machines, chosen so that every relocation type of `relocmap.go` (loads
  of every width, absolute and 32-bit addresses, the three GOT loads, calls and
  tail calls), paired and split arm64 addresses, a jump table, statics of one name in
  two units, a libcall, a function without a thunk and an edited second version
  occur; what the programs do not combine does not interact in the code.
* toolchain, build: two processes, three command lines that differ in -O, machine,
  report, renames and directories, two C files, one edit and one fault. A leftover
  needs one process before and one after; that is two. Which of the two runs
  first is symmetric. The theorems hold for any number of each.

Bounds on depth, preemptions, operations, time and references (`MaxDepth`,
`MaxPreempt`, `MaxOps`, `MaxTime`, `MaxQueue`, `MaxRefs`, `MaxStarts`, `MaxFd`,
`MaxEdits`, `MaxFaults`) are constants that
appear in guards. Deadlock is not checked where a model ends: a process that
trapped, a function that returned, a program that is done.

## Fairness

* memory, `ReleaseEnds`: weak fairness of the loop of `goc_dynrelease`. It is
  inlined straight-line code of one goroutine.
* thunk, `MovesEnd`: weak fairness of the move loop, a loop in the compiler.
* cli, `LoopNeverSpins`: weak fairness of the loop's own steps (sequential
  code), of the return of a callback (the environment's functions end), and of
  `poll` once its timeout has expired. None is assumed of the clock, of
  messages, or of descriptors becoming ready.
* cli, `CloseReturns`: weak fairness of the steps that go on by themselves: a
  child that does not wait for an open pipe ends (the children a script waits for
  do), its goroutine takes the status, the blocked call returns. None is assumed
  of the script or of the collector.

All other properties are safety properties and need none.

## Proofs

The proofs are in the modules named ...Proofs, eight in all, and hold for every
value of the constants that the named assumptions admit. `theorems` in
`PROJECT.json` lists the results.

| module | about | main results |
|---|---|---|
| MemoryProofs | GocUptr, AllocaPool, ParallelMove | `HeapWordsSurviveCopies`, `FramesSurviveCopies`, `PoolImplementsScope`, `MovesAreSimultaneous` |
| StackProofs | SafepointReload, StackCheck | `UsesReadCurrentAddresses`, `RootsAreCurrent`, `LivenessAlwaysExact`, `BodiesFit`, `PreemptionIsSeen`, `OneGrowthIsEnough` |
| FrameAddrInstrProofs, FrameAddrFixProofs | FrameAddrFix | `FrameAddressesRepaired`, `CopiesAgree` |
| CliWorkerProofs | CliWorker | `MessagesAlwaysInOrder`, `TimersAlwaysInOrder`, `AlwaysWaitsWhenIdle`, `AlwaysExitsWhenDone`, `NothingEverLeft` |
| BuildProofs, BuildPassProofs, BuildLinkProofs | Build | `HeaderAlwaysWhole`, `PassesReadFresh`, `ObjectsMappedOnce`, `BinaryAlwaysFresh` |

**Encoded words**, from `ConstantsAssumption` (addresses of C objects and of
stacks lie below the tag bit, stacks do not overlap C objects). The properties
are not inductive: that a decoded word names its object needs the tag to say
whether it was stored from a stack address, and that references stay on their
goroutine and inside its stack. `UptrInv` adds both. Each helper has a lemma
that says what it returns for an address inside and outside the stack; a copy
changes `hi` and every stack address by the same amount, which leaves encoded
words valid.

**The alloca pool**, from `PoolAssumption` (sizes and base are multiples of
16, the pool does not wrap). `PoolInv` orders watermarks and storage by call
depth and puts everything below the cursor; from it follow disjointness,
alignment, that the corrupt-watermark trap is unreachable, that the pool is
empty when no call is in progress, and the refinement of `AllocaScope`.

**Moves**, from `ScratchAssumption`. `MoveInv`: every pending move still finds
its value at its source, every other register holds what it should. A cycle is
broken only when no move is ready; then every destination is a source, and
counting shows that the scratch register is none (`OnlyCyclesLeft`).

**Safepoints**, from `EntryAssumption` and, as part of the program's type, what
LLVM's verifier and dominator tree guarantee. `ReloadInv` has three layers: the
worklist has visited what it must (`LiveInv`), the rewrite placed saves, marks
and reloads accordingly (`RewriteInv`), and while the function runs a live
address is current in its register and in its slot (`RunInv`). That is enough
for uses. For the maps (`RootsCurrent`) it is not: a map marks a slot where a
*record* was published, which both passes also do where a use is dominated
without asking the worklist, and a record may be taken by a later call than the
one it was made for. `RecordLive` shows that where a record stands the address is
live after all, since a use it dominates can be reached from it. This fails for a
use in a block that no path leads to, which every block dominates; then every call that the definition dominates is recorded and
marked (`DeadUseMarks`), so the slot is rewritten at each. `RootInv` adds both
cases to the invariant, with the fact that the function only runs where a path
leads. The model's dominator tree is the exact one, unreachable blocks included.
That the worklist finds no more than it should (`LivenessExact`) needs one more
invariant, `Needed`: from every live block, whatever set of blocks paths do not
leave holds an exposed use. When the worklist is empty the blocks that are not
live are such a set, and they hold none.

**The stack check**, from `StackAssumption` and `PlacementAssumption` (stacks lie
above the first `StackBig` bytes and below the poison value; the nosplit budget of
800 bytes covers a cold block alone, and a nosplit leaf alone). Nothing is assumed
of thunk frames. `StackInv` says that every call in progress keeps the room its
kind needs on whatever stack it is moved to, because outer calls use less; a
thunk's room is what the linker's count gives it, relative to the Go function
below. The check itself is one lemma per tier, with the machine's wrap-around as a
case. `BodiesFit` has the cold block too: it follows from the budget below Go and
below checked functions, and below a thunk only where the thunk's frame and the
cold block together stay within the budget, which is what the property says.

**Frame address repair** (`FrameAddrInstrProofs`: the join, address arithmetic
and loads; `FrameAddrFixProofs`: moves, stores, joins, the repaired call, the
theorems), from `LocAssumption` and `InputAssumption` (registers, slots and frame
bases are distinct; inputs are no frame addresses of this function). That nothing live is stale is not inductive: the repair is right only
if the lattice describes the value (`AllDescribed`), a reload only if copies of a
slot and of each other still agree (`SlotCopies`, `GroupCopies`) and roots are
current. `Sound` is the conjunction; `FixInv` says it holds, with what was recorded
of the instructions executed (`SitesTyped`), as long as no gap was met. One lemma
per instruction. Most
instructions write one register and go through `WriteKeeps`; joins and RSP
writes only weaken what is known (`WeakenKeeps`, with `JoinSound` for the join);
for a call, `RepairKeepsValue` says the inserted code changes no value's meaning
and `RepairCurrent` that it brings every live one up to date.

**The event loop**, from `TimeAssumption` (the largest deadline is later than
any time reached; the main program is no worker). `LoopInv` has two halves.
`Sound` is about memory and holds at every step, JavaScript's included: a worker
has a runtime only after it was started and while it is listed, and without one
it has no port, no jobs and no timers (`Life`); a queue holds exactly the
messages posted and not yet received, and a worker without a runtime has empty
queues (`Mail`); what runs is a runtime that exists (`RunsAlive`). `Scheduled`
is about what the loop knows at each of its points: that the main program's jobs
are drained (`Drained`), that the workers it went past have nothing to run
(`Scanned`), and from these the properties themselves. JavaScript runs only at
points where the loop knows nothing, so its calls need to keep `Sound` only, and
the steps of the loop, which run no JavaScript, keep `Scheduled`. `NothingLeft`
rests on `Life`: the cleanup stops the workers that are listed, and a worker
that is not listed has nothing. TLC checked `LoopInv` on the programs of the
run cli before it was proved.

**Builds**, from `ConfigAssumption` (a command line names at least one C file
and none twice) and `ProcAssumption`, for any number of processes, command
lines, C files, edits, failures and kills. `HeaderInv`: a cached line is renamed
into place after it was filled. `WorkInv`: processes at work do not share a
directory (`Exclusive`), a process runs the passes of its own command line in
order (`Progress`), and each file it has written so far in this build comes from
the C file it compiles and has gone through the passes its name stands for
(`WorkFresh`, with `Phase` for inlined and mapped). A leftover of a killed build
may lie anywhere, and no pass is reached that reads one. `ObjectInv` carries this
through the converter, `DiskFresh` to the object directory, and `LinkInv` through
the calls of one `go build`: the archive holds the objects that the hook has added
so far, in order.

Only model-checked:

* what is true eventually (`ReleaseEnds`, `MovesEnd`, `LoopNeverSpins`,
  `CloseReturns`), which the prover has no rules for;
* what recursion computes: the colour pass, the chains of the heap
  lowering, the folds of the conversion, of argument maps, thunks and stubs. It
  needs induction over data;
* `CliSab` and `CliProcess`, which the run cli follows beside the event loop.

## Where code and documentation disagree

Checked by a run each:

* **uptr_cross.** `include/goc_uptr.h:8` says decoding on another goroutine is
  fatal. The helpers only test the tag, so the word decodes against the wrong
  stack. `docs/language.md` calls this a contract error, without a trap.
* **stub_args_agg.** On arm64 a pointer parameter after an aggregate is missing
  from the morestack map and stays behind when the stack moves.
* **cli_sab_owner.** The header of `cli_worker.c` says the synchronous schedule
  keeps all C state safe. A shared buffer made by a worker and still used by
  the main program is given back to the worker's runtime after that runtime was
  freed.
* **go_extern_maps.** The pointer bits of a C-to-Go stub's Go argument area are
  written as the stub's own arguments, which the runtime looks for in the
  caller's frame.
* **color_copies.** With `--default-ptr-color cptr`, the default of `goc go`,
  `p = &obj; q = p; G = q` leaves a raw stack address in a global. Only a store
  that names the stack object, or a borrowed formal, recolours the variable.
* **cli_descriptors.** `std_os.go:93` says the wrapper of a descriptor "must never
  close that descriptor". `runtime.SetFinalizer(file, nil)` clears the finalizer
  of the `*os.File`; `os.NewFile` registers the close on the file inside it. Once a
  child was waited for, or could not be started (the shortest trace), the
  collector may close descriptors 0, 1 and 2, or a
  number that is a pipe end in use. A later pipe that lands on 0, 1 or 2 is then
  taken for standard I/O and its end is never closed, which `CloseReturns`
  leaves out.

Met while modelling, stated here only:

* `*pp = &obj; x = *pp`: the encoded place is remembered as one load of `pp`,
  so the other load's result is not decoded (`CERewrite.cpp:52`, against
  `docs/language.md:92`, "goc 管理的 `T *` 读取会自动解码").
* A variable whose address is given away, or that is assigned through
  `*(c ? &p : &q)`, may point to the heap while `provenStackActual` only looks
  at direct stores to it; a store through it is then taken for a stack store.
* `enc(dec(w))` is folded to `w` also when `w` was read through
  `*(c ? &q : &G)` and may be a raw address of `q` (`CERewrite.cpp:441`).
* With default cptr, a static function with stack and heap callers keeps its
  formal a C pointer, and a stack address read back from a field of a stack
  object counts as one.
* `goc_uptr_from_sptr(NULL)` encodes `-hi`, which is not NULL after a move
  (`SMUptrInline.cpp:248`).
* A heap alloca of exactly 2^64 - 16 bytes passes the overflow guard and its
  block size wraps to 0 (`SMUptrInline.cpp:407`), so the header is written to a
  block without room for it. `HeapScopeSpec` excepts this request.
* The frame of a thunk has no limit of its own (`goabi.go:342`), and the linker's
  nosplit count has the thunk and not the cold block of the function it calls.
  A thunk whose frame takes most of the 800 bytes, some 70 stack arguments, can be
  linked and leaves the cold block less than the 232 bytes it pushes
  (`GocX86StackCheck.cpp:101`). `FrameFits` excepts the cold block below such a
  thunk; the run reaches it.
* A narrow integer copied from stack to stack in a C-to-Go stub pairs a narrow
  mnemonic with a 64-bit scratch register (`go_extern.go:263`); the assembler
  refuses it.
* A child whose number was given to a new child before it was waited for loses
  its entry; a FILE that closes then waits for the new one
  (`std_os.go:224`). `CloseReturns` leaves the case out.
* When a step after `convert` fails, the error says "no object emitted"
  (`pipeline.go:144`) and the object is there.
* A marker file that was cut short by a kill is found by the next build, which
  does not write it again (`gocmd.go:140`): the build fails until it is removed.
* Two units whose file names differ only in characters that `tuTag` replaces
  (`a-b.c`, `a_b.c`) give their statics the same Go names (`convert.go:61`).
* A parent interval that is always due is served before every message and every
  worker, which then never run (`cli_worker_loop.inc:305`).
* The header of `GocX86FrameAddrFix.cpp` (line 66) says that values based on a
  written RSP "become tainted"; `invalidateBase` makes them D1, which is
  repaired. `docs/design/codegen.md` names the option
  `-goc-frameaddr-taint=report`; the code has `quiet`, `warn` and `fatal`.
* A maybe-stack value that points one past the topmost incoming argument fails
  the range test of the repair and is not rebased (`GocX86FrameAddrFix.cpp:450`).
  This is the gap "end" of `NoStaleAddress`.
* A group of copies is named by the address of the instruction that made it,
  also when a loop executes it again while a copy of the first execution is
  still around (`GocX86FrameAddrLattice.cpp:169`): the old copy and the new one
  count as one group although they hold different values, and a repair reloads
  one from the other. This is the gap "group" of `NoStaleAddress`.

The colour half of the run **memory** is about the functions these exclude: no address-taken
variable is dereferenced, no conditional place is read, `*pp` is not both
written and read, and with default cptr no stack address passes through a
second variable or a field of a stack object.

## What is not modelled

What the conversion takes as given of its input: references to a global go
through its own symbol or its section; undefined names are not empty; tag names
of units differ; library calls the back end makes up are in the list the
converter is given; the tables list every call; a GOT reference on amd64 has
addend -4; a unit another unit refers to has a function with a thunk. The range
check of 32-bit addends is left out. The diff compares symbols, not the target
of the object or file names.

What Build takes as given: nobody starts a process on the object directory or
the kept work directory of a running one (the code takes no lock), and the tools
write their outputs whole or fail.

* Data races between goroutines on module globals: `goc.alloca.pool` and its
  cursor are plain globals, and the docs ask for one goroutine per module.
* Go-heap pointers (`gptr`) in the colour pass, `select` and casts, metadata
  and reports; optimisation between the passes.
* Liveness in the frame address repair is a guess per step, not the fixpoint, and
  the closure of frame words (`stackAddresses`, `tagWords`) that decides which
  words are roots is taken as given: both are analyses of whole functions of
  machine code, beyond the paths the model follows.
* The contents of registers wider than their argument; floating-point values.
* The frontend's colour rules, LLVM text parsing and rewriting, metadata
  generation, flags and tool lookup: rules over syntax or text, one item at a
  time, where a model would only repeat the rules.
* Bytes: variable-length integers, block and string offsets, hashes, instruction
  encodings, the C library shim, file and directory calls and formatting of the
  QuickJS modules. They are conversions without state, for tests of the code.

`PROJECT.json` lists every component with its status and reason.
