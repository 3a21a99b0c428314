----------------------------- MODULE CliWorker -----------------------------
(***************************************************************************)
(* The qjs:os event loop of the QuickJS command line: timers, workers,     *)
(* their messages and file-descriptor handlers, all scheduled by one       *)
(* goroutine (cli_worker.c and its two parts, driven by evaluate in        *)
(* cli/main.go).                                                           *)
(*                                                                         *)
(* JavaScript is the environment: while pc = "js" the code of runtime      *)
(* rt performs up to MaxOps calls of the API in all, then returns or       *)
(* throws.  Time passes at any moment.  Messages are numbered in the order *)
(* they are posted; sent and got are history variables.                    *)
(***************************************************************************)
EXTENDS Integers, Sequences

CONSTANTS Worker,          \* workers the program may create
          Main,            \* the runtime of the program itself
          Fd,              \* file descriptors
          Delays,          \* delays passed to setTimeout, in ms
          Forever,         \* INT64_MAX: later than any time reached
          MaxTime, MaxOps  \* bounds on the clock and on the program

VARIABLES
  now,
  workers,             \* state->workers of Main, oldest first
  started, child,      \* flags of each worker; child: its runtime exists
  onmessage,           \* handlers Main set on its Worker objects
  port,                \* Worker.parent in a worker: "none", "null", "fn" or "gone"
  module, promise,     \* a worker's module: module_pending/_loaded; its promise
  incoming, outgoing, sent, got,
  timers,              \* of every runtime, in the order they were set
  rw,                  \* Main's handlers: [fd, funcs], oldest first
  jobs,                \* pending jobs of every runtime
  pc, at, rt, wake,    \* the loop, the worker it looks at, who runs, until when it waits
  ops

vars == <<now, workers, started, child, onmessage, port, module, promise, incoming,
          outgoing, sent, got, timers, rw, jobs, pc, at, rt, wake, ops>>

workerVars == <<workers, started, child, onmessage, port, module, promise>>
queueVars == <<incoming, outgoing, sent, got>>
loopVars == <<pc, at, rt, wake>>

Runtime == Worker \cup {Main}
Never == -1

ASSUME TimeAssumption ==
  /\ MaxTime \in Nat /\ Forever \in Nat /\ Forever > MaxTime /\ Delays \subseteq Int
  /\ Main \notin Worker

Init ==
  /\ now = 0 /\ ops = 0
  /\ workers = <<>>
  /\ started = [w \in Worker |-> FALSE]
  /\ child = [w \in Worker |-> FALSE]
  /\ onmessage = [w \in Worker |-> FALSE]
  /\ port = [w \in Worker |-> "none"]
  /\ module = [w \in Worker |-> "none"]
  /\ promise = [w \in Worker |-> "pending"]
  /\ incoming = [w \in Worker |-> <<>>]
  /\ outgoing = [w \in Worker |-> <<>>]
  /\ sent = [w \in Worker |-> [in |-> 0, out |-> 0]]
  /\ got = [w \in Worker |-> [in |-> 0, out |-> 0]]
  /\ timers = [r \in Runtime |-> <<>>]
  /\ rw = <<>>
  /\ jobs = [r \in Runtime |-> 0]
  /\ pc = "js" /\ at = 0 /\ rt = Main /\ wake = Never

-----------------------------------------------------------------------------
(* Timers.                                                                  *)

Deadline(delay) == IF delay > 0 /\ now > Forever - delay THEN Forever ELSE now + delay

Clamped(ms) == IF ms < 1 THEN 1 ELSE IF ms > Forever THEN Forever ELSE ms

HasTimer(r) == timers[r] # <<>>

(* goc_qjs_cli_next_timer *)
Deadlines(r) == {timers[r][i].deadline : i \in DOMAIN timers[r]}

Due_Strict(r) == \E d \in Deadlines(r) : d < now

Due(r) == \E d \in Deadlines(r) : d <= now

(* goc_qjs_cli_run_due_timer: the earliest deadline, the oldest timer of     *)
(* several.  An interval is set again before its callback runs.              *)
Selected_Last(r, i) ==
  timers[r][i].deadline <= now /\ \A j \in DOMAIN timers[r] : timers[r][j].deadline <= now => j <= i

Selected(r, i) ==
  \A j \in DOMAIN timers[r] : \/ timers[r][i].deadline < timers[r][j].deadline
                              \/ timers[r][i].deadline = timers[r][j].deadline /\ i <= j

Without(list, i) == [j \in 1 .. Len(list) - 1 |-> IF j < i THEN list[j] ELSE list[j + 1]]

After(list, i) ==
  IF list[i].repeats THEN [list EXCEPT ![i].deadline = Deadline(list[i].delay)]
                     ELSE Without(list, i)

TakeTimer(r) ==
  \E i \in DOMAIN timers[r] : /\ Selected(r, i)
                              /\ timers' = [timers EXCEPT ![r] = After(timers[r], i)]

-----------------------------------------------------------------------------
(* What running JavaScript may do.                                           *)

Listed == {workers[i] : i \in DOMAIN workers}

Program == pc = "js" /\ ops < MaxOps /\ ops' = ops + 1

Call == UNCHANGED <<pc, at, rt, wake, now>>

SetTimer(ms, repeats) ==
  /\ Program /\ Call
  /\ timers' = [timers EXCEPT ![rt] =
       Append(@, [deadline |-> Deadline(Clamped(ms)), delay |-> Clamped(ms),
                  repeats |-> repeats])]
  /\ UNCHANGED <<workerVars, queueVars, rw, jobs>>

ClearTimer ==
  /\ Program /\ Call
  /\ \E i \in DOMAIN timers[rt] : timers' = [timers EXCEPT ![rt] = Without(timers[rt], i)]
  /\ UNCHANGED <<workerVars, queueVars, rw, jobs>>

EnqueueJob ==
  /\ Program /\ Call
  /\ jobs' = [jobs EXCEPT ![rt] = @ + 1]
  /\ UNCHANGED <<workerVars, queueVars, rw, timers>>

(* new Worker: refused inside a worker.                                      *)
NewWorker(w) ==
  /\ Program /\ Call /\ rt = Main
  /\ ~started[w] /\ w \notin Listed
  /\ workers' = Append(workers, w)
  /\ UNCHANGED <<started, child, onmessage, port, module, promise, queueVars, rw, jobs, timers>>

SetOnMessage(w, fn) ==
  /\ Program /\ Call
  /\ \/ /\ rt = Main /\ w \in Listed
        /\ onmessage' = [onmessage EXCEPT ![w] = fn]
        /\ UNCHANGED port
     \/ /\ rt = w /\ port[w] \in {"null", "fn"}
        /\ port' = [port EXCEPT ![w] = IF fn THEN "fn" ELSE "null"]
        /\ UNCHANGED onmessage
  /\ UNCHANGED <<workers, started, child, module, promise, queueVars, rw, jobs, timers>>

(* postMessage on a Worker, refused while it has no runtime, and on          *)
(* Worker.parent.                                                            *)
PostMessage(w) ==
  /\ Program /\ Call
  /\ \/ /\ rt = Main /\ w \in Listed /\ child[w]
        /\ sent' = [sent EXCEPT ![w].in = @ + 1]
        /\ incoming' = [incoming EXCEPT ![w] = Append(@, sent'[w].in)]
        /\ UNCHANGED outgoing
     \/ /\ rt = w /\ port[w] \in {"null", "fn"}
        /\ sent' = [sent EXCEPT ![w].out = @ + 1]
        /\ outgoing' = [outgoing EXCEPT ![w] = Append(@, sent'[w].out)]
        /\ UNCHANGED incoming
  /\ UNCHANGED <<workerVars, got, rw, jobs, timers>>

(* A worker's module imports qjs:os, and its evaluation settles.             *)
ImportOs ==
  /\ Program /\ Call /\ rt # Main /\ port[rt] = "none"
  /\ port' = [port EXCEPT ![rt] = "null"]
  /\ UNCHANGED <<workers, started, child, onmessage, module, promise, queueVars, rw, jobs, timers>>

(* The finalizer of Worker.parent, when a worker deletes the property.       *)
DropPort ==
  /\ Program /\ Call /\ rt # Main /\ port[rt] \in {"null", "fn"}
  /\ port' = [port EXCEPT ![rt] = "gone"]
  /\ UNCHANGED <<workers, started, child, onmessage, module, promise, queueVars, rw, jobs, timers>>

Settle(outcome) ==
  /\ pc = "js" /\ rt # Main /\ promise[rt] = "pending"
  /\ promise' = [promise EXCEPT ![rt] = outcome]
  /\ UNCHANGED <<workers, started, child, onmessage, port, module, queueVars, rw, jobs, timers,
                 now, loopVars, ops>>

(* setReadHandler and setWriteHandler; d is the direction, fn = FALSE is     *)
(* null.  A worker's handlers go on a list that nothing polls.               *)
Handlers(fd) == {i \in DOMAIN rw : rw[i].fd = fd}

SetHandler(fd, d, fn) ==
  /\ Program /\ Call /\ rt = Main
  /\ \/ /\ fn /\ Handlers(fd) = {}
        /\ rw' = Append(rw, [fd |-> fd, funcs |-> {d}])
     \/ \E i \in Handlers(fd) :
          LET left == IF fn THEN rw[i].funcs \cup {d} ELSE rw[i].funcs \ {d}
          IN rw' = IF left = {} THEN Without(rw, i) ELSE [rw EXCEPT ![i].funcs = left]
  /\ UNCHANGED <<workerVars, queueVars, jobs, timers>>

(* goc_qjs_cli_stop_worker for the workers in S: messages are freed before   *)
(* the runtime that owns some of them is.                                    *)
Stopped(S) ==
  /\ child' = [w \in Worker |-> child[w] /\ w \notin S]
  /\ port' = [w \in Worker |-> IF w \in S THEN "none" ELSE port[w]]
  /\ module' = [w \in Worker |-> IF w \in S THEN "none" ELSE module[w]]
  /\ incoming' = [w \in Worker |-> IF w \in S THEN <<>> ELSE incoming[w]]
  /\ outgoing' = [w \in Worker |-> IF w \in S THEN <<>> ELSE outgoing[w]]

Emptied_Main(S) == timers' = [timers EXCEPT ![Main] = IF Main \in S THEN <<>> ELSE @]

Emptied(S) == timers' = [r \in Runtime |-> IF r \in S THEN <<>> ELSE timers[r]]

(* The finalizer of a Worker object that Main lets go of.                    *)
DropWorker(w) ==
  /\ Program /\ Call /\ rt = Main
  /\ \E i \in DOMAIN workers : workers[i] = w /\ workers' = Without(workers, i)
  /\ started' = [started EXCEPT ![w] = TRUE]
  /\ onmessage' = [onmessage EXCEPT ![w] = FALSE]
  /\ Stopped({w}) /\ Emptied({w})
  /\ jobs' = [jobs EXCEPT ![w] = 0]
  /\ UNCHANGED <<promise, sent, got, rw>>

-----------------------------------------------------------------------------
(* evaluate: drain Main's jobs, then dispatch.                               *)

(* The code after a callback: Main's goes back to evaluate, a worker's runs  *)
(* the jobs of its runtime.                                                  *)
Return ==
  /\ pc = "js"
  /\ pc' = IF rt = Main THEN "jobs" ELSE "runjobs"
  /\ UNCHANGED <<now, workerVars, queueVars, timers, rw, jobs, at, rt, wake, ops>>

(* An exception nobody caught ends the program, a worker's as well as Main's. *)
Throw ==
  /\ pc = "js"
  /\ pc' = "failed"
  /\ UNCHANGED <<now, workerVars, queueVars, timers, rw, jobs, at, rt, wake, ops>>

Enter(r) == pc' = "js" /\ rt' = r

MainJob ==
  /\ pc = "jobs"
  /\ \/ /\ jobs[Main] > 0
        /\ jobs' = [jobs EXCEPT ![Main] = @ - 1]
        /\ Enter(Main)
     \/ /\ jobs[Main] = 0
        /\ pc' = "timer"
        /\ UNCHANGED <<jobs, rt>>
  /\ UNCHANGED <<now, workerVars, queueVars, timers, rw, at, wake, ops>>

MainTimer ==
  /\ pc = "timer"
  /\ \/ Due(Main) /\ TakeTimer(Main) /\ Enter(Main)
     \/ ~Due(Main) /\ pc' = "parent" /\ UNCHANGED <<timers, rt>>
  /\ UNCHANGED <<now, workerVars, queueVars, rw, jobs, at, wake, ops>>

ToMain(w) == onmessage[w] /\ outgoing[w] # <<>>

Pop_Newest(q) == SubSeq(q, 1, Len(q) - 1)

Pop(q) == Tail(q)

(* The first worker in the list that has something for Main.                 *)
MainMessage ==
  /\ pc = "parent"
  /\ \/ /\ \E i \in DOMAIN workers :
             LET w == workers[i]
             IN /\ ToMain(w) /\ \A j \in 1 .. i - 1 : ~ToMain(workers[j])
                /\ outgoing' = [outgoing EXCEPT ![w] = Pop(@)]
                /\ got' = [got EXCEPT ![w].out = Head(outgoing[w])]
        /\ Enter(Main)
        /\ UNCHANGED at
     \/ /\ \A w \in Listed : ~ToMain(w)
        /\ pc' = "workers" /\ at' = 1
        /\ UNCHANGED <<outgoing, got, rt>>
  /\ UNCHANGED <<now, workerVars, incoming, sent, timers, rw, jobs, wake, ops>>

-----------------------------------------------------------------------------
(* One worker's turn.                                                        *)

ToWorker(w) == port[w] = "fn" /\ incoming[w] # <<>>

TimerTurn(w) == Due(w) /\ (module[w] = "pending" \/ (module[w] = "loaded" /\ ~ToWorker(w)))

Busy(w) == ~started[w] \/ (child[w] /\ (jobs[w] > 0 \/ TimerTurn(w) \/ ToWorker(w)))

StartWorker(w) ==
  /\ ~started[w]
  /\ started' = [started EXCEPT ![w] = TRUE]
  /\ \/ /\ child' = [child EXCEPT ![w] = TRUE]
        /\ module' = [module EXCEPT ![w] = "pending"]
        /\ Enter(w)
     \/ pc' = "failed" /\ UNCHANGED <<child, module, rt>>
  /\ UNCHANGED <<timers, incoming, got>>

WorkerJobs(w) ==
  /\ child[w] /\ jobs[w] > 0
  /\ pc' = "runjobs" /\ rt' = w
  /\ UNCHANGED <<started, child, module, timers, incoming, got>>

WorkerTimer(w) ==
  /\ child[w] /\ jobs[w] = 0 /\ TimerTurn(w)
  /\ TakeTimer(w) /\ Enter(w)
  /\ UNCHANGED <<started, child, module, incoming, got>>

WorkerMessage(w) ==
  /\ child[w] /\ jobs[w] = 0 /\ ToWorker(w) /\ ~TimerTurn(w)
  /\ incoming' = [incoming EXCEPT ![w] = Pop(@)]
  /\ got' = [got EXCEPT ![w].in = Head(incoming[w])]
  /\ Enter(w)
  /\ UNCHANGED <<started, child, module, timers>>

WorkerTurn ==
  /\ pc = "workers" /\ at <= Len(workers)
  /\ LET w == workers[at]
     IN \/ Busy(w) /\ (StartWorker(w) \/ WorkerJobs(w) \/ WorkerTimer(w) \/ WorkerMessage(w))
           /\ at' = 0
        \/ ~Busy(w) /\ at' = at + 1
           /\ UNCHANGED <<pc, rt, started, child, module, timers, incoming, got>>
  /\ UNCHANGED <<now, workers, onmessage, port, promise, outgoing, sent, rw, jobs, wake, ops>>

(* goc_qjs_cli_run_jobs                                                      *)
RunJobs ==
  /\ pc = "runjobs"
  /\ \/ /\ jobs[rt] > 0
        /\ jobs' = [jobs EXCEPT ![rt] = @ - 1]
        /\ pc' = "js"
        /\ UNCHANGED <<module, rt>>
     \/ /\ jobs[rt] = 0
        /\ module' = IF module[rt] = "pending" /\ promise[rt] = "fulfilled"
                     THEN [module EXCEPT ![rt] = "loaded"] ELSE module
        /\ pc' = IF module[rt] = "pending" /\ promise[rt] = "rejected" THEN "failed" ELSE "jobs"
        /\ rt' = Main
        /\ UNCHANGED jobs
  /\ UNCHANGED <<now, workers, started, child, onmessage, port, promise, queueVars, timers, rw,
                 at, wake, ops>>

-----------------------------------------------------------------------------
(* Nothing to run: leave, or wait.                                           *)

(* goc_qjs_cli_workers_pending: timers of workers do not count.              *)
WorkersPending_NoTimer ==
  \/ rw # <<>>
  \/ \E w \in Listed :
       \/ ~started[w]
       \/ child[w] /\ (onmessage[w] \/ module[w] = "pending" \/ jobs[w] > 0 \/ ToWorker(w))

WorkersPending ==
  \/ HasTimer(Main) \/ rw # <<>>
  \/ \E w \in Listed :
       \/ ~started[w]
       \/ child[w] /\ (onmessage[w] \/ module[w] = "pending" \/ jobs[w] > 0 \/ ToWorker(w))

Earliest_MainOnly(d) == IF HasTimer(Main) THEN \A e \in Deadlines(Main) : d <= e ELSE d = Never

Earliest(d) ==
  LET all == UNION {Deadlines(r) : r \in Listed \cup {Main}}
  IN IF all = {} THEN d = Never ELSE d \in all /\ \A e \in all : d <= e

Idle ==
  /\ pc = "workers" /\ at > Len(workers)
  /\ \/ ~WorkersPending /\ pc' = "exit" /\ UNCHANGED wake
     \/ /\ WorkersPending
        /\ pc' = IF rw # <<>> THEN "poll" ELSE "sleep"
        /\ \E d \in {Never} \cup UNION {Deadlines(r) : r \in Runtime} : Earliest(d) /\ wake' = d
  /\ at' = 0
  /\ UNCHANGED <<now, workerVars, queueVars, timers, rw, jobs, rt, ops>>

Expired == wake # Never /\ wake <= now

(* goc_qjs_cli_wait_ns; without a deadline it sleeps for ever.               *)
Wake ==
  /\ pc = "sleep" /\ Expired
  /\ pc' = "timer" /\ wake' = Never
  /\ UNCHANGED <<now, workerVars, queueVars, timers, rw, jobs, at, rt, ops>>

(* goc_qjs_cli_poll_rw: the first handler that is ready, its read side       *)
(* first; or the deadline; or a signal; or an error.                         *)
PollReady(ready) ==
  /\ pc = "poll"
  /\ \E i \in DOMAIN rw : rw[i].funcs \cap ready[rw[i].fd] # {}
  /\ Enter(Main) /\ wake' = Never
  /\ UNCHANGED <<now, workerVars, queueVars, timers, rw, jobs, at, ops>>

PollEnds ==
  /\ pc = "poll"
  /\ pc' \in {"timer", "failed"}     \* the deadline or EINTR; another errno
  /\ wake' = Never
  /\ UNCHANGED <<now, workerVars, queueVars, timers, rw, jobs, at, rt, ops>>

(* The deferred calls of run: goc_qjs_cli_worker_cleanup of Main.            *)
Cleanup ==
  /\ pc \in {"exit", "failed"}
  /\ pc' = "done"
  /\ Stopped(Listed) /\ Emptied(Listed \cup {Main})
  /\ onmessage' = [w \in Worker |-> FALSE]
  /\ rw' = <<>>
  /\ jobs' = [r \in Runtime |-> IF r \in Listed THEN 0 ELSE jobs[r]]
  /\ UNCHANGED <<now, workers, started, promise, sent, got, at, rt, wake, ops>>

Tick ==
  /\ now < MaxTime /\ pc # "done"
  /\ now' = now + 1
  /\ UNCHANGED <<workerVars, queueVars, timers, rw, jobs, loopVars, ops>>

-----------------------------------------------------------------------------

JavaScript ==
  \/ \E ms \in Delays, repeats \in BOOLEAN : SetTimer(ms, repeats)
  \/ ClearTimer \/ EnqueueJob \/ ImportOs \/ DropPort
  \/ \E outcome \in {"fulfilled", "rejected"} : Settle(outcome)
  \/ \E w \in Worker : NewWorker(w) \/ DropWorker(w) \/ PostMessage(w)
  \/ \E w \in Worker, fn \in BOOLEAN : SetOnMessage(w, fn)
  \/ \E fd \in Fd, d \in {"read", "write"}, fn \in BOOLEAN : SetHandler(fd, d, fn)

Loop ==
  \/ MainJob \/ MainTimer \/ MainMessage \/ WorkerTurn \/ RunJobs \/ Idle \/ Wake \/ Cleanup

Poll ==
  \/ \E ready \in [Fd -> SUBSET {"read", "write"}] : PollReady(ready)
  \/ PollEnds

Next == JavaScript \/ Return \/ Throw \/ Loop \/ Poll \/ Tick

Spec == Init /\ [][Next]_vars

-----------------------------------------------------------------------------

Timer == [deadline : 1 .. Forever, delay : 1 .. Forever, repeats : BOOLEAN]
Count == [in : Nat, out : Nat]

TypeOK ==
  /\ now \in 0 .. MaxTime /\ ops \in Nat
  /\ workers \in Seq(Worker) /\ \A i, j \in DOMAIN workers : workers[i] = workers[j] => i = j
  /\ started \in [Worker -> BOOLEAN] /\ child \in [Worker -> BOOLEAN]
  /\ onmessage \in [Worker -> BOOLEAN]
  /\ port \in [Worker -> {"none", "null", "fn", "gone"}]
  /\ module \in [Worker -> {"none", "pending", "loaded"}]
  /\ promise \in [Worker -> {"pending", "fulfilled", "rejected"}]
  /\ incoming \in [Worker -> Seq(Nat)] /\ outgoing \in [Worker -> Seq(Nat)]
  /\ sent \in [Worker -> Count] /\ got \in [Worker -> Count]
  /\ timers \in [Runtime -> Seq(Timer)]
  /\ rw \in Seq([fd : Fd, funcs : SUBSET {"read", "write"}])
  /\ jobs \in [Runtime -> Nat]
  /\ pc \in {"js", "jobs", "timer", "parent", "workers", "runjobs", "poll", "sleep", "exit",
             "failed", "done"}
  /\ at \in Nat /\ rt \in Runtime /\ wake \in {Never} \cup Nat

Queued(q, first, last) == q = [i \in 1 .. last - first |-> first + i]

Mail(w) ==
  IF child[w] THEN /\ Queued(incoming[w], got[w].in, sent[w].in)
                   /\ Queued(outgoing[w], got[w].out, sent[w].out)
              ELSE incoming[w] = <<>> /\ outgoing[w] = <<>>

(* Messages of a worker are received in the order they were posted, each     *)
(* once, and none is lost while the worker lives.  A message belongs to a    *)
(* runtime that exists: those from a worker are gone before its runtime is   *)
(* freed, and none waits for a dead worker.                                  *)
MessagesInOrder == \A w \in Worker : Mail(w)

Deliverable(w) == ToMain(w) \/ (child[w] /\ ToWorker(w))

(* A worker that has nothing to run now but, perhaps, a timer.               *)
Quiet(w) == started[w] /\ jobs[w] = 0 /\ ~(child[w] /\ ToWorker(w))

(* The loop waits only when no callback can run, and never past the deadline *)
(* of a timer, Main's or a worker's.                                         *)
WaitsWhenIdle ==
  pc \in {"sleep", "poll"} =>
    /\ \A w \in Listed : started[w] /\ jobs[w] = 0 /\ ~Deliverable(w)
    /\ \A r \in Listed \cup {Main} : \A d \in Deadlines(r) : wake # Never /\ wake <= d

(* The program ends by itself only when nothing of Main's is outstanding and *)
(* no message that has a handler is left behind.                             *)
ExitsWhenDone ==
  pc = "exit" =>
    /\ ~HasTimer(Main) /\ rw = <<>> /\ jobs[Main] = 0
    /\ \A w \in Listed : started[w] /\ ~Deliverable(w) /\ jobs[w] = 0

(* After the deferred cleanup no runtime of a worker, no queued message, no  *)
(* timer and no handler is left, whatever ended the program.                 *)
NothingLeft ==
  pc = "done" =>
    /\ \A w \in Worker : ~child[w] /\ incoming[w] = <<>> /\ outgoing[w] = <<>> /\ port[w] # "fn"
    /\ \A r \in Runtime : ~HasTimer(r)
    /\ rw = <<>>

(* The loop never spins: with time standing still it comes to run a          *)
(* callback, to wait, or to the end.                                         *)
LoopNeverSpins == []<>(pc \in {"js", "done"} \/ (pc \in {"sleep", "poll"} /\ ~Expired))

(* One timer of r, due and due first, fires: it is gone, or set again for    *)
(* later.                                                                    *)
Fires(r) ==
  \E i \in DOMAIN timers[r] :
    /\ timers[r][i].deadline <= now
    /\ \A j \in DOMAIN timers[r] : timers[r][i].deadline <= timers[r][j].deadline
    /\ \/ timers'[r] = Without(timers[r], i)
       \/ /\ timers'[r] = [timers[r] EXCEPT ![i] = timers'[r][i]]
          /\ timers'[r][i].deadline > now

(* Callbacks of a runtime's timers run in the order of their deadlines: what *)
(* fires was due, everything still set is due no earlier, and an interval is *)
(* set again for later.                                                      *)
TimersInOrder ==
  [][\A r \in Runtime : pc \in {"timer", "workers"} /\ timers'[r] # timers[r] => Fires(r)]_vars
=============================================================================
