-------------------------- MODULE CliWorkerProofs --------------------------
(***************************************************************************)
(* The event loop, for any number of workers and descriptors, any delays   *)
(* and programs of any length: messages arrive in order, timers fire in    *)
(* order, the loop waits only when it is idle, ends only when it is done,  *)
(* and leaves nothing behind.                                              *)
(*                                                                         *)
(* LoopInv is inductive in two halves.  Sound says what memory looks like  *)
(* at every step, JavaScript's included; Scheduled says what the loop      *)
(* knows where it is, and JavaScript runs only where it knows nothing.     *)
(***************************************************************************)
EXTENDS CliWorker, TLAPS

(* The leaves are first-order reasoning for Zenon, where they do not name    *)
(* another prover.                                                           *)
USE Zenon

(* The life of a worker: it has a runtime only after it was started and      *)
(* while Main keeps it listed, and without one it has neither a port, nor    *)
(* jobs, nor timers.  It never has received more than was sent to it.        *)
Life(w) ==
  /\ child[w] => started[w] /\ w \in Listed
  /\ child[w] => got[w].in <= sent[w].in /\ got[w].out <= sent[w].out
  /\ ~child[w] => port[w] = "none" /\ jobs[w] = 0 /\ timers[w] = <<>>
  /\ ~started[w] => got[w] = sent[w]

(* JavaScript and jobs run in a runtime that exists.                         *)
RunsAlive ==
  /\ pc = "js" => rt = Main \/ child[rt]
  /\ pc = "runjobs" => rt \in Worker /\ child[rt]

(* From the timers on, a pass of the loop has drained Main's jobs.           *)
Drained == pc \in {"timer", "parent", "workers", "sleep", "poll", "exit"} => jobs[Main] = 0

(* The scan of the workers has passed only workers with nothing to run, and  *)
(* none of the workers has anything for Main.                                *)
Scanned ==
  pc = "workers" =>
    /\ at >= 1 /\ \A w \in Listed : ~ToMain(w)
    /\ \A i \in DOMAIN workers : i < at => Quiet(workers[i])

(* Memory is sound: types, the life of every worker and its messages, and    *)
(* the runtime that runs.                                                    *)
Sound ==
  TypeOK /\ (\A w \in Worker : Life(w)) /\ MessagesInOrder /\ RunsAlive

Scheduled == Drained /\ Scanned /\ WaitsWhenIdle /\ ExitsWhenDone /\ NothingLeft

LoopInv == Sound /\ Scheduled

-----------------------------------------------------------------------------
(* Lists and queues.                                                         *)

(* An element of a list.                                                     *)
LEMMA Element ==
  ASSUME NEW S, NEW list \in Seq(S), NEW i \in DOMAIN list
  PROVE  list[i] \in S
<1>1. i \in 1 .. Len(list)
  BY SMT
<1> QED  BY SMT, <1>1

(* Without removes one element of a list (list_del), and keeps the others in *)
(* their order.                                                              *)
LEMMA WithoutList ==
  ASSUME NEW S, NEW list \in Seq(S), NEW i \in DOMAIN list
  PROVE  /\ Without(list, i) \in Seq(S)
         /\ DOMAIN Without(list, i) = 1 .. Len(list) - 1
         /\ \A j \in 1 .. Len(list) - 1 :
              Without(list, i)[j] = IF j < i THEN list[j] ELSE list[j + 1]
<1>1. Len(list) \in Nat /\ Len(list) - 1 \in Nat /\ i \in 1 .. Len(list)
  BY SMT
<1>2. \A j \in 1 .. Len(list) - 1 : list[j] \in S /\ list[j + 1] \in S
  BY SMT
<1> QED  BY SMT, <1>1, <1>2 DEF Without

(* A list of different workers loses the worker removed from it, and only    *)
(* that one.                                                                 *)
LEMMA WithoutWorker ==
  ASSUME NEW S, NEW list \in Seq(S), NEW i \in DOMAIN list,
         \A j, k \in DOMAIN list : list[j] = list[k] => j = k
  PROVE  /\ \A j, k \in DOMAIN Without(list, i) :
              Without(list, i)[j] = Without(list, i)[k] => j = k
         /\ \A j \in DOMAIN Without(list, i) :
              \E k \in DOMAIN list : Without(list, i)[j] = list[k] /\ list[k] # list[i]
         /\ \A k \in DOMAIN list :
              k # i => \E j \in DOMAIN Without(list, i) : Without(list, i)[j] = list[k]
<1> DEFINE short == Without(list, i)
           old(j) == IF j < i THEN j ELSE j + 1
<1>0. DOMAIN short = 1 .. Len(list) - 1
      /\ \A j \in 1 .. Len(list) - 1 : short[j] = IF j < i THEN list[j] ELSE list[j + 1]
  BY WithoutList
<1>1. DOMAIN short = 1 .. Len(list) - 1 /\ DOMAIN list = 1 .. Len(list) /\ Len(list) \in Nat
  BY SMT, <1>0
<1>2. \A j \in DOMAIN short : old(j) \in DOMAIN list /\ old(j) # i
  BY SMT, <1>1
<1>3. \A j, k \in DOMAIN short : old(j) = old(k) => j = k
  BY SMT, <1>1
<1>4. \A k \in DOMAIN list : k # i => \E j \in DOMAIN short : old(j) = k
  <2> SUFFICES ASSUME NEW k \in DOMAIN list, k # i
               PROVE  \E j \in DOMAIN short : old(j) = k
    OBVIOUS
  <2>1. CASE k < i
    BY SMT, <1>1, <2>1
  <2>2. CASE k > i
    <3>1. k - 1 \in DOMAIN short /\ old(k - 1) = k
      BY SMT, <1>1, <2>2
    <3> QED  BY <3>1
  <2> QED  BY SMT, <1>1, <2>1, <2>2
<1>5. \A j \in DOMAIN short : short[j] = list[old(j)]
  BY <1>0
<1> HIDE DEF short, old
<1>6. /\ \A j, k \in DOMAIN short : short[j] = short[k] => j = k
      /\ \A j \in DOMAIN short : \E k \in DOMAIN list : short[j] = list[k] /\ list[k] # list[i]
      /\ \A k \in DOMAIN list : k # i => \E j \in DOMAIN short : short[j] = list[k]
  BY <1>2, <1>3, <1>4, <1>5
<1> QED  BY <1>6 DEF short

(* A queue holds the numbers of the messages posted and not yet received.    *)
LEMMA QueuedBy ==
  ASSUME NEW a \in Nat, NEW b \in Nat, NEW q \in Seq(Nat), Len(q) = b - a,
         \A i \in 1 .. b - a : q[i] = a + i
  PROVE  Queued(q, a, b)
<1>1. q = [i \in 1 .. Len(q) |-> q[i]]
  BY SMT
<1>2. q = [i \in 1 .. b - a |-> q[i]]
  BY <1>1
<1>3. [i \in 1 .. b - a |-> q[i]] = [i \in 1 .. b - a |-> a + i]
  OBVIOUS
<1> QED  BY <1>2, <1>3 DEF Queued

(* What a queue holds.                                                       *)
LEMMA QueuedHas ==
  ASSUME NEW a \in Nat, NEW b \in Nat, a <= b, NEW q \in Seq(Nat), Queued(q, a, b)
  PROVE  Len(q) = b - a /\ \A i \in 1 .. b - a : q[i] = a + i
<1>1. DOMAIN q = 1 .. b - a /\ \A i \in 1 .. b - a : q[i] = a + i
  BY DEF Queued
<1>2. b - a \in Nat /\ Len(q) \in Nat /\ DOMAIN q = 1 .. Len(q)
  BY SMT
<1> QED  BY SMT, <1>1, <1>2

(* A message posted goes to the end of its queue.                            *)
LEMMA QueueAppend ==
  ASSUME NEW a \in Nat, NEW b \in Nat, a <= b, NEW q \in Seq(Nat), Queued(q, a, b)
  PROVE  Queued(Append(q, b + 1), a, b + 1) /\ Append(q, b + 1) \in Seq(Nat)
<1>1. Len(q) = b - a /\ \A i \in 1 .. b - a : q[i] = a + i
  BY QueuedHas
<1>2. (b + 1) - a = (b - a) + 1 /\ b + 1 \in Nat
  BY SMT
<1>3. Append(q, b + 1) \in Seq(Nat) /\ Len(Append(q, b + 1)) = (b + 1) - a
  BY SMT, <1>1, <1>2
<1>4. Append(q, b + 1)[Len(q) + 1] = b + 1
      /\ \A i \in 1 .. Len(q) : Append(q, b + 1)[i] = q[i]
  BY SMT
<1>5. \A i \in 1 .. (b + 1) - a : i \in 1 .. b - a \/ (i = (b - a) + 1 /\ b + 1 = a + i)
  BY SMT
<1>6. \A i \in 1 .. (b + 1) - a : Append(q, b + 1)[i] = a + i
  BY <1>1, <1>4, <1>5
<1> QED  BY <1>2, <1>3, <1>6, QueuedBy

(* A message taken is the next one of its queue.                             *)
LEMMA QueuePop ==
  ASSUME NEW a \in Nat, NEW b \in Nat, a <= b, NEW q \in Seq(Nat), Queued(q, a, b), q # <<>>
  PROVE  /\ Head(q) = a + 1 /\ a + 1 <= b
         /\ Queued(Tail(q), a + 1, b) /\ Tail(q) \in Seq(Nat)
<1>1. Len(q) = b - a /\ \A i \in 1 .. b - a : q[i] = a + i
  BY QueuedHas
<1>2. a + 1 <= b /\ Head(q) = a + 1 /\ a + 1 \in Nat
  BY SMT, <1>1
<1>3. Tail(q) \in Seq(Nat) /\ Len(Tail(q)) = b - (a + 1)
  BY SMT, <1>1, <1>2
<1>4. \A i \in 1 .. b - (a + 1) : Tail(q)[i] = (a + 1) + i
  BY SMT, <1>1, <1>2
<1> QED  BY <1>2, <1>3, <1>4, QueuedBy

-----------------------------------------------------------------------------
(* What an action that leaves a part of the state alone keeps.               *)

(* JavaScript runs outside the part of the loop that waits, scans or ends.   *)
LEMMA OutsideTheLoop ==
  ASSUME pc' \in {"js", "jobs", "runjobs", "failed"}
  PROVE  Scheduled'
<1>1. ~(pc' \in {"timer", "parent", "workers", "sleep", "poll", "exit", "done"})
  OBVIOUS
<1>2. /\ ~(pc' \in {"timer", "parent", "workers", "sleep", "poll", "exit"}) /\ pc' # "workers"
      /\ ~(pc' \in {"sleep", "poll"}) /\ pc' # "exit" /\ pc' # "done"
  BY <1>1
<1> QED  BY <1>2 DEF Scheduled, Scanned, WaitsWhenIdle, ExitsWhenDone, NothingLeft, Drained

(* The life of the workers: only a worker that has a runtime is given jobs,  *)
(* timers or a port.                                                         *)
LEMMA LifeKept ==
  ASSUME \A w \in Worker : Life(w),
         UNCHANGED workers, UNCHANGED started, UNCHANGED child, UNCHANGED sent, UNCHANGED got,
         \A w \in Worker : ~child[w] => UNCHANGED port[w] /\ UNCHANGED jobs[w] /\ UNCHANGED timers[w]
  PROVE  \A w \in Worker : Life(w)'
BY DEF Life, Listed

(* The queues of messages.                                                   *)
LEMMA MessagesKept ==
  ASSUME MessagesInOrder, UNCHANGED child, UNCHANGED incoming, UNCHANGED outgoing,
         UNCHANGED sent, UNCHANGED got
  PROVE  MessagesInOrder'
BY DEF MessagesInOrder, Mail, Queued

(* Main is no worker; what runs is Main or a worker that has a runtime.      *)
LEMMA Running ==
  ASSUME Sound, pc = "js"
  PROVE  rt \in Runtime /\ (rt = Main \/ (rt \in Worker /\ rt # Main /\ child[rt]))
BY TimeAssumption DEF Sound, TypeOK, RunsAlive, Runtime

(* A deadline lies after now, even where the sum would overflow              *)
(* (goc_qjs_cli_deadline).                                                   *)
LEMMA DeadlineLater ==
  ASSUME now \in 0 .. MaxTime, NEW delay \in 1 .. Forever
  PROVE  Deadline(delay) \in 1 .. Forever /\ Deadline(delay) > now
BY SMT, TimeAssumption DEF Deadline

-----------------------------------------------------------------------------
(* The calls of JavaScript.                                                  *)

(* setTimeout and setInterval.                                               *)
LEMMA SetTimerSound ==
  ASSUME Sound, NEW ms \in Delays, NEW repeats \in BOOLEAN, SetTimer(ms, repeats)
  PROVE  Sound'
<1>1. rt \in Runtime /\ (rt = Main \/ (rt \in Worker /\ rt # Main /\ child[rt]))
  BY Running DEF SetTimer, Program
<1>2. Clamped(ms) \in 1 .. Forever
  BY SMT, TimeAssumption DEF Clamped
<1>3. Deadline(Clamped(ms)) \in 1 .. Forever
  BY <1>2, DeadlineLater DEF Sound, TypeOK
<1> DEFINE t == [deadline |-> Deadline(Clamped(ms)), delay |-> Clamped(ms), repeats |-> repeats]
<1>4. t \in Timer
  BY <1>2, <1>3 DEF Timer
<1>5. timers' = [timers EXCEPT ![rt] = Append(timers[rt], t)]
  BY DEF SetTimer
<1> HIDE DEF t
<1>6. timers \in [Runtime -> Seq(Timer)] /\ ops \in Nat /\ ops' = ops + 1
  BY DEF Sound, TypeOK, SetTimer, Program
<1>7. timers' \in [Runtime -> Seq(Timer)] /\ ops' \in Nat
  BY SMT, <1>1, <1>4, <1>5, <1>6
<1>8. \A w \in Worker : ~child[w] => UNCHANGED timers[w]
  BY <1>1, <1>5, <1>6, TimeAssumption DEF Runtime
<1>9. TypeOK'
  BY <1>7 DEF Sound, TypeOK, SetTimer, Call, workerVars, queueVars
<1>10. \A w \in Worker : Life(w)'
  BY <1>8, LifeKept DEF Sound, SetTimer, workerVars, queueVars
<1>11. MessagesInOrder'
  BY MessagesKept DEF Sound, SetTimer, workerVars, queueVars
<1>12. RunsAlive'
  BY DEF Sound, RunsAlive, SetTimer, Program, Call, workerVars
<1> QED  BY <1>9, <1>10, <1>11, <1>12 DEF Sound

(* clearTimeout and clearInterval.                                           *)
LEMMA ClearTimerSound ==
  ASSUME Sound, ClearTimer
  PROVE  Sound'
<1>1. rt \in Runtime /\ (rt = Main \/ (rt \in Worker /\ rt # Main /\ child[rt]))
  BY Running DEF ClearTimer, Program
<1>2. PICK i \in DOMAIN timers[rt] : timers' = [timers EXCEPT ![rt] = Without(timers[rt], i)]
  BY DEF ClearTimer
<1>3. timers \in [Runtime -> Seq(Timer)] /\ ops \in Nat /\ ops' = ops + 1
  BY DEF Sound, TypeOK, ClearTimer, Program
<1>4. Without(timers[rt], i) \in Seq(Timer)
  BY <1>1, <1>3, WithoutList
<1>5. timers' \in [Runtime -> Seq(Timer)] /\ ops' \in Nat
  BY SMT, <1>1, <1>2, <1>3, <1>4
<1>6. \A w \in Worker : ~child[w] => UNCHANGED timers[w]
  BY <1>1, <1>2, <1>3, TimeAssumption DEF Runtime
<1>7. TypeOK'
  BY <1>5 DEF Sound, TypeOK, ClearTimer, Call, workerVars, queueVars
<1>8. \A w \in Worker : Life(w)'
  BY <1>6, LifeKept DEF Sound, ClearTimer, workerVars, queueVars
<1>9. MessagesInOrder'
  BY MessagesKept DEF Sound, ClearTimer, workerVars, queueVars
<1>10. RunsAlive'
  BY DEF Sound, RunsAlive, ClearTimer, Program, Call, workerVars
<1> QED  BY <1>7, <1>8, <1>9, <1>10 DEF Sound

(* A promise reaction or queueMicrotask.                                     *)
LEMMA EnqueueJobSound ==
  ASSUME Sound, EnqueueJob
  PROVE  Sound'
<1>1. rt \in Runtime /\ (rt = Main \/ (rt \in Worker /\ rt # Main /\ child[rt]))
  BY Running DEF EnqueueJob, Program
<1>2. jobs \in [Runtime -> Nat] /\ ops \in Nat /\ ops' = ops + 1
  BY DEF Sound, TypeOK, EnqueueJob, Program
<1>3. jobs' = [jobs EXCEPT ![rt] = jobs[rt] + 1]
  BY DEF EnqueueJob
<1>4. jobs' \in [Runtime -> Nat] /\ ops' \in Nat
  BY SMT, <1>1, <1>2, <1>3
<1>5. \A w \in Worker : ~child[w] => UNCHANGED jobs[w]
  BY <1>1, <1>2, <1>3, TimeAssumption DEF Runtime
<1>6. TypeOK'
  BY <1>4 DEF Sound, TypeOK, EnqueueJob, Call, workerVars, queueVars
<1>7. \A w \in Worker : Life(w)'
  BY <1>5, LifeKept DEF Sound, EnqueueJob, workerVars, queueVars
<1>8. MessagesInOrder'
  BY MessagesKept DEF Sound, EnqueueJob, workerVars, queueVars
<1>9. RunsAlive'
  BY DEF Sound, RunsAlive, EnqueueJob, Program, Call, workerVars
<1> QED  BY <1>6, <1>7, <1>8, <1>9 DEF Sound

(* new Worker: the worker has no runtime before the loop starts it.          *)
LEMMA NewWorkerSound ==
  ASSUME Sound, NEW w \in Worker, NewWorker(w)
  PROVE  Sound'
<1>1. workers \in Seq(Worker) /\ workers' = Append(workers, w) /\ ops \in Nat /\ ops' = ops + 1
  BY DEF Sound, TypeOK, NewWorker, Program
<1>2. /\ workers' \in Seq(Worker) /\ ops' \in Nat
      /\ DOMAIN workers = 1 .. Len(workers) /\ DOMAIN workers' = 1 .. Len(workers) + 1
      /\ workers'[Len(workers) + 1] = w
      /\ \A i \in DOMAIN workers : workers'[i] = workers[i]
  BY SMT, <1>1
<1>3. \A i \in DOMAIN workers : i \in DOMAIN workers'
  BY SMT, <1>1, <1>2
<1>4. \A i \in DOMAIN workers' : i \in DOMAIN workers \/ i = Len(workers) + 1
  BY SMT, <1>1, <1>2
<1>5. \A i \in DOMAIN workers : workers[i] # w
  BY DEF NewWorker, Listed
<1>6. \A i, j \in DOMAIN workers : workers[i] = workers[j] => i = j
  BY DEF Sound, TypeOK
<1>7. \A i, j \in DOMAIN workers' : workers'[i] = workers'[j] => i = j
  BY <1>2, <1>4, <1>5, <1>6
<1>8. TypeOK'
  BY <1>2, <1>7 DEF Sound, TypeOK, NewWorker, Call, queueVars
<1>9. \A v \in Listed : v \in Listed'
  BY <1>2, <1>3 DEF Listed
<1>10. \A v \in Worker : Life(v)'
  BY <1>9 DEF Sound, Life, NewWorker, queueVars
<1>11. MessagesInOrder'
  BY MessagesKept DEF Sound, NewWorker, queueVars
<1>12. RunsAlive'
  BY DEF Sound, RunsAlive, NewWorker, Program, Call
<1> QED  BY <1>8, <1>10, <1>11, <1>12 DEF Sound

(* The handlers of messages: Main's on a Worker object, a worker's on its    *)
(* port, which it has only while its runtime exists.                         *)
LEMMA SetOnMessageSound ==
  ASSUME Sound, NEW w \in Worker, NEW fn \in BOOLEAN, SetOnMessage(w, fn)
  PROVE  Sound'
<1>1. rt \in Runtime /\ (rt = Main \/ (rt \in Worker /\ rt # Main /\ child[rt]))
  BY Running DEF SetOnMessage, Program
<1>2. /\ onmessage \in [Worker -> BOOLEAN] /\ port \in [Worker -> {"none", "null", "fn", "gone"}]
      /\ ops \in Nat /\ ops' = ops + 1
  BY DEF Sound, TypeOK, SetOnMessage, Program
<1>3. \/ onmessage' = [onmessage EXCEPT ![w] = fn] /\ UNCHANGED port
      \/ /\ rt = w /\ UNCHANGED onmessage
         /\ port' = [port EXCEPT ![w] = IF fn THEN "fn" ELSE "null"]
  BY DEF SetOnMessage
<1>4. ops' \in Nat
  BY SMT, <1>2
<1>5. onmessage' \in [Worker -> BOOLEAN] /\ port' \in [Worker -> {"none", "null", "fn", "gone"}]
  BY <1>2, <1>3
<1>6. \A v \in Worker : ~child[v] => UNCHANGED port[v]
  BY <1>1, <1>2, <1>3, TimeAssumption
<1>7. TypeOK'
  BY <1>4, <1>5 DEF Sound, TypeOK, SetOnMessage, Call, queueVars
<1>8. \A v \in Worker : Life(v)'
  BY <1>6, LifeKept DEF Sound, SetOnMessage, queueVars
<1>9. MessagesInOrder'
  BY MessagesKept DEF Sound, SetOnMessage, queueVars
<1>10. RunsAlive'
  BY DEF Sound, RunsAlive, SetOnMessage, Program, Call
<1> QED  BY <1>7, <1>8, <1>9, <1>10 DEF Sound

(* A message posted to a worker that has a runtime.                          *)
LEMMA PostedInside ==
  ASSUME Sound, NEW w \in Worker, child[w],
         UNCHANGED workers, UNCHANGED started, UNCHANGED child, UNCHANGED port, UNCHANGED jobs,
         UNCHANGED timers, UNCHANGED got, UNCHANGED outgoing,
         sent' = [sent EXCEPT ![w].in = @ + 1],
         incoming' = [incoming EXCEPT ![w] = Append(@, sent'[w].in)]
  PROVE  /\ sent' \in [Worker -> Count] /\ incoming' \in [Worker -> Seq(Nat)]
         /\ (\A v \in Worker : Life(v)') /\ MessagesInOrder'
<1>1. /\ sent \in [Worker -> Count] /\ got \in [Worker -> Count]
      /\ incoming \in [Worker -> Seq(Nat)] /\ Life(w)
  BY DEF Sound, TypeOK
<1>2. /\ sent[w].in \in Nat /\ got[w].in \in Nat
      /\ sent'[w].in = sent[w].in + 1 /\ sent'[w].out = sent[w].out /\ sent' \in [Worker -> Count]
  <2> DEFINE c == [sent[w] EXCEPT !.in = @ + 1]
  <2>1. sent[w] \in Count /\ got[w] \in Count /\ sent' = [sent EXCEPT ![w] = c]
    BY <1>1
  <2>2. /\ sent[w].in \in Nat /\ got[w].in \in Nat /\ c \in Count
        /\ c.in = sent[w].in + 1 /\ c.out = sent[w].out
    BY SMT, <2>1 DEF Count
  <2> HIDE DEF c
  <2>3. sent'[w] = c /\ sent' \in [Worker -> Count]
    BY <1>1, <2>1, <2>2
  <2> QED  BY <2>2, <2>3
<1>3. got[w].in <= sent[w].in /\ got[w].in <= sent[w].in + 1
  BY SMT, <1>1, <1>2 DEF Life
<1>4. Queued(incoming[w], got[w].in, sent[w].in) /\ incoming[w] \in Seq(Nat)
  BY <1>1 DEF Sound, MessagesInOrder, Mail
<1>5. /\ Queued(Append(incoming[w], sent[w].in + 1), got[w].in, sent[w].in + 1)
      /\ Append(incoming[w], sent[w].in + 1) \in Seq(Nat)
  BY <1>2, <1>3, <1>4, QueueAppend
<1>6. incoming' = [incoming EXCEPT ![w] = Append(incoming[w], sent[w].in + 1)]
  BY <1>2
<1>7. incoming' \in [Worker -> Seq(Nat)] /\ incoming'[w] = Append(incoming[w], sent[w].in + 1)
  BY <1>1, <1>5, <1>6
<1>8. \A v \in Worker : v # w => sent'[v] = sent[v] /\ incoming'[v] = incoming[v]
  BY <1>1, <1>6
<1>9. \A v \in Worker : Life(v)'
  <2> TAKE v \in Worker
  <2>1. Life(v)
    BY DEF Sound
  <2>2. CASE v = w
    BY <2>1, <2>2, <1>2, <1>3 DEF Life, Listed
  <2>3. CASE v # w
    BY <2>1, <2>3, <1>8 DEF Life, Listed
  <2> QED  BY <2>2, <2>3
<1>10. MessagesInOrder'
  <2>0. Mail(w)
    BY DEF Sound, MessagesInOrder
  <2>1. Mail(w)'
    <3>1. Queued(incoming'[w], got'[w].in, sent'[w].in)
      BY <1>2, <1>5, <1>7
    <3>2. Queued(outgoing'[w], got'[w].out, sent'[w].out)
      BY <1>2, <2>0 DEF Mail
    <3> QED  BY <3>1, <3>2 DEF Mail
  <2>2. \A v \in Worker : v # w => Mail(v)'
    BY <1>8 DEF Sound, MessagesInOrder, Mail, Queued
  <2> QED  BY <2>1, <2>2 DEF MessagesInOrder
<1> QED  BY <1>2, <1>7, <1>9, <1>10

(* A message that a worker that has a runtime posts.                         *)
LEMMA PostedOutside ==
  ASSUME Sound, NEW w \in Worker, child[w],
         UNCHANGED workers, UNCHANGED started, UNCHANGED child, UNCHANGED port, UNCHANGED jobs,
         UNCHANGED timers, UNCHANGED got, UNCHANGED incoming,
         sent' = [sent EXCEPT ![w].out = @ + 1],
         outgoing' = [outgoing EXCEPT ![w] = Append(@, sent'[w].out)]
  PROVE  /\ sent' \in [Worker -> Count] /\ outgoing' \in [Worker -> Seq(Nat)]
         /\ (\A v \in Worker : Life(v)') /\ MessagesInOrder'
<1>1. /\ sent \in [Worker -> Count] /\ got \in [Worker -> Count]
      /\ outgoing \in [Worker -> Seq(Nat)] /\ Life(w)
  BY DEF Sound, TypeOK
<1>2. /\ sent[w].out \in Nat /\ got[w].out \in Nat
      /\ sent'[w].out = sent[w].out + 1 /\ sent'[w].in = sent[w].in /\ sent' \in [Worker -> Count]
  <2> DEFINE c == [sent[w] EXCEPT !.out = @ + 1]
  <2>1. sent[w] \in Count /\ got[w] \in Count /\ sent' = [sent EXCEPT ![w] = c]
    BY <1>1
  <2>2. /\ sent[w].out \in Nat /\ got[w].out \in Nat /\ c \in Count
        /\ c.out = sent[w].out + 1 /\ c.in = sent[w].in
    BY SMT, <2>1 DEF Count
  <2> HIDE DEF c
  <2>3. sent'[w] = c /\ sent' \in [Worker -> Count]
    BY <1>1, <2>1, <2>2
  <2> QED  BY <2>2, <2>3
<1>3. got[w].out <= sent[w].out /\ got[w].out <= sent[w].out + 1
  BY SMT, <1>1, <1>2 DEF Life
<1>4. Queued(outgoing[w], got[w].out, sent[w].out) /\ outgoing[w] \in Seq(Nat)
  BY <1>1 DEF Sound, MessagesInOrder, Mail
<1>5. /\ Queued(Append(outgoing[w], sent[w].out + 1), got[w].out, sent[w].out + 1)
      /\ Append(outgoing[w], sent[w].out + 1) \in Seq(Nat)
  BY <1>2, <1>3, <1>4, QueueAppend
<1>6. outgoing' = [outgoing EXCEPT ![w] = Append(outgoing[w], sent[w].out + 1)]
  BY <1>2
<1>7. outgoing' \in [Worker -> Seq(Nat)] /\ outgoing'[w] = Append(outgoing[w], sent[w].out + 1)
  BY <1>1, <1>5, <1>6
<1>8. \A v \in Worker : v # w => sent'[v] = sent[v] /\ outgoing'[v] = outgoing[v]
  BY <1>1, <1>6
<1>9. \A v \in Worker : Life(v)'
  <2> TAKE v \in Worker
  <2>1. Life(v)
    BY DEF Sound
  <2>2. CASE v = w
    BY <2>1, <2>2, <1>2, <1>3 DEF Life, Listed
  <2>3. CASE v # w
    BY <2>1, <2>3, <1>8 DEF Life, Listed
  <2> QED  BY <2>2, <2>3
<1>10. MessagesInOrder'
  <2>0. Mail(w)
    BY DEF Sound, MessagesInOrder
  <2>1. Mail(w)'
    <3>1. Queued(outgoing'[w], got'[w].out, sent'[w].out)
      BY <1>2, <1>5, <1>7
    <3>2. Queued(incoming'[w], got'[w].in, sent'[w].in)
      BY <1>2, <2>0 DEF Mail
    <3> QED  BY <3>1, <3>2 DEF Mail
  <2>2. \A v \in Worker : v # w => Mail(v)'
    BY <1>8 DEF Sound, MessagesInOrder, Mail, Queued
  <2> QED  BY <2>1, <2>2 DEF MessagesInOrder
<1> QED  BY <1>2, <1>7, <1>9, <1>10

(* postMessage: a worker that posts has a port, and so a runtime.            *)
LEMMA PostMessageSound ==
  ASSUME Sound, NEW w \in Worker, PostMessage(w)
  PROVE  Sound'
<1>1. ops \in Nat /\ ops' = ops + 1
  BY DEF Sound, TypeOK, PostMessage, Program
<1>2. ops' \in Nat
  BY SMT, <1>1
<1>3. RunsAlive'
  BY DEF Sound, RunsAlive, PostMessage, Program, Call, workerVars
<1>4. CASE /\ child[w] /\ UNCHANGED outgoing
           /\ sent' = [sent EXCEPT ![w].in = @ + 1]
           /\ incoming' = [incoming EXCEPT ![w] = Append(@, sent'[w].in)]
  <2>1. /\ sent' \in [Worker -> Count] /\ incoming' \in [Worker -> Seq(Nat)]
        /\ (\A v \in Worker : Life(v)') /\ MessagesInOrder'
    BY <1>4, PostedInside DEF PostMessage, workerVars
  <2>2. TypeOK'
    BY <2>1, <1>2, <1>4 DEF Sound, TypeOK, PostMessage, Call, workerVars
  <2> QED  BY <2>1, <2>2, <1>3 DEF Sound
<1>5. CASE /\ rt = w /\ port[w] \in {"null", "fn"} /\ UNCHANGED incoming
           /\ sent' = [sent EXCEPT ![w].out = @ + 1]
           /\ outgoing' = [outgoing EXCEPT ![w] = Append(@, sent'[w].out)]
  <2>0. child[w]
    BY <1>5 DEF Sound, Life
  <2>1. /\ sent' \in [Worker -> Count] /\ outgoing' \in [Worker -> Seq(Nat)]
        /\ (\A v \in Worker : Life(v)') /\ MessagesInOrder'
    BY <1>5, <2>0, PostedOutside DEF PostMessage, workerVars
  <2>2. TypeOK'
    BY <2>1, <1>2, <1>5 DEF Sound, TypeOK, PostMessage, Call, workerVars
  <2> QED  BY <2>1, <2>2, <1>3 DEF Sound
<1> QED  BY <1>4, <1>5 DEF PostMessage

(* Worker.parent: made when a worker imports qjs:os, gone when it deletes it. *)
LEMMA PortSound ==
  ASSUME Sound, ImportOs \/ DropPort
  PROVE  Sound'
<1>1. /\ ops \in Nat /\ ops' = ops + 1 /\ pc = "js" /\ rt # Main
      /\ port \in [Worker -> {"none", "null", "fn", "gone"}]
      /\ port' = [port EXCEPT ![rt] = "null"] \/ port' = [port EXCEPT ![rt] = "gone"]
  BY DEF Sound, TypeOK, ImportOs, DropPort, Program
<1>2. rt \in Worker /\ child[rt]
  BY <1>1, Running
<1>3. ops' \in Nat /\ port' \in [Worker -> {"none", "null", "fn", "gone"}]
  BY SMT, <1>1
<1>4. \A w \in Worker : ~child[w] => UNCHANGED port[w]
  BY <1>1, <1>2
<1>5. TypeOK'
  BY <1>3 DEF Sound, TypeOK, ImportOs, DropPort, Call, queueVars
<1>6. \A w \in Worker : Life(w)'
  BY <1>4, LifeKept DEF Sound, ImportOs, DropPort, queueVars
<1>7. MessagesInOrder'
  BY MessagesKept DEF Sound, ImportOs, DropPort, queueVars
<1>8. RunsAlive'
  BY DEF Sound, RunsAlive, ImportOs, DropPort, Program, Call
<1> QED  BY <1>5, <1>6, <1>7, <1>8 DEF Sound

(* The promise of a worker's module settles.                                 *)
LEMMA SettleSound ==
  ASSUME Sound, NEW outcome \in {"fulfilled", "rejected"}, Settle(outcome)
  PROVE  Sound'
<1>1. promise' \in [Worker -> {"pending", "fulfilled", "rejected"}]
  BY DEF Sound, TypeOK, Settle
<1>2. TypeOK'
  BY <1>1 DEF Sound, TypeOK, Settle, queueVars, loopVars
<1>3. \A w \in Worker : Life(w)'
  BY LifeKept DEF Sound, Settle, queueVars
<1>4. MessagesInOrder'
  BY MessagesKept DEF Sound, Settle, queueVars
<1>5. RunsAlive'
  BY DEF Sound, RunsAlive, Settle, loopVars
<1> QED  BY <1>2, <1>3, <1>4, <1>5 DEF Sound

(* setReadHandler and setWriteHandler.                                       *)
LEMMA SetHandlerSound ==
  ASSUME Sound, NEW fd \in Fd, NEW d \in {"read", "write"}, NEW fn \in BOOLEAN,
         SetHandler(fd, d, fn)
  PROVE  Sound'
<1> DEFINE Handler == [fd : Fd, funcs : SUBSET {"read", "write"}]
<1>1. rw \in Seq(Handler) /\ ops \in Nat /\ ops' = ops + 1
  BY DEF Sound, TypeOK, SetHandler, Program
<1>2. rw' \in Seq(Handler)
  <2>1. CASE rw' = Append(rw, [fd |-> fd, funcs |-> {d}])
    <3>1. [fd |-> fd, funcs |-> {d}] \in Handler
      OBVIOUS
    <3> QED  BY SMT, <1>1, <2>1, <3>1
  <2>2. ASSUME NEW i \in DOMAIN rw, NEW left \in {rw[i].funcs \cup {d}, rw[i].funcs \ {d}},
               rw' = IF left = {} THEN Without(rw, i) ELSE [rw EXCEPT ![i].funcs = left]
        PROVE  rw' \in Seq(Handler)
    <3>1. rw[i] \in Handler
      BY <1>1, Element
    <3>2. [rw[i] EXCEPT !.funcs = left] \in Handler
      BY <3>1
    <3>3. Without(rw, i) \in Seq(Handler)
      BY <1>1, WithoutList
    <3>4. [rw EXCEPT ![i] = [rw[i] EXCEPT !.funcs = left]] \in Seq(Handler)
      BY SMT, <1>1, <3>2
    <3> QED  BY <2>2, <3>3, <3>4
  <2> QED  BY <2>1, <2>2 DEF SetHandler, Handlers
<1>3. ops' \in Nat
  BY SMT, <1>1
<1>4. TypeOK'
  BY <1>2, <1>3 DEF Sound, TypeOK, SetHandler, Call, workerVars, queueVars
<1>5. \A w \in Worker : Life(w)'
  BY LifeKept DEF Sound, SetHandler, workerVars, queueVars
<1>6. MessagesInOrder'
  BY MessagesKept DEF Sound, SetHandler, workerVars, queueVars
<1>7. RunsAlive'
  BY DEF Sound, RunsAlive, SetHandler, Program, Call, workerVars
<1> QED  BY <1>4, <1>5, <1>6, <1>7 DEF Sound

(* Stopping workers (goc_qjs_cli_stop_worker) leaves the others as they are. *)
LEMMA StoppedTypes ==
  ASSUME TypeOK, NEW S, Stopped(S)
  PROVE  /\ child' \in [Worker -> BOOLEAN] /\ port' \in [Worker -> {"none", "null", "fn", "gone"}]
         /\ module' \in [Worker -> {"none", "pending", "loaded"}]
         /\ incoming' \in [Worker -> Seq(Nat)] /\ outgoing' \in [Worker -> Seq(Nat)]
         /\ \A w \in Worker :
              IF w \in S
              THEN ~child'[w] /\ port'[w] = "none" /\ incoming'[w] = <<>> /\ outgoing'[w] = <<>>
              ELSE /\ child'[w] = child[w] /\ port'[w] = port[w]
                   /\ incoming'[w] = incoming[w] /\ outgoing'[w] = outgoing[w]
<1>1. <<>> \in Seq(Nat)
  BY SMT
<1>2. /\ child' \in [Worker -> BOOLEAN] /\ port' \in [Worker -> {"none", "null", "fn", "gone"}]
      /\ module' \in [Worker -> {"none", "pending", "loaded"}]
  BY DEF TypeOK, Stopped
<1>3. incoming' \in [Worker -> Seq(Nat)] /\ outgoing' \in [Worker -> Seq(Nat)]
  BY <1>1 DEF TypeOK, Stopped
<1>4. \A w \in Worker :
        IF w \in S
        THEN ~child'[w] /\ port'[w] = "none" /\ incoming'[w] = <<>> /\ outgoing'[w] = <<>>
        ELSE /\ child'[w] = child[w] /\ port'[w] = port[w]
             /\ incoming'[w] = incoming[w] /\ outgoing'[w] = outgoing[w]
  BY DEF TypeOK, Stopped
<1> QED  BY <1>2, <1>3, <1>4

(* The finalizer of a Worker object.                                         *)
LEMMA DropWorkerSound ==
  ASSUME Sound, NEW w \in Worker, DropWorker(w)
  PROVE  Sound'
<1>1. PICK i \in DOMAIN workers : workers[i] = w /\ workers' = Without(workers, i)
  BY DEF DropWorker
<1>2. /\ workers \in Seq(Worker) /\ \A j, k \in DOMAIN workers : workers[j] = workers[k] => j = k
      /\ ops \in Nat /\ ops' = ops + 1 /\ started \in [Worker -> BOOLEAN]
      /\ onmessage \in [Worker -> BOOLEAN] /\ timers \in [Runtime -> Seq(Timer)]
      /\ jobs \in [Runtime -> Nat] /\ TypeOK
  BY DEF Sound, TypeOK, DropWorker, Program
<1>3. /\ workers' \in Seq(Worker)
      /\ \A j, k \in DOMAIN workers' : workers'[j] = workers'[k] => j = k
      /\ \A k \in DOMAIN workers : k # i => \E j \in DOMAIN workers' : workers'[j] = workers[k]
  <2>1. Without(workers, i) \in Seq(Worker)
    BY <1>2, WithoutList
  <2>2. /\ \A j, k \in DOMAIN Without(workers, i) :
             Without(workers, i)[j] = Without(workers, i)[k] => j = k
        /\ \A k \in DOMAIN workers :
             k # i => \E j \in DOMAIN Without(workers, i) : Without(workers, i)[j] = workers[k]
    BY <1>2, WithoutWorker
  <2> QED  BY <1>1, <2>1, <2>2
<1>4. \A v \in Listed : v # w => v \in Listed'
  <2> SUFFICES ASSUME NEW k \in DOMAIN workers, workers[k] # w  PROVE workers[k] \in Listed'
    BY DEF Listed
  <2>1. \E j \in DOMAIN workers' : workers'[j] = workers[k]
    BY <1>1, <1>3
  <2> QED  BY <2>1 DEF Listed
<1>5. /\ child' \in [Worker -> BOOLEAN] /\ port' \in [Worker -> {"none", "null", "fn", "gone"}]
      /\ module' \in [Worker -> {"none", "pending", "loaded"}]
      /\ incoming' \in [Worker -> Seq(Nat)] /\ outgoing' \in [Worker -> Seq(Nat)]
  BY <1>2, StoppedTypes DEF DropWorker
<1>6. \A v \in Worker :
        IF v = w
        THEN ~child'[v] /\ port'[v] = "none" /\ incoming'[v] = <<>> /\ outgoing'[v] = <<>>
        ELSE /\ child'[v] = child[v] /\ port'[v] = port[v]
             /\ incoming'[v] = incoming[v] /\ outgoing'[v] = outgoing[v]
  <2>1. \A v \in Worker :
          IF v \in {w}
          THEN ~child'[v] /\ port'[v] = "none" /\ incoming'[v] = <<>> /\ outgoing'[v] = <<>>
          ELSE /\ child'[v] = child[v] /\ port'[v] = port[v]
               /\ incoming'[v] = incoming[v] /\ outgoing'[v] = outgoing[v]
    BY <1>2, StoppedTypes DEF DropWorker
  <2> QED  BY <2>1
<1>7. /\ started' = [started EXCEPT ![w] = TRUE] /\ onmessage' = [onmessage EXCEPT ![w] = FALSE]
      /\ timers' = [r \in Runtime |-> IF r \in {w} THEN <<>> ELSE timers[r]]
      /\ jobs' = [jobs EXCEPT ![w] = 0]
  BY DEF DropWorker, Emptied
<1>8. /\ started' \in [Worker -> BOOLEAN] /\ onmessage' \in [Worker -> BOOLEAN]
      /\ timers' \in [Runtime -> Seq(Timer)] /\ jobs' \in [Runtime -> Nat] /\ ops' \in Nat
  <2>1. <<>> \in Seq(Timer) /\ 0 \in Nat
    BY SMT
  <2>2. timers' \in [Runtime -> Seq(Timer)] /\ jobs' \in [Runtime -> Nat]
    BY <1>2, <1>7, <2>1
  <2>3. started' \in [Worker -> BOOLEAN] /\ onmessage' \in [Worker -> BOOLEAN]
    BY <1>2, <1>7
  <2> QED  BY SMT, <1>2, <2>2, <2>3
<1>9. TypeOK'
  BY <1>3, <1>5, <1>8 DEF Sound, TypeOK, DropWorker, Call
<1>10. \A v \in Worker : Life(v)'
  <2> TAKE v \in Worker
  <2>1. Life(v) /\ v \in Runtime
    BY DEF Sound, Runtime
  <2>2. CASE v = w
    <3>1. started'[w] /\ timers'[w] = <<>> /\ jobs'[w] = 0
      BY <1>2, <1>7, <2>1, <2>2
    <3> QED  BY <3>1, <2>2, <1>6 DEF Life
  <2>3. CASE v # w
    <3>1. started'[v] = started[v] /\ timers'[v] = timers[v] /\ jobs'[v] = jobs[v]
      BY <1>2, <1>7, <2>1, <2>3
    <3> QED  BY <2>1, <3>1, <2>3, <1>4, <1>6 DEF Life, DropWorker
  <2> QED  BY <2>2, <2>3
<1>11. MessagesInOrder'
  <2> SUFFICES ASSUME NEW v \in Worker  PROVE Mail(v)'
    BY DEF MessagesInOrder
  <2>1. Mail(v) /\ UNCHANGED sent /\ UNCHANGED got
    BY DEF Sound, MessagesInOrder, DropWorker
  <2>2. CASE v = w
    BY <1>6, <2>2 DEF Mail
  <2>3. CASE v # w
    BY <1>6, <2>1, <2>3 DEF Mail, Queued
  <2> QED  BY <2>2, <2>3
<1>12. RunsAlive'
  BY TimeAssumption DEF RunsAlive, DropWorker, Program, Call
<1> QED  BY <1>9, <1>10, <1>11, <1>12 DEF Sound

-----------------------------------------------------------------------------
(* The parts of the loop.                                                    *)

(* A step that only moves the loop, or the clock.                            *)
LEMMA LoopMoves ==
  ASSUME Sound, UNCHANGED <<workerVars, queueVars, timers, rw, jobs, ops>>,
         now' \in 0 .. MaxTime, at' \in Nat, rt' \in Runtime, wake' \in {Never} \cup Nat,
         pc' \in {"js", "jobs", "timer", "parent", "workers", "runjobs", "poll", "sleep", "exit",
                 "failed", "done"},
         RunsAlive'
  PROVE  Sound'
<1>1. TypeOK'
  BY DEF Sound, TypeOK, workerVars, queueVars
<1>2. \A w \in Worker : Life(w)'
  BY LifeKept DEF Sound, workerVars, queueVars
<1>3. MessagesInOrder'
  BY MessagesKept DEF Sound, workerVars, queueVars
<1> QED  BY <1>1, <1>2, <1>3 DEF Sound

(* A timer that fires: it leaves the list, or is set again, and the timers   *)
(* of other runtimes stay (goc_qjs_cli_run_due_timer).                       *)
LEMMA TimerTaken ==
  ASSUME TypeOK, NEW r \in Runtime, TakeTimer(r)
  PROVE  /\ timers' \in [Runtime -> Seq(Timer)]
         /\ \A q \in Runtime : q # r => timers'[q] = timers[q]
         /\ \E i \in DOMAIN timers[r] :
              /\ Selected(r, i)
              /\ \/ timers'[r] = Without(timers[r], i)
                 \/ /\ timers'[r] = [timers[r] EXCEPT ![i] = timers'[r][i]]
                    /\ timers'[r][i].deadline > now
<1>1. PICK i \in DOMAIN timers[r] :
        Selected(r, i) /\ timers' = [timers EXCEPT ![r] = After(timers[r], i)]
  BY DEF TakeTimer
<1>2. timers \in [Runtime -> Seq(Timer)] /\ timers[r] \in Seq(Timer) /\ now \in 0 .. MaxTime
  BY DEF TypeOK
<1>3. timers[r][i] \in Timer
  BY <1>2, Element
<1> DEFINE list == timers[r]
           again == [list[i] EXCEPT !.deadline = Deadline(list[i].delay)]
<1>4. Deadline(list[i].delay) \in 1 .. Forever /\ Deadline(list[i].delay) > now
  <2>1. list[i].delay \in 1 .. Forever
    BY <1>3 DEF Timer
  <2> QED  BY <2>1, <1>2, DeadlineLater
<1>5. again \in Timer /\ again.deadline > now
  BY <1>3, <1>4 DEF Timer
<1>6. Without(list, i) \in Seq(Timer)
  BY <1>2, WithoutList
<1>7. After(list, i) = Without(list, i) \/ After(list, i) = [list EXCEPT ![i] = again]
  BY DEF After
<1> HIDE DEF again
<1>8. [list EXCEPT ![i] = again] \in Seq(Timer) /\ [list EXCEPT ![i] = again][i] = again
  BY SMT, <1>2, <1>5
<1>9. After(list, i) \in Seq(Timer)
  BY <1>6, <1>7, <1>8
<1>10. /\ timers' \in [Runtime -> Seq(Timer)] /\ timers'[r] = After(list, i)
       /\ \A q \in Runtime : q # r => timers'[q] = timers[q]
  BY <1>1, <1>2, <1>9
<1>11. \/ timers'[r] = Without(timers[r], i)
       \/ /\ timers'[r] = [timers[r] EXCEPT ![i] = timers'[r][i]]
          /\ timers'[r][i].deadline > now
  BY <1>5, <1>7, <1>8, <1>10
<1> QED  BY <1>1, <1>10, <1>11

(* Return, and an exception.                                                 *)
LEMMA ReturnSound ==
  ASSUME Sound, Return \/ Throw
  PROVE  Sound' /\ pc' \in {"jobs", "runjobs", "failed"}
<1>1. rt \in Runtime /\ (rt = Main \/ (rt \in Worker /\ rt # Main /\ child[rt]))
  BY Running DEF Return, Throw
<1>2. pc' \in {"jobs", "runjobs", "failed"} /\ (pc' = "runjobs" => rt # Main)
      /\ UNCHANGED child /\ UNCHANGED rt
  BY DEF Return, Throw, workerVars
<1>3. RunsAlive'
  BY <1>1, <1>2 DEF RunsAlive
<1>4. Sound'
  BY <1>2, <1>3, LoopMoves DEF Sound, TypeOK, Return, Throw
<1> QED  BY <1>2, <1>4

(* Main's jobs.                                                              *)
LEMMA MainJobSound ==
  ASSUME Sound, MainJob
  PROVE  Sound' /\ (pc' = "js" \/ (pc' = "timer" /\ jobs'[Main] = 0))
<1>1. jobs \in [Runtime -> Nat] /\ Main \in Runtime /\ rt \in Runtime
  BY DEF Sound, TypeOK, Runtime
<1>2. jobs' \in [Runtime -> Nat] /\ rt' \in Runtime
  <2>1. CASE jobs[Main] > 0 /\ jobs' = [jobs EXCEPT ![Main] = @ - 1] /\ Enter(Main)
    <3>1. jobs[Main] - 1 \in Nat
      BY SMT, <1>1, <2>1
    <3> QED  BY <1>1, <2>1, <3>1 DEF Enter
  <2>2. CASE UNCHANGED <<jobs, rt>>
    BY <1>1, <2>2
  <2> QED  BY <2>1, <2>2 DEF MainJob
<1>3. \A w \in Worker : UNCHANGED jobs[w]
  BY <1>1, TimeAssumption DEF MainJob, Runtime
<1>4. (pc' = "js" /\ rt' = Main) \/ (pc' = "timer" /\ jobs'[Main] = 0)
  BY <1>1 DEF MainJob, Enter
<1>5. TypeOK'
  BY <1>2, <1>4 DEF Sound, TypeOK, MainJob, workerVars, queueVars
<1>6. \A w \in Worker : Life(w)'
  BY <1>3, LifeKept DEF Sound, MainJob, workerVars, queueVars
<1>7. MessagesInOrder'
  BY MessagesKept DEF Sound, MainJob, workerVars, queueVars
<1>8. RunsAlive'
  BY <1>4 DEF RunsAlive
<1> QED  BY <1>4, <1>5, <1>6, <1>7, <1>8 DEF Sound

(* Main's timers.                                                            *)
LEMMA MainTimerSound ==
  ASSUME Sound, MainTimer
  PROVE  Sound' /\ UNCHANGED jobs /\ pc' \in {"js", "parent"}
<1>1. Main \in Runtime /\ rt \in Runtime /\ TypeOK
  BY DEF Sound, TypeOK, Runtime
<1>2. timers' \in [Runtime -> Seq(Timer)] /\ \A q \in Runtime : q # Main => timers'[q] = timers[q]
  <2>1. CASE TakeTimer(Main)
    BY <1>1, <2>1, TimerTaken
  <2>2. CASE UNCHANGED timers
    BY <2>2 DEF Sound, TypeOK
  <2> QED  BY <2>1, <2>2 DEF MainTimer
<1>3. \A w \in Worker : UNCHANGED timers[w]
  BY <1>2, TimeAssumption DEF Runtime
<1>4. (pc' = "js" /\ rt' = Main) \/ (pc' = "parent" /\ rt' = rt)
  BY DEF MainTimer, Enter
<1>5. TypeOK'
  BY <1>1, <1>2, <1>4 DEF Sound, TypeOK, MainTimer, workerVars, queueVars
<1>6. \A w \in Worker : Life(w)'
  BY <1>3, LifeKept DEF Sound, MainTimer, workerVars, queueVars
<1>7. MessagesInOrder'
  BY MessagesKept DEF Sound, MainTimer, workerVars, queueVars
<1>8. RunsAlive'
  BY <1>4 DEF RunsAlive
<1> QED  BY <1>4, <1>5, <1>6, <1>7, <1>8 DEF Sound, MainTimer

(* The first message of a worker's queue to Main is received.                *)
LEMMA ReceivedOutside ==
  ASSUME Sound, NEW w \in Worker, outgoing[w] # <<>>,
         UNCHANGED workers, UNCHANGED started, UNCHANGED child, UNCHANGED port, UNCHANGED jobs,
         UNCHANGED timers, UNCHANGED sent, UNCHANGED incoming,
         outgoing' = [outgoing EXCEPT ![w] = Tail(@)],
         got' = [got EXCEPT ![w].out = Head(outgoing[w])]
  PROVE  /\ got' \in [Worker -> Count] /\ outgoing' \in [Worker -> Seq(Nat)]
         /\ (\A v \in Worker : Life(v)') /\ MessagesInOrder'
<1>1. /\ sent \in [Worker -> Count] /\ got \in [Worker -> Count]
      /\ outgoing \in [Worker -> Seq(Nat)] /\ Life(w) /\ Mail(w)
  BY DEF Sound, TypeOK, MessagesInOrder
<1>2. child[w] /\ Queued(outgoing[w], got[w].out, sent[w].out) /\ outgoing[w] \in Seq(Nat)
  BY <1>1 DEF Mail
<1>3. /\ sent[w] \in Count /\ got[w] \in Count /\ got[w].out <= sent[w].out
      /\ sent[w].out \in Nat /\ got[w].out \in Nat
  BY <1>1, <1>2 DEF Count, Life
<1>4. /\ Head(outgoing[w]) = got[w].out + 1 /\ got[w].out + 1 <= sent[w].out
      /\ Queued(Tail(outgoing[w]), got[w].out + 1, sent[w].out)
      /\ Tail(outgoing[w]) \in Seq(Nat)
  BY <1>2, <1>3, QueuePop
<1> DEFINE c == [got[w] EXCEPT !.out = got[w].out + 1]
<1>5. c \in Count /\ c.out = got[w].out + 1 /\ c.in = got[w].in
  BY SMT, <1>3 DEF Count
<1>6. got' = [got EXCEPT ![w] = c]
  BY <1>4
<1> HIDE DEF c
<1>7. got' \in [Worker -> Count] /\ got'[w] = c
  BY <1>1, <1>5, <1>6
<1>8. outgoing' \in [Worker -> Seq(Nat)] /\ outgoing'[w] = Tail(outgoing[w])
  BY <1>1, <1>4
<1>9. \A v \in Worker : v # w => got'[v] = got[v] /\ outgoing'[v] = outgoing[v]
  BY <1>1, <1>6
<1>10. \A v \in Worker : Life(v)'
  <2> TAKE v \in Worker
  <2>1. Life(v)
    BY DEF Sound
  <2>2. CASE v = w
    BY <2>1, <2>2, <1>2, <1>4, <1>5, <1>7 DEF Life, Listed
  <2>3. CASE v # w
    BY <2>1, <2>3, <1>9 DEF Life, Listed
  <2> QED  BY <2>2, <2>3
<1>11. MessagesInOrder'
  <2>1. Mail(w)'
    <3>1. Queued(outgoing'[w], got'[w].out, sent'[w].out)
      BY <1>4, <1>5, <1>7, <1>8
    <3>2. Queued(incoming'[w], got'[w].in, sent'[w].in)
      BY <1>1, <1>2, <1>5, <1>7 DEF Mail
    <3> QED  BY <1>2, <3>1, <3>2 DEF Mail
  <2>2. \A v \in Worker : v # w => Mail(v)'
    BY <1>9 DEF Sound, MessagesInOrder, Mail, Queued
  <2> QED  BY <2>1, <2>2 DEF MessagesInOrder
<1> QED  BY <1>7, <1>8, <1>10, <1>11

(* The first message of Main's queue to a worker is received.                *)
LEMMA ReceivedInside ==
  ASSUME Sound, NEW w \in Worker, incoming[w] # <<>>,
         UNCHANGED workers, UNCHANGED started, UNCHANGED child, UNCHANGED port, UNCHANGED jobs,
         UNCHANGED timers, UNCHANGED sent, UNCHANGED outgoing,
         incoming' = [incoming EXCEPT ![w] = Tail(@)],
         got' = [got EXCEPT ![w].in = Head(incoming[w])]
  PROVE  /\ got' \in [Worker -> Count] /\ incoming' \in [Worker -> Seq(Nat)]
         /\ (\A v \in Worker : Life(v)') /\ MessagesInOrder'
<1>1. /\ sent \in [Worker -> Count] /\ got \in [Worker -> Count]
      /\ incoming \in [Worker -> Seq(Nat)] /\ Life(w) /\ Mail(w)
  BY DEF Sound, TypeOK, MessagesInOrder
<1>2. child[w] /\ Queued(incoming[w], got[w].in, sent[w].in) /\ incoming[w] \in Seq(Nat)
  BY <1>1 DEF Mail
<1>3. /\ sent[w] \in Count /\ got[w] \in Count /\ got[w].in <= sent[w].in
      /\ sent[w].in \in Nat /\ got[w].in \in Nat
  BY <1>1, <1>2 DEF Count, Life
<1>4. /\ Head(incoming[w]) = got[w].in + 1 /\ got[w].in + 1 <= sent[w].in
      /\ Queued(Tail(incoming[w]), got[w].in + 1, sent[w].in)
      /\ Tail(incoming[w]) \in Seq(Nat)
  BY <1>2, <1>3, QueuePop
<1> DEFINE c == [got[w] EXCEPT !.in = got[w].in + 1]
<1>5. c \in Count /\ c.in = got[w].in + 1 /\ c.out = got[w].out
  BY SMT, <1>3 DEF Count
<1>6. got' = [got EXCEPT ![w] = c]
  BY <1>4
<1> HIDE DEF c
<1>7. got' \in [Worker -> Count] /\ got'[w] = c
  BY <1>1, <1>5, <1>6
<1>8. incoming' \in [Worker -> Seq(Nat)] /\ incoming'[w] = Tail(incoming[w])
  BY <1>1, <1>4
<1>9. \A v \in Worker : v # w => got'[v] = got[v] /\ incoming'[v] = incoming[v]
  BY <1>1, <1>6
<1>10. \A v \in Worker : Life(v)'
  <2> TAKE v \in Worker
  <2>1. Life(v)
    BY DEF Sound
  <2>2. CASE v = w
    BY <2>1, <2>2, <1>2, <1>4, <1>5, <1>7 DEF Life, Listed
  <2>3. CASE v # w
    BY SMT, <2>1, <2>3, <1>9 DEF Life, Listed
  <2> QED  BY <2>2, <2>3
<1>11. MessagesInOrder'
  <2>1. Mail(w)'
    <3>1. Queued(incoming'[w], got'[w].in, sent'[w].in)
      BY <1>4, <1>5, <1>7, <1>8
    <3>2. Queued(outgoing'[w], got'[w].out, sent'[w].out)
      BY <1>1, <1>2, <1>5, <1>7 DEF Mail
    <3> QED  BY <1>2, <3>1, <3>2 DEF Mail
  <2>2. \A v \in Worker : v # w => Mail(v)'
    BY <1>9 DEF Sound, MessagesInOrder, Mail, Queued
  <2> QED  BY <2>1, <2>2 DEF MessagesInOrder
<1> QED  BY <1>7, <1>8, <1>10, <1>11

(* Messages to Main.  When no worker has one, the scan of the workers        *)
(* begins.                                                                   *)
LEMMA MainMessageSound ==
  ASSUME Sound, MainMessage
  PROVE  /\ Sound' /\ UNCHANGED jobs
         /\ \/ pc' = "js"
            \/ pc' = "workers" /\ at' = 1 /\ \A w \in Listed' : ~ToMain(w)'
<1>1. CASE /\ \E i \in DOMAIN workers :
                LET w == workers[i]
                IN /\ ToMain(w) /\ \A j \in 1 .. i - 1 : ~ToMain(workers[j])
                   /\ outgoing' = [outgoing EXCEPT ![w] = Pop(@)]
                   /\ got' = [got EXCEPT ![w].out = Head(outgoing[w])]
           /\ Enter(Main) /\ UNCHANGED at
  <2>1. PICK i \in DOMAIN workers :
          /\ ToMain(workers[i])
          /\ outgoing' = [outgoing EXCEPT ![workers[i]] = Pop(@)]
          /\ got' = [got EXCEPT ![workers[i]].out = Head(outgoing[workers[i]])]
    BY <1>1
  <2>2. workers[i] \in Worker
    BY Element DEF Sound, TypeOK
  <2>3. PICK w \in Worker :
          /\ outgoing[w] # <<>> /\ outgoing' = [outgoing EXCEPT ![w] = Tail(@)]
          /\ got' = [got EXCEPT ![w].out = Head(outgoing[w])]
    BY <2>1, <2>2 DEF ToMain, Pop
  <2>4. /\ got' \in [Worker -> Count] /\ outgoing' \in [Worker -> Seq(Nat)]
        /\ (\A v \in Worker : Life(v)') /\ MessagesInOrder'
    BY <2>3, ReceivedOutside DEF MainMessage, workerVars
  <2>5. pc' = "js" /\ rt' = Main /\ Main \in Runtime
    BY <1>1 DEF Enter, Runtime
  <2>6. TypeOK'
    BY <1>1, <2>4, <2>5 DEF Sound, TypeOK, MainMessage, workerVars
  <2>7. RunsAlive'
    BY <2>5 DEF RunsAlive
  <2> QED  BY <2>4, <2>5, <2>6, <2>7 DEF Sound, MainMessage
<1>2. CASE /\ \A w \in Listed : ~ToMain(w)
           /\ pc' = "workers" /\ at' = 1 /\ UNCHANGED <<outgoing, got, rt>>
  <2>1. RunsAlive'
    BY <1>2 DEF RunsAlive
  <2>2. 1 \in Nat
    OBVIOUS
  <2>3. Sound'
    BY <1>2, <2>1, <2>2, LoopMoves DEF Sound, TypeOK, MainMessage, workerVars, queueVars
  <2> QED  BY <1>2, <2>3 DEF MainMessage, workerVars, ToMain, Listed
<1> QED  BY <1>1, <1>2 DEF MainMessage

(* A worker is started: its runtime exists from now on, with no message.     *)
LEMMA StartWorkerSound ==
  ASSUME Sound, WorkerTurn, NEW w \in Listed, w \in Worker, StartWorker(w), at' = 0
  PROVE  Sound' /\ pc' \in {"js", "failed"}
<1>1. /\ started \in [Worker -> BOOLEAN] /\ child \in [Worker -> BOOLEAN] /\ rt \in Runtime
      /\ module \in [Worker -> {"none", "pending", "loaded"}] /\ w \in Runtime
      /\ sent \in [Worker -> Count] /\ got \in [Worker -> Count]
  BY DEF Sound, TypeOK, Runtime
<1>2. /\ started' = [started EXCEPT ![w] = TRUE]
      /\ \/ /\ child' = [child EXCEPT ![w] = TRUE] /\ module' = [module EXCEPT ![w] = "pending"]
            /\ pc' = "js" /\ rt' = w
         \/ pc' = "failed" /\ UNCHANGED <<child, module, rt>>
      /\ UNCHANGED <<timers, incoming, got>>
  BY DEF StartWorker, Enter
<1>3. /\ started' \in [Worker -> BOOLEAN] /\ child' \in [Worker -> BOOLEAN] /\ rt' \in Runtime
      /\ module' \in [Worker -> {"none", "pending", "loaded"}] /\ pc' \in {"js", "failed"}
      /\ 0 \in Nat
  BY <1>1, <1>2
<1>4. TypeOK'
  BY <1>2, <1>3 DEF Sound, TypeOK, WorkerTurn
<1>5. /\ Life(w) /\ Mail(w) /\ ~child[w] /\ got[w] = sent[w] /\ incoming[w] = <<>> /\ outgoing[w] = <<>>
  BY DEF Sound, Life, MessagesInOrder, Mail, StartWorker
<1>6. got[w].in <= sent[w].in /\ got[w].out <= sent[w].out
      /\ Queued(<<>>, got[w].in, sent[w].in) /\ Queued(<<>>, got[w].out, sent[w].out)
  <2>1. got[w].in = sent[w].in /\ got[w].out = sent[w].out /\ sent[w].in \in Nat /\ sent[w].out \in Nat
    BY <1>1, <1>5 DEF Count
  <2>2. \A a \in Nat : a <= a /\ Queued(<<>>, a, a)
    BY SMT DEF Queued
  <2> QED  BY <2>1, <2>2
<1>7. \A v \in Worker : v # w => started'[v] = started[v] /\ child'[v] = child[v]
  BY <1>1, <1>2
<1>8. started'[w]
  BY <1>1, <1>2
<1>9. \A v \in Worker : Life(v)'
  <2> TAKE v \in Worker
  <2>1. Life(v)
    BY DEF Sound
  <2>2. CASE v = w
    <3>1. w \in Listed' /\ got' = got /\ sent' = sent /\ UNCHANGED <<port, jobs, timers>>
      BY <1>2 DEF Listed, WorkerTurn
    <3>2. port'[w] = "none" /\ jobs'[w] = 0 /\ timers'[w] = <<>>
      BY <1>5, <3>1 DEF Life
    <3> QED  BY <2>2, <1>6, <1>8, <3>1, <3>2 DEF Life
  <2>3. CASE v # w
    BY <2>1, <2>3, <1>2, <1>7 DEF Life, Listed, WorkerTurn
  <2> QED  BY <2>2, <2>3
<1>10. MessagesInOrder'
  <2>1. Mail(w)'
    BY <1>2, <1>5, <1>6 DEF Mail, WorkerTurn
  <2>2. \A v \in Worker : v # w => Mail(v)'
    BY <1>2, <1>7 DEF Sound, MessagesInOrder, Mail, Queued, WorkerTurn
  <2> QED  BY <2>1, <2>2 DEF MessagesInOrder
<1>11. RunsAlive'
  <2>1. pc' = "js" => child'[rt']
    BY <1>1, <1>2
  <2> QED  BY <1>3, <2>1 DEF RunsAlive
<1> QED  BY <1>3, <1>4, <1>9, <1>10, <1>11 DEF Sound

(* A worker's turn: its jobs, one timer or one message.                      *)
LEMMA WorkerTurnSound ==
  ASSUME Sound, WorkerTurn, at \in DOMAIN workers
  PROVE  /\ Sound' /\ UNCHANGED <<workers, onmessage, port, outgoing, jobs>>
         /\ \/ pc' \in {"js", "runjobs", "failed"}
            \/ /\ ~Busy(workers[at]) /\ at' = at + 1
               /\ UNCHANGED <<pc, started, child, incoming>>
<1> DEFINE w == workers[at]
<1>1. w \in Worker /\ w \in Listed /\ w \in Runtime /\ w # Main
  <2>1. workers \in Seq(Worker)
    BY DEF Sound, TypeOK
  <2>2. workers[at] \in Worker
    BY <2>1, Element
  <2>3. workers[at] \in Listed
    BY DEF Listed
  <2> QED  BY <2>2, <2>3, TimeAssumption DEF Runtime
<1> HIDE DEF w
<1>2. \/ (StartWorker(w) \/ WorkerJobs(w) \/ WorkerTimer(w) \/ WorkerMessage(w)) /\ at' = 0
      \/ /\ ~Busy(w) /\ at' = at + 1
         /\ UNCHANGED <<pc, rt, started, child, module, timers, incoming, got>>
  BY DEF WorkerTurn, w
<1>3. UNCHANGED <<workers, onmessage, port, outgoing, jobs>> /\ pc = "workers"
  BY DEF WorkerTurn
<1>4. ASSUME StartWorker(w), at' = 0  PROVE Sound' /\ pc' \in {"js", "failed"}
  BY <1>1, <1>4, StartWorkerSound
<1>5. ASSUME WorkerJobs(w), at' = 0  PROVE Sound' /\ pc' = "runjobs"
  <2>1. RunsAlive'
    BY <1>1, <1>5 DEF WorkerJobs, RunsAlive
  <2>2. 0 \in Nat
    OBVIOUS
  <2> QED  BY <1>1, <1>5, <2>1, <2>2, LoopMoves
           DEF Sound, TypeOK, WorkerJobs, WorkerTurn, workerVars, queueVars
<1>6. ASSUME WorkerTimer(w), at' = 0  PROVE Sound' /\ pc' = "js"
  <2>1. child[w] /\ TakeTimer(w) /\ pc' = "js" /\ rt' = w /\ TypeOK /\ 0 \in Nat
        /\ UNCHANGED <<started, child, module, incoming, got>>
    BY <1>6 DEF WorkerTimer, Enter, Sound
  <2>2. timers' \in [Runtime -> Seq(Timer)] /\ \A q \in Runtime : q # w => timers'[q] = timers[q]
    BY <1>1, <2>1, TimerTaken
  <2>3. TypeOK'
    BY <1>1, <1>6, <2>1, <2>2 DEF TypeOK, WorkerTurn
  <2>4. \A v \in Worker : ~child[v] => UNCHANGED timers[v]
    BY <2>1, <2>2 DEF Runtime
  <2>5. \A v \in Worker : Life(v)'
    BY <2>1, <2>4, LifeKept DEF Sound, WorkerTurn
  <2>6. MessagesInOrder'
    BY <2>1, MessagesKept DEF Sound, WorkerTurn
  <2>7. RunsAlive'
    BY <2>1 DEF RunsAlive
  <2> QED  BY <2>1, <2>3, <2>5, <2>6, <2>7 DEF Sound
<1>7. ASSUME WorkerMessage(w), at' = 0  PROVE Sound' /\ pc' = "js"
  <2>1. /\ child[w] /\ incoming[w] # <<>> /\ pc' = "js" /\ rt' = w /\ 0 \in Nat
        /\ incoming' = [incoming EXCEPT ![w] = Tail(@)]
        /\ got' = [got EXCEPT ![w].in = Head(incoming[w])]
        /\ UNCHANGED <<started, child, module, timers>>
    BY <1>7 DEF WorkerMessage, Enter, ToWorker, Pop
  <2>2. /\ got' \in [Worker -> Count] /\ incoming' \in [Worker -> Seq(Nat)]
        /\ (\A v \in Worker : Life(v)') /\ MessagesInOrder'
    BY <1>1, <2>1, ReceivedInside DEF WorkerTurn
  <2>3. TypeOK'
    BY <1>1, <1>7, <2>1, <2>2 DEF Sound, TypeOK, WorkerTurn
  <2>4. RunsAlive'
    BY <2>1 DEF RunsAlive
  <2> QED  BY <2>1, <2>2, <2>3, <2>4 DEF Sound
<1>8. ASSUME ~Busy(w), at' = at + 1,
             UNCHANGED <<pc, rt, started, child, module, timers, incoming, got>>
      PROVE  Sound'
  <2>1. at \in Nat
    BY DEF Sound, TypeOK
  <2>2. at' \in Nat
    BY SMT, <1>8, <2>1
  <2>3. RunsAlive'
    BY <1>8 DEF Sound, RunsAlive
  <2> QED  BY <1>8, <2>2, <2>3, LoopMoves
           DEF Sound, TypeOK, WorkerTurn, workerVars, queueVars
<1> QED  BY <1>2, <1>3, <1>4, <1>5, <1>6, <1>7, <1>8 DEF w

(* A worker's jobs; after the last, Main goes on.                            *)
LEMMA RunJobsSound ==
  ASSUME Sound, RunJobs
  PROVE  Sound' /\ pc' \in {"js", "jobs", "failed"}
<1>1. /\ rt \in Worker /\ child[rt] /\ rt \in Runtime /\ Main \in Runtime
      /\ jobs \in [Runtime -> Nat] /\ module \in [Worker -> {"none", "pending", "loaded"}]
  BY DEF Sound, TypeOK, RunsAlive, RunJobs, Runtime
<1>2. CASE jobs[rt] > 0 /\ jobs' = [jobs EXCEPT ![rt] = @ - 1] /\ pc' = "js" /\ UNCHANGED <<module, rt>>
  <2>1. jobs[rt] - 1 \in Nat
    BY SMT, <1>1, <1>2
  <2>2. jobs' \in [Runtime -> Nat]
    BY <1>1, <1>2, <2>1
  <2>3. \A v \in Worker : ~child[v] => UNCHANGED jobs[v]
    BY <1>1, <1>2 DEF Runtime
  <2>4. TypeOK'
    BY <1>2, <2>2 DEF Sound, TypeOK, RunJobs, queueVars
  <2>5. \A v \in Worker : Life(v)'
    BY <2>3, LifeKept DEF Sound, RunJobs, queueVars
  <2>6. MessagesInOrder'
    BY MessagesKept DEF Sound, RunJobs, queueVars
  <2>7. RunsAlive'
    BY <1>1, <1>2 DEF RunsAlive, RunJobs
  <2> QED  BY <1>2, <2>4, <2>5, <2>6, <2>7 DEF Sound
<1>3. CASE /\ module' = IF module[rt] = "pending" /\ promise[rt] = "fulfilled"
                        THEN [module EXCEPT ![rt] = "loaded"] ELSE module
           /\ pc' \in {"failed", "jobs"} /\ rt' = Main /\ UNCHANGED jobs
  <2>1. module' \in [Worker -> {"none", "pending", "loaded"}]
    BY <1>1, <1>3
  <2>2. TypeOK'
    BY <1>1, <1>3, <2>1 DEF Sound, TypeOK, RunJobs, queueVars
  <2>3. \A v \in Worker : Life(v)'
    BY <1>3, LifeKept DEF Sound, RunJobs, queueVars
  <2>4. MessagesInOrder'
    BY MessagesKept DEF Sound, RunJobs, queueVars
  <2>5. RunsAlive'
    BY <1>3 DEF RunsAlive
  <2> QED  BY <1>3, <2>2, <2>3, <2>4, <2>5 DEF Sound
<1> QED  BY <1>2, <1>3 DEF RunJobs

(* The scan found nothing: the program ends, or waits until the earliest     *)
(* deadline.                                                                 *)
LEMMA IdleSound ==
  ASSUME Sound, Idle
  PROVE  /\ Sound'
         /\ UNCHANGED <<workers, started, child, onmessage, port, incoming, outgoing, jobs, timers, rw>>
         /\ \/ ~WorkersPending /\ pc' = "exit"
            \/ pc' \in {"poll", "sleep"} /\ Earliest(wake')
<1>1. /\ UNCHANGED <<now, workerVars, queueVars, timers, rw, jobs, rt, ops>> /\ at' = 0
      /\ \/ ~WorkersPending /\ pc' = "exit" /\ UNCHANGED wake
         \/ /\ pc' \in {"poll", "sleep"}
            /\ \E d \in {Never} \cup UNION {Deadlines(r) : r \in Runtime} : Earliest(d) /\ wake' = d
  BY DEF Idle
<1>2. \A r \in Runtime : \A d \in Deadlines(r) : d \in Nat
  <2> SUFFICES ASSUME NEW r \in Runtime, NEW i \in DOMAIN timers[r]
               PROVE  timers[r][i].deadline \in Nat
    BY DEF Deadlines
  <2>1. timers[r] \in Seq(Timer)
    BY DEF Sound, TypeOK
  <2>2. timers[r][i] \in Timer
    BY <2>1, Element
  <2> QED  BY SMT, <2>2 DEF Timer
<1>3. wake' \in {Never} \cup Nat
  <2>1. wake \in {Never} \cup Nat
    BY DEF Sound, TypeOK
  <2> QED  BY <1>1, <1>2, <2>1
<1>4. pc' \in {"exit", "poll", "sleep"} /\ at' \in Nat
  BY <1>1
<1>5. RunsAlive'
  BY <1>4 DEF RunsAlive
<1>6. Sound'
  BY <1>1, <1>3, <1>4, <1>5, LoopMoves DEF Sound, TypeOK
<1> QED  BY <1>1, <1>6 DEF workerVars, queueVars

(* The ends of a wait.                                                       *)
LEMMA WaitSound ==
  ASSUME Sound, Wake \/ PollEnds \/ \E ready \in [Fd -> SUBSET {"read", "write"}] : PollReady(ready)
  PROVE  Sound' /\ pc \in {"sleep", "poll"} /\ UNCHANGED jobs /\ pc' \in {"js", "timer", "failed"}
<1>1. /\ pc \in {"sleep", "poll"} /\ pc' \in {"js", "timer", "failed"} /\ wake' = Never
      /\ UNCHANGED <<now, workerVars, queueVars, timers, rw, jobs, at, ops>>
      /\ rt' = Main \/ (rt' = rt /\ pc' # "js")
  BY DEF Wake, PollEnds, PollReady, Enter
<1>2. rt' \in Runtime
  BY <1>1 DEF Sound, TypeOK, Runtime
<1>3. RunsAlive'
  BY <1>1 DEF RunsAlive
<1>4. Sound'
  BY <1>1, <1>2, <1>3, LoopMoves DEF Sound, TypeOK
<1> QED  BY <1>1, <1>4

(* goc_qjs_cli_worker_cleanup leaves no runtime of a worker behind: one that *)
(* is not listed has none.                                                   *)
LEMMA CleanupSound ==
  ASSUME Sound, Cleanup
  PROVE  Sound' /\ NothingLeft' /\ pc' = "done"
<1>1. /\ pc' = "done" /\ rw' = <<>> /\ onmessage' = [w \in Worker |-> FALSE]
      /\ timers' = [r \in Runtime |-> IF r \in Listed \cup {Main} THEN <<>> ELSE timers[r]]
      /\ jobs' = [r \in Runtime |-> IF r \in Listed THEN 0 ELSE jobs[r]]
      /\ UNCHANGED <<now, workers, started, promise, sent, got, at, rt, wake, ops>>
  BY DEF Cleanup, Emptied
<1>2. TypeOK /\ timers \in [Runtime -> Seq(Timer)] /\ jobs \in [Runtime -> Nat]
  BY DEF Sound, TypeOK
<1>3. /\ child' \in [Worker -> BOOLEAN] /\ port' \in [Worker -> {"none", "null", "fn", "gone"}]
      /\ module' \in [Worker -> {"none", "pending", "loaded"}]
      /\ incoming' \in [Worker -> Seq(Nat)] /\ outgoing' \in [Worker -> Seq(Nat)]
      /\ \A w \in Worker :
           IF w \in Listed
           THEN ~child'[w] /\ port'[w] = "none" /\ incoming'[w] = <<>> /\ outgoing'[w] = <<>>
           ELSE /\ child'[w] = child[w] /\ port'[w] = port[w]
                /\ incoming'[w] = incoming[w] /\ outgoing'[w] = outgoing[w]
  BY <1>2, StoppedTypes DEF Cleanup
<1>4. \A w \in Worker : w \notin Listed =>
        /\ ~child[w] /\ port[w] = "none" /\ timers[w] = <<>> /\ jobs[w] = 0
        /\ incoming[w] = <<>> /\ outgoing[w] = <<>>
  BY DEF Sound, Life, MessagesInOrder, Mail
<1>5. \A w \in Worker :
        /\ ~child'[w] /\ port'[w] = "none" /\ incoming'[w] = <<>> /\ outgoing'[w] = <<>>
        /\ timers'[w] = <<>> /\ jobs'[w] = 0
  <2> TAKE w \in Worker
  <2>1. w \in Runtime
    BY DEF Runtime
  <2>2. CASE w \in Listed
    BY <1>1, <1>3, <2>1, <2>2
  <2>3. CASE w \notin Listed
    BY <1>1, <1>3, <1>4, <2>1, <2>3
  <2> QED  BY <2>2, <2>3
<1>6. timers'[Main] = <<>>
  BY <1>1 DEF Runtime
<1>7. NothingLeft'
  <2>1. \A w \in Worker : port'[w] # "fn"
    BY <1>5
  <2> QED  BY <1>1, <1>5, <1>6, <2>1 DEF NothingLeft, HasTimer, Runtime
<1>8. timers' \in [Runtime -> Seq(Timer)] /\ jobs' \in [Runtime -> Nat]
  <2>1. <<>> \in Seq(Timer) /\ 0 \in Nat
    BY SMT
  <2> QED  BY <1>1, <1>2, <2>1
<1>9. onmessage' \in [Worker -> BOOLEAN] /\ rw' \in Seq([fd : Fd, funcs : SUBSET {"read", "write"}])
  BY SMT, <1>1
<1>10. TypeOK'
  BY <1>1, <1>2, <1>3, <1>8, <1>9 DEF TypeOK
<1>11. \A w \in Worker : Life(w)'
  BY <1>1, <1>5 DEF Sound, Life
<1>12. MessagesInOrder'
  BY <1>5 DEF MessagesInOrder, Mail
<1>13. RunsAlive'
  BY <1>1 DEF RunsAlive
<1> QED  BY <1>1, <1>7, <1>10, <1>11, <1>12, <1>13 DEF Sound

(* The clock.                                                                *)
LEMMA TickSound ==
  ASSUME Sound, Tick
  PROVE  Sound'
<1>1. now \in 0 .. MaxTime /\ now < MaxTime /\ now' = now + 1
  BY DEF Sound, TypeOK, Tick
<1>2. now' \in 0 .. MaxTime
  BY SMT, <1>1, TimeAssumption
<1>3. RunsAlive'
  BY DEF Sound, RunsAlive, Tick, workerVars, loopVars
<1> QED  BY <1>2, <1>3, LoopMoves DEF Sound, TypeOK, Tick, loopVars

-----------------------------------------------------------------------------
(* What the loop may rely on where it waits, scans and ends.                 *)

(* Calls of JavaScript change no more than memory.                           *)
LEMMA JavaScriptSound ==
  ASSUME Sound, JavaScript
  PROVE  Sound' /\ pc' = "js"
<1>1. Sound'
  BY SetTimerSound, ClearTimerSound, EnqueueJobSound, PortSound, SettleSound, NewWorkerSound,
     DropWorkerSound, PostMessageSound, SetOnMessageSound, SetHandlerSound DEF JavaScript
<1>2. pc' = "js"
  BY DEF JavaScript, SetTimer, ClearTimer, EnqueueJob, ImportOs, DropPort, Settle, NewWorker,
     DropWorker, PostMessage, SetOnMessage, SetHandler, Program, Call, loopVars
<1> QED  BY <1>1, <1>2

(* What the loop looks at.                                                   *)
LEMMA ViewKept ==
  ASSUME UNCHANGED <<workers, started, child, onmessage, port, incoming, outgoing, jobs, timers>>
  PROVE  /\ Listed' = Listed
         /\ \A w : Deliverable(w)' <=> Deliverable(w)
         /\ \A r : Deadlines(r)' = Deadlines(r) /\ (HasTimer(r)' <=> HasTimer(r))
<1>1. Listed' = Listed
  BY DEF Listed
<1>2. \A w : Deliverable(w)' <=> Deliverable(w)
  BY DEF Deliverable, ToMain, ToWorker
<1>3. \A r : Deadlines(r)' = Deadlines(r) /\ (HasTimer(r)' <=> HasTimer(r))
  BY DEF Deadlines, HasTimer
<1> QED  BY <1>1, <1>2, <1>3

(* A step outside memory and the loop.                                       *)
LEMMA ScheduledKept ==
  ASSUME Scheduled,
         UNCHANGED <<workers, started, child, onmessage, port, incoming, outgoing, jobs, timers, rw>>,
         UNCHANGED <<pc, at, wake>>
  PROVE  Scheduled'
<1>0. /\ Listed' = Listed
      /\ \A w : Deliverable(w)' <=> Deliverable(w)
      /\ \A r : Deadlines(r)' = Deadlines(r) /\ (HasTimer(r)' <=> HasTimer(r))
  BY ViewKept
<1>1. Drained'
  BY DEF Scheduled, Drained
<1>2. Scanned'
  BY DEF Scheduled, Scanned, Listed, ToMain, Quiet, ToWorker
<1>3. WaitsWhenIdle'
  BY <1>0 DEF Scheduled, WaitsWhenIdle
<1>4. ExitsWhenDone'
  BY <1>0 DEF Scheduled, ExitsWhenDone
<1>5. NothingLeft'
  BY <1>0 DEF Scheduled, NothingLeft
<1> QED  BY <1>1, <1>2, <1>3, <1>4, <1>5 DEF Scheduled

(* The scan goes past a worker only when it has nothing to run.              *)
LEMMA WorkerTurnInv ==
  ASSUME LoopInv, WorkerTurn
  PROVE  LoopInv'
<1>1. pc = "workers" /\ at <= Len(workers) /\ at \in Nat /\ at >= 1 /\ workers \in Seq(Worker)
  BY DEF LoopInv, Sound, TypeOK, Scheduled, Scanned, WorkerTurn
<1>2. at \in DOMAIN workers /\ at + 1 >= 1 /\ \A i \in DOMAIN workers : i < at + 1 => i < at \/ i = at
  BY SMT, <1>1
<1>3. Sound /\ Scheduled
  BY DEF LoopInv
<1>4. /\ Sound' /\ UNCHANGED <<workers, onmessage, port, outgoing, jobs>>
      /\ \/ pc' \in {"js", "runjobs", "failed"}
         \/ /\ ~Busy(workers[at]) /\ at' = at + 1
            /\ UNCHANGED <<pc, started, child, incoming>>
  BY <1>2, <1>3, WorkerTurnSound
<1>5. CASE pc' \in {"js", "runjobs", "failed"}
  BY <1>4, <1>5, OutsideTheLoop DEF LoopInv
<1>6. CASE ~Busy(workers[at]) /\ at' = at + 1 /\ UNCHANGED <<pc, started, child, incoming>>
  <2>1. workers[at] \in Worker
    BY <1>1, <1>2, Element
  <2>2. jobs \in [Runtime -> Nat] /\ Life(workers[at]) /\ workers[at] \in Runtime
    BY <1>3, <2>1 DEF Sound, TypeOK, Runtime
  <2>3. jobs[workers[at]] \in Nat
    BY <2>2
  <2>4. Quiet(workers[at])
    <3>1. child[workers[at]] => ~(jobs[workers[at]] > 0)
      BY <1>6 DEF Busy
    <3>2. jobs[workers[at]] = 0
      BY SMT, <2>2, <2>3, <3>1 DEF Life
    <3> QED  BY <1>6, <3>2 DEF Quiet, Busy
  <2>5. \A i \in DOMAIN workers : i < at + 1 => Quiet(workers[i])
    BY <1>1, <1>2, <1>3, <2>4 DEF Scheduled, Scanned
  <2>6. Scanned'
    <3>1. \A w \in Listed' : ~ToMain(w)'
      BY <1>1, <1>3, <1>4 DEF Scheduled, Scanned, Listed, ToMain
    <3>2. \A i \in DOMAIN workers' : i < at' => Quiet(workers[i])'
      BY <1>4, <1>6, <2>5 DEF Quiet, ToWorker
    <3> QED  BY <1>2, <1>6, <3>1, <3>2 DEF Scanned
  <2>7. pc' = "workers" /\ Drained'
    BY <1>1, <1>3, <1>4, <1>6 DEF Scheduled, Drained
  <2>8. WaitsWhenIdle' /\ ExitsWhenDone' /\ NothingLeft'
    BY <2>7 DEF WaitsWhenIdle, ExitsWhenDone, NothingLeft
  <2> QED  BY <1>4, <2>6, <2>7, <2>8 DEF LoopInv, Scheduled
<1> QED  BY <1>4, <1>5, <1>6

(* The whole scan found nothing to run.                                      *)
LEMMA IdleInv ==
  ASSUME LoopInv, Idle
  PROVE  LoopInv'
<1>1. Sound /\ Scheduled /\ pc = "workers" /\ at > Len(workers) /\ at \in Nat /\ workers \in Seq(Worker)
  BY DEF LoopInv, Sound, TypeOK, Idle
<1>2. \A i \in DOMAIN workers : i < at
  BY SMT, <1>1
<1>3. jobs[Main] = 0 /\ \A w \in Listed : started[w] /\ jobs[w] = 0 /\ ~Deliverable(w)
  <2>1. \A i \in DOMAIN workers : Quiet(workers[i])
    BY <1>1, <1>2 DEF Scheduled, Scanned
  <2>2. \A w \in Listed : Quiet(w) /\ ~ToMain(w)
    BY <1>1, <2>1 DEF Scheduled, Scanned, Listed
  <2>3. jobs[Main] = 0
    BY <1>1 DEF Scheduled, Drained
  <2> QED  BY <2>2, <2>3 DEF Quiet, Deliverable
<1>4. /\ Sound'
      /\ UNCHANGED <<workers, started, child, onmessage, port, incoming, outgoing, jobs, timers, rw>>
      /\ \/ ~WorkersPending /\ pc' = "exit"
         \/ pc' \in {"poll", "sleep"} /\ Earliest(wake')
  BY <1>1, IdleSound
<1>0. /\ Listed' = Listed
      /\ \A w : Deliverable(w)' <=> Deliverable(w)
      /\ \A r : Deadlines(r)' = Deadlines(r) /\ (HasTimer(r)' <=> HasTimer(r))
  BY <1>4, ViewKept
<1>5. jobs'[Main] = 0 /\ \A w \in Listed' : started'[w] /\ jobs'[w] = 0 /\ ~Deliverable(w)'
  BY <1>0, <1>3, <1>4
<1>6. ASSUME pc' \in {"poll", "sleep"}, Earliest(wake')
      PROVE  \A r \in Listed' \cup {Main} : \A d \in Deadlines(r)' : wake' # Never /\ wake' <= d
  <2> SUFFICES ASSUME NEW r \in Listed \cup {Main}, NEW d \in Deadlines(r)
               PROVE  wake' # Never /\ wake' <= d
    BY <1>0
  <2>1. \A v \in Listed : v \in Worker
    BY <1>1, Element DEF Listed
  <2>2. /\ wake' \in UNION {Deadlines(q) : q \in Listed \cup {Main}}
        /\ wake' <= d
    BY <1>6 DEF Earliest
  <2>3. PICK q \in Listed \cup {Main} : \E i \in DOMAIN timers[q] : wake' = timers[q][i].deadline
    BY <2>2 DEF Deadlines
  <2>0. PICK i \in DOMAIN timers[q] : wake' = timers[q][i].deadline
    BY <2>3
  <2>4. timers[q] \in Seq(Timer)
    BY <1>1, <2>1 DEF Sound, TypeOK, Runtime
  <2>5. timers[q][i] \in Timer
    BY <2>4, Element
  <2>6. wake' \in 1 .. Forever
    BY <2>0, <2>5 DEF Timer
  <2> QED  BY SMT, <2>2, <2>6 DEF Never
<1>7. CASE pc' \in {"poll", "sleep"} /\ Earliest(wake')
  <2>1. WaitsWhenIdle'
    BY <1>5, <1>6, <1>7 DEF WaitsWhenIdle
  <2>2. Drained' /\ Scanned' /\ ExitsWhenDone' /\ NothingLeft'
    BY <1>5, <1>7 DEF Drained, Scanned, ExitsWhenDone, NothingLeft
  <2> QED  BY <1>4, <2>1, <2>2 DEF LoopInv, Scheduled
<1>8. CASE ~WorkersPending /\ pc' = "exit"
  <2>1. ~HasTimer(Main)' /\ rw' = <<>>
    BY <1>4, <1>8 DEF WorkersPending, HasTimer
  <2>2. ExitsWhenDone'
    BY <1>5, <2>1 DEF ExitsWhenDone
  <2>3. Drained' /\ Scanned' /\ WaitsWhenIdle' /\ NothingLeft'
    BY <1>5, <1>8 DEF Drained, Scanned, WaitsWhenIdle, NothingLeft
  <2> QED  BY <1>4, <2>2, <2>3 DEF LoopInv, Scheduled
<1> QED  BY <1>4, <1>7, <1>8

(* Every step of the loop and of the programs it runs.                       *)
LEMMA NextInv ==
  ASSUME LoopInv, [Next]_vars
  PROVE  LoopInv'
<1>1. Sound /\ Scheduled
  BY DEF LoopInv
<1>2. CASE JavaScript
  BY <1>1, <1>2, JavaScriptSound, OutsideTheLoop DEF LoopInv
<1>3. CASE Return \/ Throw
  BY <1>1, <1>3, ReturnSound, OutsideTheLoop DEF LoopInv
<1>4. CASE MainJob
  <2>1. Sound' /\ (pc' = "js" \/ (pc' = "timer" /\ jobs'[Main] = 0))
    BY <1>1, <1>4, MainJobSound
  <2>2. CASE pc' = "js"
    BY <2>1, <2>2, OutsideTheLoop DEF LoopInv
  <2>3. CASE pc' = "timer" /\ jobs'[Main] = 0
    <3>1. Scheduled'
      BY <2>3 DEF Scheduled, Drained, Scanned, WaitsWhenIdle, ExitsWhenDone, NothingLeft
    <3> QED  BY <2>1, <3>1 DEF LoopInv
  <2> QED  BY <2>1, <2>2, <2>3
<1>5. CASE MainTimer
  <2>1. Sound' /\ UNCHANGED jobs /\ pc' \in {"js", "parent"}
    BY <1>1, <1>5, MainTimerSound
  <2>2. jobs'[Main] = 0
    BY <1>1, <1>5, <2>1 DEF Scheduled, Drained, MainTimer
  <2>3. Scheduled'
    BY <2>1, <2>2 DEF Scheduled, Drained, Scanned, WaitsWhenIdle, ExitsWhenDone, NothingLeft
  <2> QED  BY <2>1, <2>3 DEF LoopInv
<1>6. CASE MainMessage
  <2>1. /\ Sound' /\ UNCHANGED jobs
        /\ \/ pc' = "js"
           \/ pc' = "workers" /\ at' = 1 /\ \A w \in Listed' : ~ToMain(w)'
    BY <1>1, <1>6, MainMessageSound
  <2>2. jobs'[Main] = 0
    BY <1>1, <1>6, <2>1 DEF Scheduled, Drained, MainMessage
  <2>3. Scanned'
    <3>1. CASE pc' = "js"
      BY <3>1 DEF Scanned
    <3>2. CASE at' = 1 /\ \A w \in Listed' : ~ToMain(w)'
      <4>1. workers' \in Seq(Worker)
        BY <2>1 DEF Sound, TypeOK
      <4>2. at' >= 1 /\ \A i \in DOMAIN workers' : ~(i < at')
        BY SMT, <3>2, <4>1
      <4> QED  BY <3>2, <4>2 DEF Scanned
    <3> QED  BY <2>1, <3>1, <3>2
  <2>4. pc' \in {"js", "workers"}
    BY <2>1
  <2>5. Drained' /\ WaitsWhenIdle' /\ ExitsWhenDone' /\ NothingLeft'
    BY <2>2, <2>4 DEF Drained, WaitsWhenIdle, ExitsWhenDone, NothingLeft
  <2> QED  BY <2>1, <2>3, <2>5 DEF LoopInv, Scheduled
<1>7. CASE WorkerTurn
  BY <1>7, WorkerTurnInv
<1>8. CASE RunJobs
  BY <1>1, <1>8, RunJobsSound, OutsideTheLoop DEF LoopInv
<1>9. CASE Idle
  BY <1>9, IdleInv
<1>10. CASE Wake \/ Poll
  <2>1. Sound' /\ pc \in {"sleep", "poll"} /\ UNCHANGED jobs /\ pc' \in {"js", "timer", "failed"}
    BY <1>1, <1>10, WaitSound DEF Poll
  <2>2. jobs'[Main] = 0
    BY <1>1, <2>1 DEF Scheduled, Drained
  <2>3. Scheduled'
    BY <2>1, <2>2 DEF Scheduled, Drained, Scanned, WaitsWhenIdle, ExitsWhenDone, NothingLeft
  <2> QED  BY <2>1, <2>3 DEF LoopInv
<1>11. CASE Cleanup
  <2>1. Sound' /\ NothingLeft' /\ pc' = "done"
    BY <1>1, <1>11, CleanupSound
  <2>2. Drained' /\ Scanned' /\ WaitsWhenIdle' /\ ExitsWhenDone'
    BY <2>1 DEF Drained, Scanned, WaitsWhenIdle, ExitsWhenDone
  <2> QED  BY <2>1, <2>2 DEF LoopInv, Scheduled
<1>12. CASE Tick
  <2>1. Scheduled'
    BY <1>1, <1>12, ScheduledKept DEF Tick, workerVars, queueVars, loopVars
  <2> QED  BY <1>1, <1>12, <2>1, TickSound DEF LoopInv
<1>13. CASE UNCHANGED vars
  <2>1. Scheduled'
    BY <1>1, <1>13, ScheduledKept DEF vars
  <2>2. RunsAlive'
    BY <1>1, <1>13 DEF Sound, RunsAlive, vars
  <2>3. Sound'
    BY <1>1, <1>13, <2>2, LoopMoves DEF vars, workerVars, queueVars, Sound, TypeOK
  <2> QED  BY <2>1, <2>3 DEF LoopInv
<1> QED  BY <1>2, <1>3, <1>4, <1>5, <1>6, <1>7, <1>8, <1>9, <1>10, <1>11, <1>12, <1>13
         DEF Next, Loop

(* The program starts in JavaScript, with no worker.                         *)
LEMMA InitInv ==
  ASSUME Init
  PROVE  LoopInv
<1>1. TypeOK
  <2>1. /\ workers \in Seq(Worker) /\ DOMAIN workers = {} /\ rw \in Seq([fd : Fd, funcs : SUBSET {"read", "write"}])
        /\ now \in 0 .. MaxTime /\ ops \in Nat /\ at \in Nat
    BY SMT, TimeAssumption DEF Init
  <2>2. incoming \in [Worker -> Seq(Nat)] /\ outgoing \in [Worker -> Seq(Nat)]
        /\ timers \in [Runtime -> Seq(Timer)] /\ jobs \in [Runtime -> Nat]
    BY SMT DEF Init
  <2>3. [in |-> 0, out |-> 0] \in Count
    BY DEF Count
  <2>4. sent \in [Worker -> Count] /\ got \in [Worker -> Count]
    BY <2>3 DEF Init
  <2>5. started \in [Worker -> BOOLEAN] /\ child \in [Worker -> BOOLEAN] /\ onmessage \in [Worker -> BOOLEAN]
    BY DEF Init
  <2>6. /\ port \in [Worker -> {"none", "null", "fn", "gone"}]
        /\ module \in [Worker -> {"none", "pending", "loaded"}]
        /\ promise \in [Worker -> {"pending", "fulfilled", "rejected"}]
    BY DEF Init
  <2>7. rt \in Runtime /\ wake \in {Never} \cup Nat /\ pc = "js"
    BY DEF Init, Runtime
  <2> QED  BY <2>1, <2>2, <2>4, <2>5, <2>6, <2>7 DEF TypeOK
<1>2. \A w \in Worker : Life(w)
  <2>1. \A w \in Worker : ~child[w] /\ got[w] = sent[w] /\ port[w] = "none"
    BY DEF Init
  <2>2. \A w \in Worker : jobs[w] = 0 /\ timers[w] = <<>>
    BY DEF Init, Runtime
  <2> QED  BY <2>1, <2>2 DEF Life
<1>3. MessagesInOrder
  BY DEF Init, MessagesInOrder, Mail
<1>4. RunsAlive
  BY DEF Init, RunsAlive
<1>5. Scheduled
  BY DEF Init, Scheduled, Drained, Scanned, WaitsWhenIdle, ExitsWhenDone, NothingLeft
<1> QED  BY <1>1, <1>2, <1>3, <1>4, <1>5 DEF LoopInv, Sound

(* The inductive invariant of the event loop.                                *)
THEOREM LoopInvariant == Spec => []LoopInv
<1>1. Init => LoopInv
  BY InitInv
<1>2. LoopInv /\ [Next]_vars => LoopInv'
  BY NextInv
<1> QED  BY <1>1, <1>2, PTL DEF Spec

(* Messages between Main and its workers (postMessage, and the delivery by   *)
(* goc_qjs_cli_run_worker_message and goc_qjs_cli_deliver_parent_message)    *)
(* arrive in order, each once, and none outlives its runtime.                *)
THEOREM MessagesAlwaysInOrder == Spec => []MessagesInOrder
<1>1. LoopInv => MessagesInOrder
  BY DEF LoopInv, Sound
<1> QED  BY <1>1, LoopInvariant, PTL

(* The loop sleeps or polls only when no callback can run, and never past a  *)
(* deadline (the end of goc_qjs_cli_dispatch_workers).                       *)
THEOREM AlwaysWaitsWhenIdle == Spec => []WaitsWhenIdle
<1>1. LoopInv => WaitsWhenIdle
  BY DEF LoopInv, Scheduled
<1> QED  BY <1>1, LoopInvariant, PTL

(* The program ends by itself only when nothing is outstanding               *)
(* (goc_qjs_cli_workers_pending).                                            *)
THEOREM AlwaysExitsWhenDone == Spec => []ExitsWhenDone
<1>1. LoopInv => ExitsWhenDone
  BY DEF LoopInv, Scheduled
<1> QED  BY <1>1, LoopInvariant, PTL

(* goc_qjs_cli_worker_cleanup leaves nothing behind.                         *)
THEOREM NothingEverLeft == Spec => []NothingLeft
<1>1. LoopInv => NothingLeft
  BY DEF LoopInv, Scheduled
<1> QED  BY <1>1, LoopInvariant, PTL

(* goc_qjs_cli_run_due_timer, called when a timer is due, takes one that is  *)
(* due, and none of the others is due before it.                             *)
LEMMA TakenFires ==
  ASSUME TypeOK, NEW r \in Runtime, Due(r), TakeTimer(r)
  PROVE  Fires(r)
<1>1. PICK i \in DOMAIN timers[r] :
        /\ Selected(r, i)
        /\ \/ timers'[r] = Without(timers[r], i)
           \/ /\ timers'[r] = [timers[r] EXCEPT ![i] = timers'[r][i]]
              /\ timers'[r][i].deadline > now
  BY TimerTaken
<1>2. \A j \in DOMAIN timers[r] : timers[r][j].deadline \in Nat
  <2> TAKE j \in DOMAIN timers[r]
  <2>1. timers[r] \in Seq(Timer)
    BY DEF TypeOK
  <2>2. timers[r][j] \in Timer
    BY <2>1, Element
  <2> QED  BY SMT, <2>2 DEF Timer
<1>3. \A j \in DOMAIN timers[r] : timers[r][i].deadline <= timers[r][j].deadline
  BY SMT, <1>1, <1>2 DEF Selected
<1>4. PICK j \in DOMAIN timers[r] : timers[r][j].deadline <= now
  BY DEF Due, Deadlines
<1>5. now \in Nat
  BY SMT, TimeAssumption DEF TypeOK
<1>6. timers[r][i].deadline <= now
  <2>1. \A a, b \in Nat : a <= b /\ b <= now => a <= now
    BY SMT, <1>5
  <2> QED  BY <1>2, <1>3, <1>4, <2>1
<1> QED  BY <1>1, <1>3, <1>6 DEF Fires

(* The timers of every runtime fire in the order of their deadlines.         *)
THEOREM TimersAlwaysInOrder == Spec => TimersInOrder
<1> DEFINE Step == \A r \in Runtime : pc \in {"timer", "workers"} /\ timers'[r] # timers[r] => Fires(r)
<1>1. LoopInv /\ Next => Step
  <2> SUFFICES ASSUME LoopInv, Next, NEW r \in Runtime, pc \in {"timer", "workers"},
                      timers'[r] # timers[r]
               PROVE  Fires(r)
    OBVIOUS
  <2>1. Sound /\ TypeOK /\ Main \in Runtime
    BY DEF LoopInv, Sound, Runtime
  <2>2. MainTimer \/ WorkerTurn
    <3>1. ~(JavaScript \/ Return \/ Throw)
      BY DEF JavaScript, SetTimer, ClearTimer, EnqueueJob, ImportOs, DropPort, Settle, NewWorker,
         DropWorker, PostMessage, SetOnMessage, SetHandler, Program, Return, Throw
    <3>2. ~(MainJob \/ MainMessage \/ RunJobs \/ Idle \/ Tick)
      BY DEF MainJob, MainMessage, RunJobs, Idle, Tick
    <3>3. ~(Wake \/ Cleanup \/ Poll)
      BY DEF Wake, Cleanup, Poll, PollReady, PollEnds
    <3> QED  BY <3>1, <3>2, <3>3 DEF Next, Loop
  <2>3. PICK q \in Runtime : Due(q) /\ TakeTimer(q)
    <3>1. CASE MainTimer
      BY <2>1, <3>1 DEF MainTimer
    <3>2. CASE WorkerTurn
      <4>1. at \in DOMAIN workers /\ workers \in Seq(Worker)
        BY SMT, <2>1, <3>2 DEF LoopInv, Scheduled, Scanned, WorkerTurn, TypeOK
      <4>2. workers[at] \in Runtime
        BY <4>1, Element DEF Runtime
      <4> QED  BY <3>2, <4>2 DEF WorkerTurn, StartWorker, WorkerJobs, WorkerTimer,
               WorkerMessage, TimerTurn
    <3> QED  BY <2>2, <3>1, <3>2
  <2>4. q = r
    BY <2>1, <2>3, TimerTaken
  <2> QED  BY <2>1, <2>3, <2>4, TakenFires
<1>2. LoopInv /\ [Next]_vars => [Step]_vars
  BY <1>1
<1> QED  BY <1>2, LoopInvariant, PTL DEF Spec, TimersInOrder

=============================================================================
