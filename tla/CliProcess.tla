---------------------------- MODULE CliProcess ----------------------------
(***************************************************************************)
(* Child processes of a script: os.exec, os.waitpid and std.popen of the   *)
(* QuickJS host (cli_os.inc, cli_std_file.inc) over the Go side that runs  *)
(* them (cli/std_os.go).  The script and its workers are one goroutine;    *)
(* each child has a goroutine that waits for it, the collector runs when   *)
(* it likes, and the system gives the number of a child that was waited    *)
(* for to another one.                                                     *)
(***************************************************************************)
EXTENDS Integers, FiniteSets, FiniteSetsExt

CONSTANTS MaxStarts,   \* children the script tries to start
          Pid,         \* process numbers
          MaxFd        \* descriptors are 0 .. MaxFd

Child == 1 .. MaxStarts
Descriptor == 0 .. MaxFd
Nil == 0

VARIABLES fds,     \* Descriptor -> what is open there
          kid,     \* Child -> the process
          byPID,   \* gocQjsCliChildren: Pid -> Child, or Nil
          wraps,   \* Child -> descriptors with an *os.File that is not yet finalized
          file,    \* Child -> the FILE object of a popen
          pc,      \* what the script is blocked in
          told     \* Child -> how often gocQjsCliWait reported its status

procVars == <<fds, kid, byPID, wraps, file, pc, told>>

Closed == <<Nil, "closed">>
Std(f) == <<f, "std">>
End(k, e) == <<k, e>>

Free == {f \in Descriptor : fds[f] = Closed}
Open(e) == e \in {fds[f] : f \in Descriptor}

Running == [st |-> "run", child |-> Nil, pid |-> Nil, why |-> "none"]
NoFile == [fd |-> -1, pid |-> Nil]

Init ==
  /\ fds = [f \in Descriptor |-> IF f <= 2 THEN Std(f) ELSE Closed]
  /\ kid = [k \in Child |-> [st |-> "none", pid |-> Nil, until |-> Closed]]
  /\ byPID = [p \in Pid |-> Nil]
  /\ wraps = [k \in Child |-> {}]
  /\ file = [k \in Child |-> NoFile]
  /\ pc = Running
  /\ told = [k \in Child |-> 0]

----------------------------------------------------------------------------
(* gocQjsCliStart. *)

Attempts == {k \in Child : kid[k].st = "none"}

(* A number no process has: one that was waited for may be given again.      *)
FreePid == Pid \ {kid[k].pid : k \in {c \in Child : kid[c].st \in {"running", "exited"}}}

(* cmd.Start fails after the descriptors were wrapped (exec.LookPath, before *)
(* that, leaves nothing).                                                    *)
StartFails(k, std) ==
  /\ kid' = [kid EXCEPT ![k].st = "failed"]
  /\ wraps' = [wraps EXCEPT ![k] = std]
  /\ UNCHANGED byPID

(* The child is entered under its number, whoever was there.                 *)
Started(k, pid, std, until) ==
  /\ kid' = [kid EXCEPT ![k] = [st |-> "running", pid |-> pid, until |-> until]]
  /\ wraps' = [wraps EXCEPT ![k] = std]
  /\ byPID' = [byPID EXCEPT ![pid] = k]

Blocked(k, pid, why) == [st |-> "wait", child |-> k, pid |-> pid, why |-> why]

(* os.exec, with and without block: the child has the script's own           *)
(* descriptors 0, 1 and 2.                                                   *)
Exec ==
  /\ pc.st = "run" /\ Attempts # {}
  /\ LET k == Min(Attempts)
     IN \/ StartFails(k, 0 .. 2) /\ UNCHANGED pc
        \/ \E pid \in FreePid, block \in BOOLEAN :
             /\ Started(k, pid, 0 .. 2, Closed)
             /\ pc' = IF block THEN Blocked(k, pid, "exec") ELSE pc
  /\ UNCHANGED <<fds, file, told>>

----------------------------------------------------------------------------
(* What std.popen does when it cannot make the FILE: a failed set_error      *)
(* closes the script's end, goc_qjs_cli_new_file only one that is not one of *)
(* 0, 1 and 2; then the child is waited for.                                 *)
Undo(k, pid, mine, end) ==
  /\ UNCHANGED file
  /\ \/ fds' = fds /\ pc' = Blocked(k, pid, "undo")
     \/ mine <= 2 /\ fds' = [fds EXCEPT ![mine] = end] /\ pc' = Blocked(k, pid, "stdio")

(* std.popen: a pipe, one end for the child; the script's side closes that   *)
(* end once the child has it.  A child may read or write until the script's  *)
(* end is closed.                                                            *)
Popen ==
  /\ pc.st = "run" /\ Attempts # {} /\ Cardinality(Free) >= 2
  /\ LET k == Min(Attempts)
         r == Min(Free)
         w == Min(Free \ {r})
     IN \E mine \in {r, w}, patient \in BOOLEAN :
          LET theirs == IF mine = r THEN w ELSE r
              std == IF mine = r THEN {0, theirs, 2} ELSE {theirs, 1, 2}
              end == End(k, IF mine = r THEN "r" ELSE "w")
              until == IF patient THEN end ELSE Closed
          IN \/ StartFails(k, std) /\ UNCHANGED <<fds, file, pc>>
             \/ \E pid \in FreePid :
                  /\ Started(k, pid, std, until)
                  /\ \/ /\ fds' = [fds EXCEPT ![mine] = end]
                        /\ file' = [file EXCEPT ![k] = [fd |-> mine, pid |-> pid]]
                        /\ UNCHANGED pc
                     \/ Undo(k, pid, mine, end)
  /\ UNCHANGED told

----------------------------------------------------------------------------
(* gocQjsCliWait. *)

(* A wait that ends without deleting the child (a mutant of Report).         *)
Report_Kept(k, pid) == told' = [told EXCEPT ![k] = @ + 1] /\ UNCHANGED byPID

(* The status is reported and the child deleted, if it is still the one that *)
(* is entered under its number; ECHILD if not.                               *)
Report(k, pid) ==
  IF byPID[pid] = k
  THEN told' = [told EXCEPT ![k] = @ + 1] /\ byPID' = [byPID EXCEPT ![pid] = Nil]
  ELSE UNCHANGED <<told, byPID>>

(* os.waitpid.  Without WNOHANG it blocks; ECHILD and "still running" change *)
(* nothing.                                                                  *)
Waitpid ==
  /\ pc.st = "run"
  /\ \E pid \in Pid :
       LET k == byPID[pid]
       IN /\ k # Nil
          /\ \/ pc' = Blocked(k, pid, "waitpid") /\ UNCHANGED <<told, byPID>>
             \/ kid[k].st = "done" /\ Report(k, pid) /\ UNCHANGED pc
  /\ UNCHANGED <<fds, kid, wraps, file>>

(* <-child.done, then the report; os.exec with block deletes the number,     *)
(* whoever has it now.                                                       *)
WaitDone ==
  /\ pc.st = "wait" /\ kid[pc.child].st = "done"
  /\ IF pc.why = "exec" THEN byPID' = [byPID EXCEPT ![pc.pid] = Nil] /\ UNCHANGED told
                           ELSE Report(pc.child, pc.pid)
  /\ pc' = Running
  /\ UNCHANGED <<fds, kid, wraps, file>>

(* The script then waits for whoever has the number of the child: the child  *)
(* itself ("close"; "stdio" if the pipe end stays open), or another one.     *)
WaitFor(k, f) ==
  LET target == byPID[f.pid]
      why == IF target # k THEN "reused" ELSE IF f.fd <= 2 THEN "stdio" ELSE "close"
  IN pc' = IF target = Nil THEN pc ELSE Blocked(target, f.pid, why)

(* goc_qjs_cli_file_close with the wait before the close (a mutant).         *)
FileClose_WaitsFirst ==
  /\ pc.st = "run"
  /\ \E k \in Child :
       /\ file[k] # NoFile
       /\ file' = [file EXCEPT ![k] = NoFile]
       /\ WaitFor(k, file[k])
  /\ UNCHANGED <<fds, kid, byPID, wraps, told>>

(* goc_qjs_cli_file_close, from close() or from the finalizer of the FILE:   *)
(* the descriptor first, unless it is one of 0, 1 and 2 (stdio), then the    *)
(* wait.                                                                     *)
FileClose ==
  /\ pc.st = "run"
  /\ \E k \in Child :
       /\ file[k] # NoFile
       /\ fds' = IF file[k].fd <= 2 THEN fds ELSE [fds EXCEPT ![file[k].fd] = Closed]
       /\ file' = [file EXCEPT ![k] = NoFile]
       /\ WaitFor(k, file[k])
  /\ UNCHANGED <<kid, byPID, wraps, told>>

----------------------------------------------------------------------------
(* Children, their goroutines and the collector. *)

Exits(k) ==
  /\ kid[k].st = "running" /\ ~(kid[k].until # Closed /\ Open(kid[k].until))
  /\ kid' = [kid EXCEPT ![k].st = "exited"]
  /\ UNCHANGED <<fds, byPID, wraps, file, pc, told>>

(* gocQjsCliWaitChild: cmd.Wait takes the status, done is closed.            *)
WaitChild(k) ==
  /\ kid[k].st = "exited"
  /\ kid' = [kid EXCEPT ![k].st = "done"]
  /\ UNCHANGED <<fds, byPID, wraps, file, pc, told>>

(* The wrappers are reachable from the child: from the map, from its         *)
(* goroutine, from the call that waits for it.                               *)
Garbage(k) ==
  /\ kid[k].st \in {"failed", "done"} /\ k # pc.child
  /\ \A p \in Pid : byPID[p] # k

(* os.NewFile puts the finalizer that closes the descriptor on the file      *)
(* inside the *os.File; gocQjsCliOSFile clears the one of the *os.File.  The *)
(* three files of a child become garbage together and are finalized by one   *)
(* goroutine in one go.                                                      *)
Collect ==
  /\ \E k \in Child :
       /\ wraps[k] # {} /\ Garbage(k)
       /\ wraps' = [wraps EXCEPT ![k] = {}]
       /\ fds' = [f \in Descriptor |-> IF f \in wraps[k] THEN Closed ELSE fds[f]]
  /\ UNCHANGED <<kid, byPID, file, pc, told>>

Next ==
  \/ Exec \/ Popen \/ Waitpid \/ WaitDone \/ FileClose \/ Collect
  \/ \E k \in Child : Exits(k) \/ WaitChild(k)

(* What goes on by itself: a child whose pipe is closed ends, and goroutines *)
(* that can go on do.  Each of these steps happens once for a start.         *)
Progress == WaitDone \/ \E k \in Child : Exits(k) \/ WaitChild(k)

Spec == Init /\ [][Next]_procVars /\ WF_procVars(Progress)

----------------------------------------------------------------------------
(* gocQjsCliWait reports the status of a child only after it ended, at most  *)
(* once, and then forgets the child, although process numbers come back and  *)
(* FILE objects wait by a number they noted long ago.                        *)
StatusOnce ==
  \A k \in Child :
    /\ told[k] <= 1
    /\ told[k] = 1 => kid[k].st = "done" /\ \A p \in Pid : byPID[p] # k

(* goc_qjs_cli_file_close on a popen comes back, and so does a popen that    *)
(* could not make its FILE: the child is not waiting for the pipe end that   *)
(* its closer still holds.  Two cases are left out.  A child that was waited *)
(* for by its number may have left the number to another one, and the close  *)
(* waits for that one, which may need a FILE only the blocked script could   *)
(* close; and an end that is one of 0, 1 and 2, free because the wrappers    *)
(* closed them, is taken for stdio and stays open.                           *)
CloseReturns == []<>(pc.why \notin {"close", "undo"})

(* gocQjsCliOSFile: "C owns every descriptor. The wrapper exists only for    *)
(* exec.Cmd's pass-through child stdio handling and must never close that    *)
(* descriptor": what the C side has open stays open until it closes it.      *)
WrappersNeverClose ==
  /\ \A f \in 0 .. 2 : fds[f] = Std(f)
  /\ \A k \in Child : file[k] # NoFile => fds[file[k].fd][1] = k
=============================================================================
