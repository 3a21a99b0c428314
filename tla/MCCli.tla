------------------------------- MODULE MCCli -------------------------------
(***************************************************************************)
(* The event loop of CliWorker under two kinds of program, the shared      *)
(* buffers of CliSab that its messages carry, and the child processes of   *)
(* CliProcess.  Every behaviour belongs to one scenario: programs of few   *)
(* calls that use the whole API, longer programs of one worker that only   *)
(* exchange messages, buffers, or processes.                               *)
(***************************************************************************)
EXTENDS CliWorker

CONSTANTS Buffer, MaxQueue, MaxRefs,
          MaxStarts, Pid, MaxFd,
          MixedOps             \* calls of a program that uses everything

VARIABLES scenario, alive, owner, refs, freed, held, queue,
          fds, kid, byPID, wraps, file, call, told

sabVars == <<alive, owner, refs, freed, held, queue>>
procVars == <<fds, kid, byPID, wraps, file, call, told>>

Sab == INSTANCE CliSab
Proc == INSTANCE CliProcess WITH pc <- call

MCInit ==
  /\ scenario \in {"mixed", "messages", "buffers", "processes"}
  /\ Init /\ Sab!Init /\ Proc!Init

(* Workers differ in name only: First is the one created first.              *)
First == CHOOSE w \in Worker : TRUE

(* The last call of a program comes only where no handler and no job is set  *)
(* and no runtime has two timers.                                            *)
Mixed ==
  /\ workers' # <<>> => started'[First] \/ First \in Listed'
  /\ \/ ops' < MixedOps
     \/ /\ ops' = MixedOps /\ rw' = <<>>
        /\ \A r \in Runtime : jobs'[r] = 0 /\ Len(timers'[r]) <= 1

Messages ==
  /\ Len(workers') <= 1 /\ rw' = <<>> /\ \A r \in Runtime : timers'[r] = <<>>
  /\ jobs' = [r \in Runtime |-> 0]

MCNext ==
  /\ UNCHANGED scenario
  /\ \/ scenario = "mixed" /\ Next /\ Mixed /\ UNCHANGED <<sabVars, procVars>>
     \/ scenario = "messages" /\ Next /\ Messages /\ UNCHANGED <<sabVars, procVars>>
     \/ scenario = "buffers" /\ Sab!Next /\ UNCHANGED <<vars, procVars>>
     \/ scenario = "processes" /\ Proc!Next /\ UNCHANGED <<vars, sabVars>>

(* The loop is sequential code, the program's functions return, and poll     *)
(* does not outlast its timeout.  A child whose pipe is closed ends, and the *)
(* goroutines that can go on do.                                             *)
MCSpec ==
  /\ MCInit /\ [][MCNext]_<<scenario, vars, sabVars, procVars>>
  /\ WF_vars(Loop) /\ WF_vars(scenario \in {"mixed", "messages"} /\ Return)
  /\ WF_vars(Expired /\ PollEnds)
  /\ WF_procVars(scenario = "processes" /\ Proc!Progress)

(* A buffer's count is the number of objects and queued messages that use it *)
(* (goc_qjs_cli_sab_dup and _free), whoever lets go of it last.              *)
SabCounted == Sab!SabCounted

(* gocQjsCliWait reports the status of a child after it ended and at most    *)
(* once, although process numbers come back.                                 *)
StatusOnce == Proc!StatusOnce

(* goc_qjs_cli_file_close on a popen comes back: the child is not waiting    *)
(* for the pipe end that its closer still holds.                             *)
CloseReturns == Proc!CloseReturns
=============================================================================
