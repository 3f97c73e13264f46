----------------------------- MODULE RunRefresh -----------------------------
(***************************************************************************)
(* FineTuneRunner.refresh_run_status (orchestrator/runner.py): a process   *)
(* reads the run, reads the tasks, derives a target and writes it back.    *)
(* Each read and each write is a transaction of its own and the write is   *)
(* unconditional, so any number of other processes may act in between.     *)
(*                                                                         *)
(* A process enters at pc "r_get" and leaves at the pc kept in after, or   *)
(* at "r_error" when ensure_run_transition raises ValueError.              *)
(***************************************************************************)
EXTENDS StateStore

CONSTANT Observer  \* processes that only ask for the status (CLI: status)

ASSUME ObserverAssumption == Observer \cap Worker = {}

Proc == Worker \cup Observer

VARIABLES
  pc,       \* where each process is
  seen,     \* run.status, as the process last read it
  stamped,  \* run.finished_at IS NOT NULL, as read with it
  target,   \* the status it derived from list_tasks
  after     \* where it resumes once refresh_run_status returns

frameVars == <<seen, stamped, target, after>>

RefreshPC == {"r_get", "r_list", "r_hop", "r_reread", "r_write", "r_finish"}

Goto(p, place) == pc' = [pc EXCEPT ![p] = place]

RefreshTypeOK ==
  /\ seen \in [Proc -> RunStatus]
  /\ stamped \in [Proc -> BOOLEAN]
  /\ target \in [Proc -> RunStatus]

RefreshInit ==
  /\ seen = [p \in Proc |-> "CREATED"]
  /\ stamped = [p \in Proc |-> FALSE]
  /\ target = [p \in Proc |-> "CREATED"]

-----------------------------------------------------------------------------
(* get_run: the run row goes into the local variable run.                   *)
ReadRun(p) ==
  /\ seen' = [seen EXCEPT ![p] = runStatus]
  /\ stamped' = [stamped EXCEPT ![p] = finished]

RefreshGetRun(p) ==
  /\ pc[p] = "r_get"
  /\ ReadRun(p)
  /\ Goto(p, "r_list")
  /\ UNCHANGED <<storeVars, target, after>>

(* refresh_run_status returns: its local variables are gone.                *)
ReturnFromRefresh(p) ==
  /\ Goto(p, after[p])
  /\ seen' = [seen EXCEPT ![p] = "CREATED"]
  /\ stamped' = [stamped EXCEPT ![p] = FALSE]
  /\ target' = [target EXCEPT ![p] = "CREATED"]
  /\ UNCHANGED after

(* The target follows from the tasks as they are now; whether it may be     *)
(* written is judged by the run row read before.                            *)
RouteTo(p, tgt) ==
  IF RunTransitionAllowed(seen[p], tgt) THEN "r_write"
  ELSE IF ReachableViaRunning(seen[p], tgt) THEN "r_hop"
  ELSE "r_error"

RefreshListTasks(p) ==
  /\ pc[p] = "r_list"
  /\ LET tgt == RunTarget(Task, status, attempts) IN
       \/ /\ tgt = seen[p]
          /\ ReturnFromRefresh(p)
       \/ /\ tgt # seen[p]
          /\ target' = [target EXCEPT ![p] = tgt]
          /\ Goto(p, RouteTo(p, tgt))
          /\ UNCHANGED <<seen, stamped, after>>
  /\ UNCHANGED storeVars

RefreshHop(p) ==
  /\ pc[p] = "r_hop"
  /\ UpdateRunStatus("RUNNING")
  /\ Goto(p, "r_reread")
  /\ UNCHANGED frameVars

(* After the detour the run is read again and the transition judged anew.   *)
RefreshReread(p) ==
  /\ pc[p] = "r_reread"
  /\ ReadRun(p)
  /\ Goto(p, IF RunTransitionAllowed(runStatus, target[p]) THEN "r_write" ELSE "r_error")
  /\ UNCHANGED <<storeVars, target, after>>

(* A slip: a run that carries a stamp is taken for final and left alone.    *)
RefreshWriteOnce(p) ==
  /\ pc[p] = "r_write"
  /\ IF target[p] \in TerminalRun /\ ~stamped[p]
     THEN /\ UpdateRunStatus(target[p])
          /\ Goto(p, "r_finish") /\ UNCHANGED frameVars
     ELSE /\ IF stamped[p] THEN UNCHANGED storeVars ELSE UpdateRunStatus(target[p])
          /\ ReturnFromRefresh(p)

(* A terminal status stamps finished_at, in a transaction of its own, unless *)
(* the run row read before carries a stamp.                                  *)
RefreshWrite(p) ==
  /\ pc[p] = "r_write"
  /\ UpdateRunStatus(target[p])
  /\ IF target[p] \in TerminalRun /\ ~stamped[p]
     THEN Goto(p, "r_finish") /\ UNCHANGED frameVars
     ELSE ReturnFromRefresh(p)

RefreshFinish(p) ==
  /\ pc[p] = "r_finish"
  /\ UpdateRunFinishedAt
  /\ ReturnFromRefresh(p)

Refresh(p) ==
  \/ RefreshGetRun(p)
  \/ RefreshListTasks(p)
  \/ RefreshHop(p)
  \/ RefreshReread(p)
  \/ RefreshWrite(p)
  \/ RefreshFinish(p)
=============================================================================
