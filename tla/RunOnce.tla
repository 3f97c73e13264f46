------------------------------ MODULE RunOnce ------------------------------
(***************************************************************************)
(* LocalWorker.run_once (executor/worker.py): lease a task, count the      *)
(* attempt, mark it RUNNING, run the handler and record the verdict.  One  *)
(* action per transaction with the store, so that other workers, observers *)
(* and crashes interleave wherever they can in the code.                   *)
(*                                                                         *)
(* A call starts at pc "lease" and ends at pc                              *)
(*   "ok"      run_once returned the task,                                 *)
(*   "empty"   run_once returned None,                                     *)
(*   "raised"  an exception escaped ("r_error": out of the refresh).       *)
(* Hooks are fire-and-forget and touch no state kept here; the seed is     *)
(* applied and the hook_fired events are appended inside the neighbouring  *)
(* steps.                                                                  *)
(***************************************************************************)
EXTENDS RunRefresh

CONSTANTS
  NoTask,
  MaxAttempts,     \* max_attempts of each task, after _resolve_max_attempts
  MaxOomRetries,   \* the OOM budget of a task; 0 unless drain_concurrent set it
  TimedTask,       \* tasks for which _resolve_timeout gives a timeout
  MalformedTask,   \* tasks whose payload makes _resolve_timeout raise
  ArtifactFaults,  \* may write_json_artifact raise (disk full, permissions)?
  Yield(_, _)      \* what the handler of a task may do at an attempt

ASSUME RunOnceAssumption ==
  /\ NoTask \notin Task
  /\ MaxAttempts \in [Task -> Nat \ {0}]
  /\ MaxOomRetries \in Nat
  /\ TimedTask \subseteq Task
  /\ MalformedTask \subseteq Task
  /\ ArtifactFaults \in BOOLEAN

VARIABLES
  held,      \* the task run_once leased
  attempt,   \* attempt_count, as increment_task_attempts returned it
  outcome,   \* what came of the handler
  zombies    \* tasks whose timed-out handler thread is still running

callVars == <<held, attempt, outcome>>
onceVars == <<storeVars, pc, frameVars, callVars, zombies>>

(* What a handler can do: return a result that validates, one that does     *)
(* not, or one that cannot be validated or stored (no JSON-serialisable     *)
(* dict, a technique that is no text); raise, exceed its timeout (or raise  *)
(* TimeoutError), run out of GPU memory.                                    *)
HandlerOutcome == {"ok", "invalid", "unusable", "error", "timeout", "oom"}

(* "oom_spent": an OOM once the budget is gone.                             *)
Outcome == HandlerOutcome \cup {"none", "oom_spent"}

ReturnPC == {"ok", "raised", "r_error"}

OncePC == {"lease", "bump", "mark", "announce", "prepare", "execute", "oom_count",
           "record", "close", "empty"} \cup ReturnPC

OnceTypeOK ==
  /\ StoreTypeOK
  /\ RefreshTypeOK
  /\ held \in [Worker -> Task \cup {NoTask}]
  /\ attempt \in [Worker -> Nat]
  /\ outcome \in [Worker -> Outcome]
  /\ zombies \in [Worker -> SUBSET Task]

OnceInit ==
  /\ StoreInit
  /\ RefreshInit
  /\ held = [w \in Worker |-> NoTask]
  /\ attempt = [w \in Worker |-> 0]
  /\ outcome = [w \in Worker |-> "none"]
  /\ zombies = [w \in Worker |-> {}]

(* refresh_run_status is called, to come back at place.                     *)
CallRefresh(p, place) ==
  /\ Goto(p, "r_get")
  /\ after' = [after EXCEPT ![p] = place]
  /\ UNCHANGED <<seen, stamped, target>>

-----------------------------------------------------------------------------
Lease(w) ==
  /\ pc[w] = "lease"
  /\ \E t \in Task : /\ LeaseNextPendingTask(w, t)
                     /\ held' = [held EXCEPT ![w] = t]
  /\ Goto(w, "bump")
  /\ UNCHANGED <<frameVars, attempt, outcome, zombies>>

LeaseNothing(w) ==
  /\ pc[w] = "lease"
  /\ \A t \in Task : ~Leaseable(t)
  /\ Goto(w, "empty")
  /\ UNCHANGED <<storeVars, frameVars, callVars, zombies>>

(* The attempt is counted before the task is marked, whoever owns it now.   *)
BumpAttempts(w) ==
  /\ pc[w] = "bump"
  /\ IncrementTaskAttempts(held[w])
  /\ attempt' = [attempt EXCEPT ![w] = attempts[held[w]] + 1]
  /\ Goto(w, "mark")
  /\ UNCHANGED <<frameVars, held, outcome, zombies>>

MarkRunning(w) ==
  /\ pc[w] = "mark"
  /\ MarkTaskRunning(held[w])
  /\ Goto(w, "announce")
  /\ UNCHANGED <<frameVars, callVars, zombies>>

MarkRefused(w) ==
  /\ pc[w] = "mark"
  /\ ~MayMark(held[w])
  /\ Goto(w, "raised")
  /\ UNCHANGED <<storeVars, frameVars, callVars, zombies>>

Announce(w) ==
  /\ pc[w] = "announce"
  /\ AppendEvent(held[w], "task_running", attempt[w])
  /\ CallRefresh(w, "prepare")
  /\ UNCHANGED <<callVars, zombies>>

(* _resolve_timeout runs outside the try block.                             *)
Prepare(w) ==
  /\ pc[w] = "prepare"
  /\ Goto(w, IF held[w] \in MalformedTask THEN "raised" ELSE "execute")
  /\ UNCHANGED <<storeVars, frameVars, callVars, zombies>>

(* The handler is over.  A result the worker cannot even annotate or store  *)
(* raises outside the try block: the task keeps its status.                 *)
Execute(w, o) ==
  /\ pc[w] = "execute"
  /\ o # "timeout"
  /\ outcome' = [outcome EXCEPT ![w] = IF o = "oom" /\ MaxOomRetries = 0
                                       THEN "oom_spent" ELSE o]
  /\ Goto(w, CASE o = "unusable" -> "raised"
               [] o = "oom" /\ MaxOomRetries > 0 -> "oom_count"
               [] OTHER -> "record")
  /\ UNCHANGED <<storeVars, frameVars, held, attempt, zombies>>

(* A slip: the timeout is re-raised without being recorded.                 *)
ExecuteTimesOutUnrecorded(w) ==
  /\ pc[w] = "execute"
  /\ outcome' = [outcome EXCEPT ![w] = "timeout"]
  /\ Goto(w, "raised")
  /\ UNCHANGED <<storeVars, frameVars, held, attempt, zombies>>

(* _execute stops waiting: the handler thread is abandoned, not stopped.    *)
(* A handler that raises TimeoutError itself leaves no thread behind.       *)
ExecuteTimesOut(w) ==
  /\ pc[w] = "execute"
  /\ outcome' = [outcome EXCEPT ![w] = "timeout"]
  /\ \/ /\ held[w] \in TimedTask
        /\ zombies' = [zombies EXCEPT ![w] = @ \cup {held[w]}]
     \/ UNCHANGED zombies
  /\ Goto(w, "record")
  /\ UNCHANGED <<storeVars, frameVars, held, attempt>>

HandlerEnds(w) ==
  /\ pc[w] = "execute"
  /\ \E o \in HandlerOutcome \cap Yield(held[w], attempt[w]) :
       \/ Execute(w, o)
       \/ o = "timeout" /\ ExecuteTimesOut(w)

(* An abandoned handler thread returns; nobody reads its result.            *)
ZombieReturns(w) ==
  /\ \E t \in zombies[w] : zombies' = [zombies EXCEPT ![w] = @ \ {t}]
  /\ UNCHANGED <<storeVars, pc, frameVars, callVars>>

(* A slip: a count kept by the worker, which is new in every process.       *)
OomBudgetFromMemory(w) ==
  /\ pc[w] = "oom_count"
  /\ outcome' = [outcome EXCEPT ![w] = "oom"]
  /\ Goto(w, "record")
  /\ UNCHANGED <<storeVars, frameVars, held, attempt, zombies>>

(* _handle_oom counts the requeues logged so far; requeueing and logging    *)
(* are two transactions.                                                    *)
OomBudget(w) ==
  /\ pc[w] = "oom_count"
  /\ outcome' = [outcome EXCEPT ![w] =
       IF Cardinality(Logged(held[w], "task_oom_requeued")) >= MaxOomRetries
       THEN "oom_spent" ELSE "oom"]
  /\ Goto(w, "record")
  /\ UNCHANGED <<storeVars, frameVars, held, attempt, zombies>>

(* A slip: one attempt too many.                                            *)
RetriesLeftInclusive(w) == attempt[w] <= MaxAttempts[held[w]]

(* The status recorded for an outcome, and the event that says so.          *)
RetriesLeft(w) == attempt[w] < MaxAttempts[held[w]]

Verdict(w) ==
  CASE outcome[w] = "ok"      -> "SUCCEEDED"
    [] outcome[w] = "invalid" -> "DEGENERATE"
    [] outcome[w] = "timeout" -> "TIMED_OUT"
    [] outcome[w] = "oom"     -> "PENDING"
    [] OTHER -> IF RetriesLeft(w) THEN "PENDING" ELSE "FAILED"

VerdictEvent(w) ==
  CASE outcome[w] = "ok"      -> "task_succeeded"
    [] outcome[w] = "invalid" -> "task_degenerate"
    [] outcome[w] = "timeout" -> "task_timed_out"
    [] outcome[w] = "oom"     -> "task_oom_requeued"
    [] OTHER -> IF RetriesLeft(w) THEN "task_retry_scheduled" ELSE "task_failed"

Record(w) ==
  /\ pc[w] = "record"
  /\ UpdateTaskStatus(held[w], Verdict(w))
  /\ Goto(w, "close")
  /\ UNCHANGED <<frameVars, callVars, zombies>>

RecordRefused(w) ==
  /\ pc[w] = "record"
  /\ ~TaskTransitionAllowed(status[held[w]], Verdict(w))
  /\ Goto(w, "raised")
  /\ UNCHANGED <<storeVars, frameVars, callVars, zombies>>

(* The result artifact of a success or a degenerate result is written after *)
(* the status and before the event.                                         *)
ArtifactFails(w) ==
  /\ pc[w] = "close"
  /\ ArtifactFaults
  /\ outcome[w] \in {"ok", "invalid"}
  /\ Goto(w, "raised")
  /\ UNCHANGED <<storeVars, frameVars, callVars, zombies>>

(* Two slips: the event, or the refresh, is missing.                        *)
CloseUnlogged(w) ==
  /\ pc[w] = "close"
  /\ CallRefresh(w, IF outcome[w] = "ok" THEN "ok" ELSE "raised")
  /\ UNCHANGED <<storeVars, callVars, zombies>>

CloseUnrefreshed(w) ==
  /\ pc[w] = "close"
  /\ AppendEvent(held[w], VerdictEvent(w), attempt[w])
  /\ Goto(w, IF outcome[w] = "ok" THEN "ok" ELSE "raised")
  /\ UNCHANGED <<frameVars, callVars, zombies>>

Close(w) ==
  /\ pc[w] = "close"
  /\ AppendEvent(held[w], VerdictEvent(w), attempt[w])
  /\ CallRefresh(w, IF outcome[w] = "ok" THEN "ok" ELSE "raised")
  /\ UNCHANGED <<callVars, zombies>>

RefreshStep(w) == Refresh(w) /\ UNCHANGED <<callVars, zombies>>

RunOnceStep(w) ==
  \/ Lease(w)
  \/ LeaseNothing(w)
  \/ BumpAttempts(w)
  \/ MarkRunning(w)
  \/ MarkRefused(w)
  \/ Announce(w)
  \/ RefreshStep(w)
  \/ Prepare(w)
  \/ HandlerEnds(w)
  \/ OomBudget(w)
  \/ Record(w)
  \/ RecordRefused(w)
  \/ ArtifactFails(w)
  \/ Close(w)

(* The frame of the call is gone once it returned.                          *)
ReturnFrame(w) ==
  /\ held' = [held EXCEPT ![w] = NoTask]
  /\ attempt' = [attempt EXCEPT ![w] = 0]
  /\ outcome' = [outcome EXCEPT ![w] = "none"]
  /\ seen' = [seen EXCEPT ![w] = "CREATED"]
  /\ stamped' = [stamped EXCEPT ![w] = FALSE]
  /\ target' = [target EXCEPT ![w] = "CREATED"]
  /\ after' = [after EXCEPT ![w] = "lease"]

-----------------------------------------------------------------------------
(* Worker w has marked its task RUNNING and has not recorded a verdict.     *)
Underway(w) ==
  \/ pc[w] \in {"announce", "prepare", "execute", "oom_count", "record"}
  \/ pc[w] \in RefreshPC /\ after[w] = "prepare"

(* The threads inside the handler of task t, abandoned ones included.       *)
HandlerThreads(t) ==
  {<<w, "call">> : w \in {v \in Worker : pc[v] = "execute" /\ held[v] = t}}
    \cup {<<w, "zombie">> : w \in {v \in Worker : t \in zombies[v]}}

(* No two threads ever run the handler of the same task, although           *)
(* mark_task_running and update_task_status never look at the lease owner,  *)
(* leases run out under slow workers, and timed-out threads are abandoned   *)
(* ("every task run exactly once with no double execution",                 *)
(* tests/concurrency/test_multiprocess.py).                                 *)
SingleExecutor == \A t \in Task : \A a, b \in HandlerThreads(t) : a = b

(* The task as TaskCustody sees it.                                         *)
RunnerOf(t) ==
  IF \E w \in Worker : Underway(w) /\ held[w] = t
  THEN CHOOSE w \in Worker : Underway(w) /\ held[w] = t
  ELSE NoWorker

PhaseOf(t) ==
  IF status[t] \in {"PENDING", "LEASED"} THEN "open"
  ELSE IF status[t] = "RUNNING" THEN "underway"
  ELSE status[t]

(* Whatever stale refresh wrote it, a final status and the finished_at      *)
(* stamp are never premature: COMPLETED and FAILED say how every task       *)
(* ended, PARTIAL_FAILED that some task did not succeed.                    *)
Justifies(s) ==
  /\ s = "COMPLETED" => \A t \in Task : status[t] = "SUCCEEDED"
  /\ s = "FAILED" => \A t \in Task : status[t] \in Unsuccessful \cup {"CANCELLED"}
  /\ s = "PARTIAL_FAILED" => \E t \in Task : status[t] \in Unsuccessful

RunStatusJustified ==
  /\ Justifies(runStatus)
  /\ finished => \A t \in Task : status[t] \in TerminalTask
=============================================================================
