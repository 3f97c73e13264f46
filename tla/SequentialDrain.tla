--------------------------- MODULE SequentialDrain ---------------------------
(***************************************************************************)
(* Several `finetuneharness run` processes share one store and one run,    *)
(* each a LocalWorker with its own worker_id in LocalWorker.drain, while   *)
(* observers refresh the run's status.  Processes crash, leases run out,   *)
(* and an operator may requeue expired leases in bulk.                     *)
(***************************************************************************)
EXTENDS RunOnce

CONSTANTS
  MayCrash,     \* workers whose process may die
  StopEarly,    \* may stop_fn end a drain after a success?
  BulkRequeue,  \* does anybody call requeue_expired_leases?
  ExpiryBound   \* a lease runs out only while attempts are below this bound

ASSUME DrainAssumption ==
  /\ MayCrash \subseteq Worker
  /\ StopEarly \in BOOLEAN
  /\ BulkRequeue \in BOOLEAN
  /\ ExpiryBound \in Nat

VARIABLES
  succeeded,  \* the tasks each drain counted as succeeded
  verdict     \* how the drain ended

drainVars == <<succeeded, verdict>>
vars == <<onceVars, drainVars>>

DrainPC == OncePC \cup RefreshPC \cup {"report", "done", "dead"}
ObserverPC == RefreshPC \cup {"idle", "r_error"}

(* Types, and what ties the columns together: a lease owner is on record    *)
(* exactly while a task is LEASED or RUNNING (sqlite.py:220-224).           *)
TypeOK ==
  /\ OnceTypeOK
  /\ pc \in [Proc -> DrainPC \cup ObserverPC]
  /\ after \in [Proc -> {"lease", "prepare", "ok", "raised", "idle"}]
  /\ succeeded \in [Worker -> SUBSET Task]
  /\ verdict \in [Worker -> {"none", "clean", "degraded"}]
  /\ \A t \in Task : owner[t] = NoWorker <=> status[t] \notin {"LEASED", "RUNNING"}

Init ==
  /\ OnceInit
  /\ pc = [p \in Proc |-> IF p \in Worker THEN "lease" ELSE "idle"]
  /\ after = [p \in Proc |-> IF p \in Worker THEN "lease" ELSE "idle"]
  /\ succeeded = [w \in Worker |-> {}]
  /\ verdict = [w \in Worker |-> "none"]

-----------------------------------------------------------------------------
(* A slip: the count is assigned, not increased.                            *)
CountSuccessLast(w) ==
  /\ pc[w] = "ok"
  /\ succeeded' = [succeeded EXCEPT ![w] = {held[w]}]
  /\ Goto(w, "lease")
  /\ ReturnFrame(w)
  /\ UNCHANGED <<storeVars, zombies, verdict>>

CountSuccess(w) ==
  /\ pc[w] = "ok"
  /\ succeeded' = [succeeded EXCEPT ![w] = @ \cup {held[w]}]
  /\ \/ Goto(w, "lease")
     \/ StopEarly /\ Goto(w, "report")
  /\ ReturnFrame(w)
  /\ UNCHANGED <<storeVars, zombies, verdict>>

(* A slip: the first exception ends the loop.                               *)
SwallowErrorStop(w) ==
  /\ pc[w] \in {"raised", "r_error"}
  /\ Goto(w, "report")
  /\ ReturnFrame(w)
  /\ UNCHANGED <<storeVars, zombies, drainVars>>

(* except Exception: pass                                                   *)
SwallowError(w) ==
  /\ pc[w] \in {"raised", "r_error"}
  /\ Goto(w, "lease")
  /\ ReturnFrame(w)
  /\ UNCHANGED <<storeVars, zombies, drainVars>>

(* A slip: an empty queue does not end the loop.                            *)
QueueEmptyPolls(w) ==
  /\ pc[w] = "empty"
  /\ Goto(w, "lease")
  /\ ReturnFrame(w)
  /\ UNCHANGED <<storeVars, zombies, drainVars>>

QueueEmpty(w) ==
  /\ pc[w] = "empty"
  /\ Goto(w, "report")
  /\ ReturnFrame(w)
  /\ UNCHANGED <<storeVars, zombies, drainVars>>

(* DegradedRunError if any task is FAILED, TIMED_OUT or DEGENERATE.         *)
Report(w) ==
  /\ pc[w] = "report"
  /\ verdict' = [verdict EXCEPT ![w] =
       IF \E t \in Task : status[t] \in Unsuccessful THEN "degraded" ELSE "clean"]
  /\ Goto(w, "done")
  /\ UNCHANGED <<storeVars, frameVars, callVars, zombies, succeeded>>

DrainStep(w) ==
  \/ RunOnceStep(w) /\ UNCHANGED drainVars
  \/ CountSuccess(w)
  \/ SwallowError(w)
  \/ QueueEmpty(w)
  \/ Report(w)

-----------------------------------------------------------------------------
(* The process dies, and its handler threads with it.                       *)
Crash(w) ==
  /\ w \in MayCrash
  /\ pc[w] \notin {"done", "dead"}
  /\ Goto(w, "dead")
  /\ zombies' = [zombies EXCEPT ![w] = {}]
  /\ ReturnFrame(w)
  /\ UNCHANGED <<storeVars, drainVars>>

ObserverAsks(o) ==
  /\ pc[o] \in {"idle", "r_error"}
  /\ CallRefresh(o, "idle")
  /\ UNCHANGED <<storeVars, callVars, zombies, drainVars>>

ObserverStep(o) ==
  \/ ObserverAsks(o)
  \/ RefreshStep(o) /\ UNCHANGED drainVars

LeaseExpires(t) ==
  /\ attempts[t] < ExpiryBound
  /\ LeaseDeadlinePasses(t)
  /\ UNCHANGED <<pc, frameVars, callVars, zombies, drainVars>>

Requeue ==
  /\ BulkRequeue
  /\ RequeueExpiredLeases
  /\ UNCHANGED <<pc, frameVars, callVars, zombies, drainVars>>

Next ==
  \/ \E w \in Worker : DrainStep(w) \/ Crash(w)
  \/ \E w \in Worker : ZombieReturns(w) /\ UNCHANGED drainVars
  \/ \E o \in Observer : ObserverStep(o)
  \/ \E t \in Task : LeaseExpires(t)
  \/ Requeue

Spec == Init /\ [][Next]_vars

(* A live process keeps taking steps: sqlite serialises writers and every   *)
(* transaction is short.  HandlerEnds is included, so this assumes handlers *)
(* that return or have a timeout.  Nothing is assumed of crashes, expiries, *)
(* observers or abandoned threads.                                          *)
FairSpec == Spec /\ \A w \in Worker : WF_vars(DrainStep(w))

(* Moreover, somebody keeps asking for the status.                          *)
ObservedSpec == FairSpec /\ \A o \in Observer : WF_vars(ObserverStep(o))

-----------------------------------------------------------------------------
(***************************************************************************)
(* Safety of the executions.                                               *)
(***************************************************************************)
(* The drains implement the abstract promise of TaskCustody.                *)
Custody == INSTANCE TaskCustody
             WITH Recovers <- FALSE,
                  phase  <- [t \in Task |-> PhaseOf(t)],
                  runner <- [t \in Task |-> RunnerOf(t)]

(* Every step of the drains is a step of TaskCustody or invisible there:    *)
(* only the worker that marked a task settles it or gives it back.          *)
ImplementsCustody == Custody!Spec

(* Without an OOM budget the handler of a task starts max_attempts times at *)
(* most, also when expired leases let several workers count attempts of the *)
(* same lease (worker.py:169-170 counts before marking).                    *)
AttemptsBounded ==
  MaxOomRetries = 0 =>
    \A t \in Task : Cardinality(Logged(t, "task_running")) <= MaxAttempts[t]

(* The audit trail has one verdict per attempt, for an attempt that was     *)
(* announced: no two workers close the same attempt number.                 *)
OneVerdictPerAttempt ==
  \A t \in Task :
    /\ \A k \in ClosingKind : Logged(t, k) \subseteq Logged(t, "task_running")
    /\ \A k, l \in ClosingKind : Logged(t, k) \cap Logged(t, l) # {} => k = l

(* The log never contradicts the table: the event of a final verdict is     *)
(* appended after the status, in another transaction, and still stands.     *)
LoggedVerdictStands ==
  \A t \in Task :
    /\ Logged(t, "task_succeeded")  # {} => status[t] = "SUCCEEDED"
    /\ Logged(t, "task_failed")     # {} => status[t] = "FAILED"
    /\ Logged(t, "task_timed_out")  # {} => status[t] = "TIMED_OUT"
    /\ Logged(t, "task_degenerate") # {} => status[t] = "DEGENERATE"

(* No success is counted by two drains, or counted without being on record. *)
SuccessCountedOnce ==
  /\ \A w \in Worker : \A t \in succeeded[w] : status[t] = "SUCCEEDED"
  /\ \A v, w \in Worker : succeeded[v] \cap succeeded[w] # {} => v = w

-----------------------------------------------------------------------------
(***************************************************************************)
(* The run's status.                                                       *)
(***************************************************************************)
(* Once every drain has returned and no refresh is under way, a run whose   *)
(* tasks all SUCCEEDED reads COMPLETED (tests/concurrency/                  *)
(* test_concurrent_stress.py: test_concurrent_status_refresh_is_safe).      *)
CompletedRunReadsCompleted ==
  /\ \A w \in Worker : pc[w] = "done"
  /\ \A o \in Observer : pc[o] = "idle"
  /\ \A t \in Task : status[t] = "SUCCEEDED"
  => runStatus = "COMPLETED"

(* The run row and the tasks never contradict each other so much that the   *)
(* next refresh, reading both afresh, would have to raise.                  *)
AlwaysRefreshable ==
  LET tgt == RunTarget(Task, status, attempts) IN
    \/ tgt = runStatus
    \/ RunTransitionAllowed(runStatus, tgt)
    \/ ReachableViaRunning(runStatus, tgt)

-----------------------------------------------------------------------------
(***************************************************************************)
(* What a drain reports.                                                   *)
(***************************************************************************)
(* Before drain swallows an exception, run_once has logged how the attempt  *)
(* ended ("status + event already recorded by run_once", worker.py:489).    *)
RaisedMeansRecorded ==
  \A w \in Worker :
    pc[w] \in {"raised", "r_error"} /\ attempt[w] \in Logged(held[w], "task_running")
      => \E k \in ClosingKind : attempt[w] \in Logged(held[w], k)

(* A settled task has the event of its verdict, or a worker is just about   *)
(* to append it (README: "task state transitions must be auditable").       *)
SettledIsLogged ==
  \A t \in Task :
    LET pendingEvent(o) == \E w \in Worker :
          pc[w] = "close" /\ held[w] = t /\ outcome[w] \in o
    IN /\ status[t] = "SUCCEEDED"  =>
            Logged(t, "task_succeeded") # {} \/ pendingEvent({"ok"})
       /\ status[t] = "DEGENERATE" =>
            Logged(t, "task_degenerate") # {} \/ pendingEvent({"invalid"})
       /\ status[t] = "TIMED_OUT"  =>
            Logged(t, "task_timed_out") # {} \/ pendingEvent({"timeout"})
       /\ status[t] = "FAILED" =>
            Logged(t, "task_failed") # {} \/ pendingEvent({"error", "oom_spent"})

(* A drain that had the run to itself and was not stopped early returns     *)
(* normally only if every task succeeded, counts exactly the successes, and *)
(* leaves the run in the status its tasks call for.                         *)
LoneDrainTruthful ==
  \A w \in Worker : pc[w] = "done" =>
    /\ verdict[w] = "clean" <=> \A t \in Task : status[t] = "SUCCEEDED"
    /\ succeeded[w] = {t \in Task : status[t] = "SUCCEEDED"}
    /\ runStatus = RunTarget(Task, status, attempts)

(* When all drains have returned, between them they counted every success.  *)
EverySuccessCounted ==
  (\A w \in Worker : pc[w] = "done")
    => {t \in Task : status[t] = "SUCCEEDED"} = UNION {succeeded[w] : w \in Worker}

-----------------------------------------------------------------------------
(***************************************************************************)
(* Liveness, under FairSpec.                                               *)
(***************************************************************************)
(* Every task gets a verdict, whoever picks it up and however often its     *)
(* lease changes hands.                                                     *)
EveryTaskSettles == \A t \in Task : <>(status[t] \in TerminalTask)

(* However stale the refresh that wrote last: once the workers have stopped *)
(* and somebody keeps asking, the run settles on the status its tasks call  *)
(* for.                                                                     *)
QuiescentRunIsRepaired ==
  [](   (\A w \in Worker : pc[w] \in {"done", "dead"})
     => <>[](runStatus = RunTarget(Task, status, attempts)))

(* Every drain returns: no two workers keep each other busy for ever.       *)
EveryDrainReturns == \A w \in Worker : <>(pc[w] = "done")
=============================================================================
