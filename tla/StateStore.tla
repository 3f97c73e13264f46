----------------------------- MODULE StateStore -----------------------------
(***************************************************************************)
(* The StateStore of one run (state/store.py, implemented by state/        *)
(* sqlite.py and state/memory_store.py): the tasks table, the run row and  *)
(* the event log.  Each operator is one method of the store, that is one   *)
(* transaction: it is atomic, and nothing spans two of them.               *)
(*                                                                         *)
(* Abstractions.  task_key is a natural number, so that ORDER BY task_key  *)
(* is <=.  leased_until is the flag expired: "leased_until < now" holds.   *)
(* events[t] keeps <<kind, n>> for each event about task t, n being the    *)
(* number its payload carries: the attempt, or the prior reclaims; for     *)
(* lease_expired, which carries none, the attempt count at that moment.    *)
(* Results, errors, payloads, artifacts and run-level events are left out. *)
(***************************************************************************)
EXTENDS Lifecycle, FiniteSets

CONSTANTS
  Task,      \* the keys of the tasks of the run
  Worker,    \* the worker ids that may own a lease
  NoWorker   \* lease_owner IS NULL

ASSUME StoreAssumption ==
  /\ Task \subseteq Nat
  /\ NoWorker \notin Worker

VARIABLES
  status,    \* tasks.status
  owner,     \* tasks.lease_owner
  expired,   \* tasks.leased_until < now
  attempts,  \* tasks.attempt_count
  events,    \* the events about each task
  runStatus, \* runs.status
  finished   \* runs.finished_at IS NOT NULL

leaseVars == <<status, owner, expired>>
runVars   == <<runStatus, finished>>
storeVars == <<status, owner, expired, attempts, events, runStatus, finished>>

(* The kinds of event that close an attempt of a task.                      *)
ClosingKind == {"task_succeeded", "task_degenerate", "task_timed_out",
                "task_failed", "task_retry_scheduled", "task_oom_requeued"}

EventKind == ClosingKind \cup
             {"task_running", "lease_expired", "lease_reclaimed", "task_abandoned"}

StoreTypeOK ==
  /\ status \in [Task -> TaskStatus]
  /\ owner \in [Task -> Worker \cup {NoWorker}]
  /\ expired \in [Task -> BOOLEAN]
  /\ attempts \in [Task -> Nat]
  /\ events \in [Task -> SUBSET (EventKind \X Nat)]
  /\ runStatus \in RunStatus
  /\ finished \in BOOLEAN

(* What FineTuneRunner.create_run leaves: a VALIDATED run, PENDING tasks.   *)
StoreInit ==
  /\ status = [t \in Task |-> "PENDING"]
  /\ owner = [t \in Task |-> NoWorker]
  /\ expired = [t \in Task |-> FALSE]
  /\ attempts = [t \in Task |-> 0]
  /\ events = [t \in Task |-> {}]
  /\ runStatus = "VALIDATED"
  /\ finished = FALSE

-----------------------------------------------------------------------------
(* The events of task t of one kind, by the number their payload carries.   *)
Logged(t, kind) == {e[2] : e \in {x \in events[t] : x[1] = kind}}

WithEvent(t, kind, n) == [events EXCEPT ![t] = @ \cup {<<kind, n>>}]

AppendEvent(t, kind, n) ==
  /\ events' = WithEvent(t, kind, n)
  /\ UNCHANGED <<leaseVars, attempts, runVars>>

(* A slip: a RUNNING task whose lease ran out is up for grabs too.          *)
LeaseRanOutRunningToo(t) == status[t] \in {"LEASED", "RUNNING"} /\ expired[t]

(***************************************************************************)
(* lease_next_pending_task: the first task by key that is PENDING or whose *)
(* lease has run out; taking over a lease logs lease_expired in the same   *)
(* transaction.                                                            *)
(***************************************************************************)
LeaseRanOut(t) == status[t] = "LEASED" /\ expired[t]

Leaseable(t) == status[t] = "PENDING" \/ LeaseRanOut(t)

LeaseNextPendingTask(w, t) ==
  /\ Leaseable(t)
  /\ \A u \in Task : Leaseable(u) => t <= u
  /\ status' = [status EXCEPT ![t] = "LEASED"]
  /\ owner' = [owner EXCEPT ![t] = w]
  /\ expired' = [expired EXCEPT ![t] = FALSE]
  /\ events' = IF LeaseRanOut(t) THEN WithEvent(t, "lease_expired", attempts[t]) ELSE events
  /\ UNCHANGED <<attempts, runVars>>

(* Two slips in the WHERE clause of mark_task_running: a RUNNING task may be *)
(* marked again; any task may be marked.                                    *)
MayMarkTwice(t) == status[t] \in {"LEASED", "RUNNING"}

MayMarkAny(t) == TRUE

(* mark_task_running compares the status only, never the lease owner; the   *)
(* owner and the lease deadline stay.                                       *)
MayMark(t) == status[t] = "LEASED"

MarkTaskRunning(t) ==
  /\ MayMark(t)
  /\ status' = [status EXCEPT ![t] = "RUNNING"]
  /\ UNCHANGED <<owner, expired, attempts, events, runVars>>

IncrementTaskAttempts(t) ==
  /\ attempts' = [attempts EXCEPT ![t] = @ + 1]
  /\ UNCHANGED <<leaseVars, events, runVars>>

(* A slip: the lease columns are not cleared.                               *)
UpdateTaskStatusKeepLease(t, s) ==
  /\ TaskTransitionAllowed(status[t], s)
  /\ status' = [status EXCEPT ![t] = s]
  /\ UNCHANGED <<owner, expired, attempts, events, runVars>>

(* update_task_status: whoever calls it, the transition table decides; the  *)
(* lease is cleared.                                                        *)
UpdateTaskStatus(t, s) ==
  /\ TaskTransitionAllowed(status[t], s)
  /\ status' = [status EXCEPT ![t] = s]
  /\ owner' = [owner EXCEPT ![t] = NoWorker]
  /\ expired' = [expired EXCEPT ![t] = FALSE]
  /\ UNCHANGED <<attempts, events, runVars>>

(* A slip: the requeued tasks start counting their attempts afresh.         *)
RequeueExpiredLeasesAfresh ==
  /\ \E t \in Task : LeaseRanOut(t)
  /\ status' = [t \in Task |-> IF LeaseRanOut(t) THEN "PENDING" ELSE status[t]]
  /\ owner' = [t \in Task |-> IF LeaseRanOut(t) THEN NoWorker ELSE owner[t]]
  /\ expired' = [t \in Task |-> expired[t] /\ ~LeaseRanOut(t)]
  /\ attempts' = [t \in Task |-> IF LeaseRanOut(t) THEN 0 ELSE attempts[t]]
  /\ UNCHANGED <<events, runVars>>

(* requeue_expired_leases: every lease that ran out, in one transaction.    *)
RequeueExpiredLeases ==
  /\ \E t \in Task : LeaseRanOut(t)
  /\ status' = [t \in Task |-> IF LeaseRanOut(t) THEN "PENDING" ELSE status[t]]
  /\ owner' = [t \in Task |-> IF LeaseRanOut(t) THEN NoWorker ELSE owner[t]]
  /\ expired' = [t \in Task |-> expired[t] /\ ~LeaseRanOut(t)]
  /\ events' = [t \in Task |-> IF LeaseRanOut(t)
                                THEN events[t] \cup {<<"lease_expired", attempts[t]>>}
                                ELSE events[t]]
  /\ UNCHANGED <<attempts, runVars>>

(* The lease of t was reclaimed as often as the budget allows.              *)
ReclaimsSpent(t, budget) == Cardinality(Logged(t, "lease_reclaimed")) >= budget

OwnsTask(w, t) == owner[t] = w /\ status[t] \in {"LEASED", "RUNNING"}

(***************************************************************************)
(* reclaim_dead_worker: a task LEASED or RUNNING under the id of the dead  *)
(* worker is requeued, or FAILED once the budget is spent; the event is    *)
(* part of the transaction.  Neither the transition table nor the run's    *)
(* status is consulted, and any task of that id will do (LIMIT 1).         *)
(***************************************************************************)
ReclaimDeadWorker(w, budget) ==
  \/ /\ \A t \in Task : ~OwnsTask(w, t)
     /\ UNCHANGED storeVars
  \/ \E t \in Task :
       LET prior == Cardinality(Logged(t, "lease_reclaimed")) IN
       /\ OwnsTask(w, t)
       /\ status' = [status EXCEPT ![t] = IF ReclaimsSpent(t, budget) THEN "FAILED" ELSE "PENDING"]
       /\ owner' = [owner EXCEPT ![t] = NoWorker]
       /\ expired' = [expired EXCEPT ![t] = FALSE]
       /\ events' = WithEvent(t, IF ReclaimsSpent(t, budget) THEN "task_abandoned"
                                 ELSE "lease_reclaimed", prior)
       /\ UNCHANGED <<attempts, runVars>>

(* update_run_status writes whatever it is given.                           *)
UpdateRunStatus(s) ==
  /\ runStatus' = s
  /\ UNCHANGED <<leaseVars, attempts, events, finished>>

UpdateRunFinishedAt ==
  /\ finished' = TRUE
  /\ UNCHANGED <<leaseVars, attempts, events, runStatus>>

(* Time passes the deadline of a lease.  It matters only while the task is  *)
(* LEASED: no operation looks at the deadline of a RUNNING task.            *)
LeaseDeadlinePasses(t) ==
  /\ status[t] = "LEASED" /\ ~expired[t]
  /\ expired' = [expired EXCEPT ![t] = TRUE]
  /\ UNCHANGED <<status, owner, attempts, events, runVars>>
=============================================================================
