--------------------------- MODULE RunOnceProofs ---------------------------
(***************************************************************************)
(* What holds of run_once and refresh_run_status whoever calls them: the   *)
(* lemmas that SequentialDrainProofs and ConcurrentDrainProofs share.      *)
(*                                                                         *)
(* The proofs go through the store: whatever step is taken, the store sees *)
(* one of its own operations or nothing (StoreStep), so what the           *)
(* operations keep is kept by every step.  The run row comes last: what    *)
(* refreshes that overlap keep of it, and which of them can be refused.    *)
(***************************************************************************)
EXTENDS RunOnce, FiniteSetTheorems, TLAPS

(* The statuses run_once records.  LEASED and RUNNING are for the store's    *)
(* own lease_next_pending_task and mark_task_running.                       *)
Recorded == TaskStatus \ {"LEASED", "RUNNING"}

(* What a step may do to the store.                                         *)
StoreStep ==
  \/ \E w \in Worker, t \in Task : LeaseNextPendingTask(w, t)
  \/ \E t \in Task, k \in EventKind, n \in Nat : AppendEvent(t, k, n)
  \/ \E t \in Task : MarkTaskRunning(t)
  \/ \E t \in Task : IncrementTaskAttempts(t)
  \/ \E t \in Task, s \in Recorded : UpdateTaskStatus(t, s)
  \/ \E t \in Task : LeaseDeadlinePasses(t)
  \/ RequeueExpiredLeases
  \/ \E w \in Worker, budget \in Nat : ReclaimDeadWorker(w, budget)
  \/ \E s \in RunStatus : UpdateRunStatus(s)
  \/ UpdateRunFinishedAt
  \/ UNCHANGED storeVars

(* What reclaim_dead_worker does to the task it finds.                       *)
ReclaimOf(t, budget) ==
  /\ status' = [status EXCEPT ![t] = IF ReclaimsSpent(t, budget) THEN "FAILED" ELSE "PENDING"]
  /\ owner' = [owner EXCEPT ![t] = NoWorker]
  /\ expired' = [expired EXCEPT ![t] = FALSE]
  /\ events' = WithEvent(t, IF ReclaimsSpent(t, budget) THEN "task_abandoned"
                            ELSE "lease_reclaimed",
                         Cardinality(Logged(t, "lease_reclaimed")))
  /\ UNCHANGED <<attempts, runVars>>

(* The log of a task is finite: its events can be counted.                  *)
LogFinite == \A t \in Task, kind \in EventKind : IsFiniteSet(Logged(t, kind))

(* The types, with an owner on record exactly while a task is LEASED or     *)
(* RUNNING.                                                                 *)
StoreInv ==
  /\ StoreTypeOK
  /\ LogFinite
  /\ \A t \in Task : owner[t] = NoWorker <=> status[t] \notin {"LEASED", "RUNNING"}

(* The places at which run_once has a task in hand, and all the places of   *)
(* the processes of either drain.                                           *)
InCall == (OncePC \ {"lease", "empty"}) \cup RefreshPC

Place == InCall \cup {"lease", "empty", "report", "done", "dead", "idle",
                      "off", "exiting", "gone"}

(* The local variables fit the place each process is at.                    *)
CallFrame ==
  /\ RefreshTypeOK
  /\ held \in [Worker -> Task \cup {NoTask}]
  /\ attempt \in [Worker -> Nat]
  /\ outcome \in [Worker -> Outcome]
  /\ zombies \in [Worker -> SUBSET Task]
  /\ pc \in [Proc -> Place]
  /\ after \in [Proc -> {"lease", "prepare", "ok", "raised", "idle"}]
  /\ \A w \in Worker : pc[w] \in InCall => held[w] \in Task
  /\ \A w \in Worker : pc[w] \in RefreshPC => after[w] \in {"prepare", "ok", "raised"}

OnceInv == StoreInv /\ CallFrame

-----------------------------------------------------------------------------
(***************************************************************************)
(* The store.                                                              *)
(***************************************************************************)
LEMMA LogStaysFinite ==
  ASSUME LogFinite,
         \A t \in Task : \E e : events'[t] \subseteq events[t] \cup {e}
  PROVE  LogFinite'
<1>1. SUFFICES ASSUME NEW t \in Task, NEW kind \in EventKind
               PROVE  IsFiniteSet(Logged(t, kind)')
  BY DEF LogFinite
<1>2. PICK e : events'[t] \subseteq events[t] \cup {e}
  OBVIOUS
<1>3. Logged(t, kind)' \subseteq Logged(t, kind) \cup {e[2]}
  BY <1>2 DEF Logged
<1>4. IsFiniteSet(Logged(t, kind) \cup {e[2]})
  BY FS_AddElement DEF LogFinite
<1> QED
  BY <1>3, <1>4, FS_Subset

(* An operation adds one event to a task's log at most.                     *)
LEMMA OneEventAtMost ==
  ASSUME StoreTypeOK, StoreStep, NEW t \in Task
  PROVE  \E e : events'[t] \subseteq events[t] \cup {e}
<1>0. events \in [Task -> SUBSET (EventKind \X Nat)]
  BY DEF StoreTypeOK
<1>1. ASSUME NEW u \in Task, NEW kind, NEW n, events' = WithEvent(u, kind, n)
      PROVE  events'[t] \subseteq events[t] \cup {<<kind, n>>}
  BY <1>0, <1>1 DEF WithEvent
<1>2. ASSUME RequeueExpiredLeases
      PROVE  events'[t] \subseteq events[t] \cup {<<"lease_expired", attempts[t]>>}
  BY <1>2 DEF RequeueExpiredLeases
<1>3. ASSUME NEW w \in Worker, NEW budget \in Nat, ReclaimDeadWorker(w, budget)
      PROVE  \E e : events'[t] \subseteq events[t] \cup {e}
  BY <1>1, <1>3, Zenon DEF ReclaimDeadWorker, storeVars
<1>4. ASSUME NEW w \in Worker, NEW u \in Task, LeaseNextPendingTask(w, u)
      PROVE  \E e : events'[t] \subseteq events[t] \cup {e}
  BY <1>1, <1>4 DEF LeaseNextPendingTask
<1>5. ASSUME NEW u \in Task, NEW kind \in EventKind, NEW n \in Nat, AppendEvent(u, kind, n)
      PROVE  \E e : events'[t] \subseteq events[t] \cup {e}
  BY <1>1, <1>5 DEF AppendEvent
<1>6. ASSUME UNCHANGED events
      PROVE  events'[t] \subseteq events[t] \cup {0}
  BY <1>6
<1> QED
  BY <1>2, <1>3, <1>4, <1>5, <1>6
  DEF StoreStep, MarkTaskRunning, IncrementTaskAttempts, UpdateTaskStatus,
      LeaseDeadlinePasses, UpdateRunStatus, UpdateRunFinishedAt, storeVars, runVars

(* Every operation of the store keeps the types and the owner column.       *)
LEMMA StoreKeepsTypes ==
  ASSUME StoreInv, StoreStep
  PROVE  StoreInv'
<1>l. LogFinite'
  BY LogStaysFinite, OneEventAtMost DEF StoreInv
<1>1. ASSUME NEW w \in Worker, NEW t \in Task, LeaseNextPendingTask(w, t)
      PROVE  StoreInv'
  BY <1>l, <1>1, StoreAssumption
  DEF StoreInv, StoreTypeOK, LeaseNextPendingTask, LeaseRanOut, WithEvent, TaskStatus,
      EventKind, ClosingKind, runVars
<1>2. ASSUME NEW t \in Task, NEW k \in EventKind, NEW n \in Nat, AppendEvent(t, k, n)
      PROVE  StoreInv'
  BY <1>l, <1>2 DEF StoreInv, StoreTypeOK, AppendEvent, WithEvent, leaseVars, runVars
<1>3. ASSUME NEW t \in Task, MarkTaskRunning(t)
      PROVE  StoreInv'
  BY <1>l, <1>3 DEF StoreInv, StoreTypeOK, MarkTaskRunning, MayMark, TaskStatus, runVars
<1>4. ASSUME NEW t \in Task, IncrementTaskAttempts(t)
      PROVE  StoreInv'
  BY <1>l, <1>4 DEF StoreInv, StoreTypeOK, IncrementTaskAttempts, leaseVars, runVars
<1>5. ASSUME NEW t \in Task, NEW s \in Recorded, UpdateTaskStatus(t, s)
      PROVE  StoreInv'
  BY <1>l, <1>5
  DEF StoreInv, StoreTypeOK, UpdateTaskStatus, Recorded, TaskStatus, runVars
<1>6. ASSUME NEW t \in Task, LeaseDeadlinePasses(t)
      PROVE  StoreInv'
  BY <1>l, <1>6 DEF StoreInv, StoreTypeOK, LeaseDeadlinePasses, runVars
<1>7. ASSUME RequeueExpiredLeases
      PROVE  StoreInv'
  BY <1>l, <1>7
  DEF StoreInv, StoreTypeOK, RequeueExpiredLeases, LeaseRanOut, TaskStatus,
      EventKind, ClosingKind, runVars
<1>8. ASSUME NEW s \in RunStatus, UpdateRunStatus(s)
      PROVE  StoreInv'
  BY <1>l, <1>8 DEF StoreInv, StoreTypeOK, UpdateRunStatus, leaseVars
<1>9. ASSUME UpdateRunFinishedAt
      PROVE  StoreInv'
  BY <1>l, <1>9 DEF StoreInv, StoreTypeOK, UpdateRunFinishedAt, leaseVars
<1>10. ASSUME UNCHANGED storeVars
       PROVE  StoreInv'
  BY <1>l, <1>10 DEF StoreInv, StoreTypeOK, storeVars
<1>11. ASSUME NEW w \in Worker, NEW budget \in Nat, ReclaimDeadWorker(w, budget)
       PROVE  StoreInv'
  <2>1. SUFFICES ASSUME NEW t \in Task, OwnsTask(w, t), ReclaimOf(t, budget)
                 PROVE  StoreInv'
    BY <1>10, <1>11 DEF ReclaimDeadWorker, ReclaimOf
  <2>2. Cardinality(Logged(t, "lease_reclaimed")) \in Nat
    BY FS_CardinalityType DEF StoreInv, LogFinite, EventKind
  <2>3. events' \in [Task -> SUBSET (EventKind \X Nat)]
    BY <2>1, <2>2 DEF StoreInv, StoreTypeOK, ReclaimOf, WithEvent, EventKind
  <2> QED
    BY <1>l, <2>1, <2>3 DEF StoreInv, StoreTypeOK, ReclaimOf, TaskStatus, runVars
<1> QED
  BY <1>1, <1>2, <1>3, <1>4, <1>5, <1>6, <1>7, <1>8, <1>9, <1>10, <1>11 DEF StoreStep


(* The status a refresh derives is one of five.                             *)
LEMMA RunTargetType ==
  ASSUME NEW T, NEW st, NEW att
  PROVE  RunTarget(T, st, att) \in {"VALIDATED", "RUNNING", "PARTIAL_FAILED",
                                    "FAILED", "COMPLETED"}
BY DEF RunTarget

(* What run_once records and logs are statuses and events of the right kind. *)
LEMMA VerdictType ==
  ASSUME NEW w \in Worker
  PROVE  Verdict(w) \in Recorded /\ VerdictEvent(w) \in ClosingKind
<1>1. Verdict(w) \in Recorded
  BY DEF Verdict, Recorded, TaskStatus
<1>2. VerdictEvent(w) \in ClosingKind
  BY DEF VerdictEvent, ClosingKind
<1> QED
  BY <1>1, <1>2

(* A step of a refresh writes the run row or nothing.                       *)
LEMMA RefreshStoreEffect ==
  ASSUME RefreshTypeOK, NEW p \in Proc, Refresh(p)
  PROVE  StoreStep
<1>1. CASE RefreshGetRun(p)
  BY <1>1 DEF RefreshGetRun, StoreStep
<1>2. CASE RefreshListTasks(p)
  BY <1>2 DEF RefreshListTasks, StoreStep
<1>3. CASE RefreshHop(p)
  BY <1>3 DEF RefreshHop, StoreStep, RunStatus
<1>4. CASE RefreshReread(p)
  BY <1>4 DEF RefreshReread, StoreStep
<1>5. CASE RefreshWrite(p)
  <2>1. target[p] \in RunStatus
    BY DEF RefreshTypeOK
  <2> QED
    BY <1>5, <2>1 DEF RefreshWrite, StoreStep
<1>6. CASE RefreshFinish(p)
  BY <1>6 DEF RefreshFinish, StoreStep
<1> QED
  BY <1>1, <1>2, <1>3, <1>4, <1>5, <1>6 DEF Refresh

(* Whatever step run_once takes, the store sees one operation or nothing.   *)
LEMMA OnceStoreEffect ==
  ASSUME OnceInv, NEW w \in Worker, RunOnceStep(w)
  PROVE  StoreStep
<1>0. /\ pc[w] \in InCall => held[w] \in Task
      /\ attempt[w] \in Nat
      /\ w \in Proc /\ RefreshTypeOK
  BY DEF OnceInv, CallFrame, Proc
<1>1. CASE Lease(w)
  BY <1>1 DEF Lease, StoreStep
<1>2. CASE LeaseNothing(w)
  BY <1>2 DEF LeaseNothing, StoreStep
<1>3. CASE BumpAttempts(w)
  BY <1>0, <1>3 DEF BumpAttempts, StoreStep, InCall, OncePC, ReturnPC
<1>4. CASE MarkRunning(w)
  BY <1>0, <1>4 DEF MarkRunning, StoreStep, InCall, OncePC, ReturnPC
<1>5. CASE MarkRefused(w)
  BY <1>5 DEF MarkRefused, StoreStep
<1>6. CASE Announce(w)
  BY <1>0, <1>6 DEF Announce, StoreStep, InCall, OncePC, ReturnPC, EventKind
<1>7. CASE RefreshStep(w)
  BY <1>0, <1>7, RefreshStoreEffect DEF RefreshStep
<1>8. CASE Prepare(w)
  BY <1>8 DEF Prepare, StoreStep
<1>9. CASE HandlerEnds(w)
  BY <1>9 DEF HandlerEnds, Execute, ExecuteTimesOut, StoreStep
<1>10. CASE OomBudget(w)
  BY <1>10 DEF OomBudget, StoreStep
<1>11. CASE Record(w)
  BY <1>0, <1>11, VerdictType DEF Record, StoreStep, InCall, OncePC, ReturnPC
<1>12. CASE RecordRefused(w)
  BY <1>12 DEF RecordRefused, StoreStep
<1>13. CASE ArtifactFails(w)
  BY <1>13 DEF ArtifactFails, StoreStep
<1>14. CASE Close(w)
  BY <1>0, <1>14, VerdictType DEF Close, StoreStep, InCall, OncePC, ReturnPC, EventKind
<1> QED
  BY <1>1, <1>2, <1>3, <1>4, <1>5, <1>6, <1>7, <1>8, <1>9, <1>10, <1>11,
     <1>12, <1>13, <1>14 DEF RunOnceStep

-----------------------------------------------------------------------------
(***************************************************************************)
(* The local variables.                                                    *)
(***************************************************************************)
(* A process in a refresh stays in it, leaves it with an error, or resumes   *)
(* where it said it would; and it touches nothing but the run row.          *)
LEMMA RefreshGoes ==
  ASSUME NEW p \in Proc, Refresh(p)
  PROVE  /\ pc[p] \in RefreshPC
         /\ UNCHANGED <<leaseVars, attempts, events, after>>
         /\ \E place \in RefreshPC \cup {"r_error", after[p]} : Goto(p, place)
BY DEF Refresh, RefreshGetRun, RefreshListTasks, RefreshHop, RefreshReread, RefreshWrite,
       RefreshFinish, ReturnFromRefresh, RouteTo, UpdateRunStatus, UpdateRunFinishedAt,
       storeVars, leaseVars, frameVars, RefreshPC

LEMMA RefreshTypes ==
  ASSUME OnceInv, NEW p \in Proc, Refresh(p)
  PROVE  RefreshTypeOK'
<1>0. RefreshTypeOK /\ runStatus \in RunStatus /\ finished \in BOOLEAN
  BY DEF OnceInv, CallFrame, StoreInv, StoreTypeOK
<1>1. CASE RefreshGetRun(p)
  BY <1>0, <1>1 DEF RefreshGetRun, ReadRun, RefreshTypeOK
<1>2. CASE RefreshListTasks(p)
  <2>1. RunTarget(Task, status, attempts) \in RunStatus
    BY RunTargetType DEF RunStatus
  <2> QED
    BY <1>0, <1>2, <2>1 DEF RefreshListTasks, ReturnFromRefresh, RefreshTypeOK, RunStatus
<1>3. CASE RefreshHop(p)
  BY <1>0, <1>3 DEF RefreshHop, frameVars, RefreshTypeOK
<1>4. CASE RefreshReread(p)
  BY <1>0, <1>4 DEF RefreshReread, ReadRun, RefreshTypeOK
<1>5. CASE RefreshWrite(p)
  BY <1>0, <1>5 DEF RefreshWrite, ReturnFromRefresh, frameVars, RefreshTypeOK, RunStatus
<1>6. CASE RefreshFinish(p)
  BY <1>0, <1>6 DEF RefreshFinish, ReturnFromRefresh, RefreshTypeOK, RunStatus
<1> QED
  BY <1>1, <1>2, <1>3, <1>4, <1>5, <1>6 DEF Refresh

(* A refresh leaves every process where its local variables fit.            *)
LEMMA RefreshKeepsFrames ==
  ASSUME OnceInv, NEW p \in Proc, Refresh(p), UNCHANGED <<callVars, zombies>>
  PROVE  CallFrame'
<1>0. CallFrame /\ RefreshTypeOK'
  BY RefreshTypes DEF OnceInv
<1>1. PICK place \in RefreshPC \cup {"r_error", after[p]} : Goto(p, place)
  BY RefreshGoes
<1>2. pc[p] \in RefreshPC /\ after' = after
  BY RefreshGoes
<1>3. /\ place \in Place
      /\ p \in Worker => held[p] \in Task
  BY <1>0, <1>2
  DEF CallFrame, Place, InCall, RefreshPC, OncePC, ReturnPC, Proc
<1>4. /\ pc' \in [Proc -> Place]
      /\ \A w \in Worker : pc'[w] \in InCall => held[w] \in Task
  BY <1>0, <1>1, <1>3 DEF CallFrame, Goto, Proc
<1>5. \A w \in Worker : pc'[w] \in RefreshPC => after[w] \in {"prepare", "ok", "raised"}
  BY <1>0, <1>1, <1>2 DEF CallFrame, Goto, Proc
<1> QED
  BY <1>0, <1>2, <1>4, <1>5 DEF CallFrame, callVars

(* A worker moves within a call, or calls a refresh.                        *)
LEMMA WorkerMove ==
  ASSUME CallFrame, RefreshTypeOK', NEW w \in Worker,
         NEW place \in OncePC \cup {"r_get", "report", "done", "dead", "off", "exiting", "gone"},
         Goto(w, place),
         place \in InCall => held'[w] \in Task,
         place = "r_get" => after'[w] \in {"prepare", "ok", "raised"},
         \/ UNCHANGED after
         \/ \E a \in {"lease", "prepare", "ok", "raised"} : after' = [after EXCEPT ![w] = a],
         \/ UNCHANGED held
         \/ \E t \in Task \cup {NoTask} : held' = [held EXCEPT ![w] = t],
         attempt' \in [Worker -> Nat], outcome' \in [Worker -> Outcome],
         zombies' \in [Worker -> SUBSET Task]
  PROVE  CallFrame'
<1>1. pc' \in [Proc -> Place]
  BY DEF CallFrame, Goto, Proc, Place, InCall, OncePC, ReturnPC, RefreshPC
<1>2. \A v \in Worker : pc'[v] \in InCall => held'[v] \in Task
  BY DEF CallFrame, Goto, Proc
<1>3. \A v \in Worker : pc'[v] \in RefreshPC => after'[v] \in {"prepare", "ok", "raised"}
  <2>1. ASSUME NEW v \in Worker, v # w, pc'[v] \in RefreshPC
        PROVE  after'[v] \in {"prepare", "ok", "raised"}
    BY <2>1 DEF CallFrame, Goto, Proc
  <2>2. pc'[w] \in RefreshPC => after'[w] \in {"prepare", "ok", "raised"}
    BY DEF CallFrame, Goto, Proc, RefreshPC, OncePC, ReturnPC
  <2> QED
    BY <2>1, <2>2
<1>4. /\ after' \in [Proc -> {"lease", "prepare", "ok", "raised", "idle"}]
      /\ held' \in [Worker -> Task \cup {NoTask}]
  BY DEF CallFrame, Proc
<1> QED
  BY <1>1, <1>2, <1>3, <1>4 DEF CallFrame

(* The frame of a call is cleared.                                          *)
LEMMA ReturnedFrame ==
  ASSUME CallFrame, NEW w \in Worker, ReturnFrame(w)
  PROVE  /\ RefreshTypeOK' /\ held' = [held EXCEPT ![w] = NoTask]
         /\ attempt' \in [Worker -> Nat] /\ outcome' \in [Worker -> Outcome]
         /\ after' = [after EXCEPT ![w] = "lease"]
BY DEF CallFrame, ReturnFrame, RefreshTypeOK, RunStatus, Outcome

(* Every step of run_once leaves every process where its local variables    *)
(* fit, and the worker within run_once or the refresh.                      *)
LEMMA OnceKeepsFrames ==
  ASSUME OnceInv, NEW w \in Worker, RunOnceStep(w)
  PROVE  CallFrame'
<1>0. /\ CallFrame /\ RefreshTypeOK /\ attempts \in [Task -> Nat]
      /\ held \in [Worker -> Task \cup {NoTask}] /\ attempt \in [Worker -> Nat]
      /\ outcome \in [Worker -> Outcome] /\ zombies \in [Worker -> SUBSET Task]
      /\ Worker \subseteq Proc
      /\ pc[w] \in InCall => held[w] \in Task
  BY DEF OnceInv, CallFrame, StoreInv, StoreTypeOK, Proc
<1> USE <1>0
    DEF OncePC, ReturnPC, InCall, RefreshPC, RefreshTypeOK, frameVars, callVars
<1>1. CASE Lease(w)
  BY <1>1, WorkerMove DEF Lease
<1>2. CASE LeaseNothing(w)
  BY <1>2, WorkerMove DEF LeaseNothing
<1>3. CASE BumpAttempts(w)
  BY <1>3, WorkerMove DEF BumpAttempts
<1>4. CASE MarkRunning(w)
  BY <1>4, WorkerMove DEF MarkRunning
<1>5. CASE MarkRefused(w)
  BY <1>5, WorkerMove DEF MarkRefused
<1>6. CASE Announce(w)
  BY <1>6, WorkerMove DEF Announce, CallRefresh, CallFrame
<1>7. CASE RefreshStep(w)
  BY <1>7, RefreshKeepsFrames DEF RefreshStep
<1>8. CASE Prepare(w)
  BY <1>8, WorkerMove DEF Prepare
<1>9. CASE HandlerEnds(w)
  BY <1>9, WorkerMove DEF HandlerEnds, Execute, ExecuteTimesOut, Outcome
<1>10. CASE OomBudget(w)
  <3>1. outcome' \in [Worker -> Outcome]
    BY <1>10 DEF OomBudget, Outcome, HandlerOutcome
  <3> QED
    BY <1>10, <3>1, WorkerMove DEF OomBudget
<1>11. CASE Record(w)
  BY <1>11, WorkerMove DEF Record
<1>12. CASE RecordRefused(w)
  BY <1>12, WorkerMove DEF RecordRefused
<1>13. CASE ArtifactFails(w)
  BY <1>13, WorkerMove DEF ArtifactFails
<1>14. CASE Close(w)
  BY <1>14, WorkerMove DEF Close, CallRefresh, CallFrame
<1> QED
  BY <1>1, <1>2, <1>3, <1>4, <1>5, <1>6, <1>7, <1>8, <1>9, <1>10, <1>11, <1>12,
     <1>13, <1>14 DEF RunOnceStep

(* A step of run_once stays within the call.                                *)
LEMMA OnceGoes ==
  ASSUME OnceInv, NEW w \in Worker, RunOnceStep(w)
  PROVE  \E place \in (OncePC \ {"lease"}) \cup RefreshPC : Goto(w, place)
<1>1. CASE RefreshStep(w)
  <2>1. PICK place \in RefreshPC \cup {"r_error", after[w]} : Goto(w, place)
    BY <1>1, RefreshGoes DEF RefreshStep, Proc
  <2>2. after[w] \in {"prepare", "ok", "raised"}
    BY <1>1, RefreshGoes DEF RefreshStep, Proc, OnceInv, CallFrame
  <2> QED
    BY <2>1, <2>2 DEF OncePC, ReturnPC
<1>2. CASE ~RefreshStep(w)
  BY <1>2
  DEF RunOnceStep, Lease, LeaseNothing, BumpAttempts, MarkRunning, MarkRefused, Announce,
      CallRefresh, Prepare, HandlerEnds, Execute, ExecuteTimesOut, OomBudget, Record,
      RecordRefused, ArtifactFails, Close, OncePC, ReturnPC, RefreshPC
<1> QED
  BY <1>1, <1>2

-----------------------------------------------------------------------------
(***************************************************************************)
(* Custody.  Most steps are quiet: they start no execution and leave       *)
(* RUNNING and TIMED_OUT tasks alone.  Three are not: marking a task,      *)
(* abandoning its thread and recording its verdict.                        *)
(***************************************************************************)
(* What makes SingleExecutor hold: a task underway is RUNNING and has one   *)
(* worker; an abandoned thread belongs to one worker, and its task is       *)
(* TIMED_OUT or about to be.                                                *)
CustodyInv ==
  /\ \A w \in Worker : Underway(w) => held[w] \in Task /\ status[held[w]] = "RUNNING"
  /\ \A v, w \in Worker : Underway(v) /\ Underway(w) /\ held[v] = held[w] => v = w
  /\ \A w \in Worker : \A t \in zombies[w] :
       \/ status[t] = "TIMED_OUT"
       \/ pc[w] = "record" /\ outcome[w] = "timeout" /\ held[w] = t
  /\ \A v, w \in Worker : zombies[v] \cap zombies[w] # {} => v = w

Quiet ==
  /\ \A t \in Task : status[t] \in {"RUNNING", "TIMED_OUT"} => status'[t] = status[t]
  /\ \A v \in Worker : Underway(v)' => Underway(v) /\ held'[v] = held[v]
  /\ \A v \in Worker : zombies'[v] \subseteq zombies[v]
  /\ \A v \in Worker : zombies'[v] # {} /\ pc[v] = "record" =>
       pc'[v] = "record" /\ outcome'[v] = outcome[v] /\ held'[v] = held[v]

LEMMA QuietKeepsCustody ==
  ASSUME OnceInv, CustodyInv, Quiet
  PROVE  CustodyInv'
<1>0. zombies \in [Worker -> SUBSET Task]
  BY DEF OnceInv, CallFrame
<1>1. \A w \in Worker : Underway(w)' => held'[w] \in Task /\ status'[held'[w]] = "RUNNING"
  BY DEF Quiet, CustodyInv
<1>2. \A v, w \in Worker : Underway(v)' /\ Underway(w)' /\ held'[v] = held'[w] => v = w
  BY DEF Quiet, CustodyInv
<1>3. \A w \in Worker : \A t \in zombies'[w] :
        \/ status'[t] = "TIMED_OUT"
        \/ pc'[w] = "record" /\ outcome'[w] = "timeout" /\ held'[w] = t
  BY <1>0 DEF Quiet, CustodyInv
<1>4. \A v, w \in Worker : zombies'[v] \cap zombies'[w] # {} => v = w
  BY DEF Quiet, CustodyInv
<1> QED
  BY <1>1, <1>2, <1>3, <1>4 DEF CustodyInv

(* Steps within a refresh are quiet: they only touch the run row, and an    *)
(* execution is underway throughout the refresh that announces it.          *)
LEMMA RefreshIsQuiet ==
  ASSUME OnceInv, NEW p \in Proc, Refresh(p), UNCHANGED <<callVars, zombies>>
  PROVE  Quiet
<1>0. /\ pc \in [Proc -> Place] /\ Worker \subseteq Proc
      /\ p \in Worker => after[p] \in {"prepare", "ok", "raised"}
      /\ pc[p] \in RefreshPC
  BY RefreshGoes DEF OnceInv, CallFrame, Proc
<1>1. /\ UNCHANGED <<status, after>>
      /\ \E place \in RefreshPC \cup {"r_error", after[p]} : Goto(p, place)
  BY RefreshGoes DEF leaseVars
<1>2. \A v \in Worker : Underway(v)' => Underway(v)
  BY <1>0, <1>1 DEF Underway, Goto, RefreshPC
<1> QED
  BY <1>0, <1>1, <1>2 DEF Quiet, callVars, Goto, RefreshPC

(* So is a step of a worker that records nothing, marks nothing and         *)
(* abandons nothing.                                                        *)
LEMMA MoveIsQuiet ==
  ASSUME OnceInv, NEW w \in Worker, pc[w] # "record", NEW place, Goto(w, place),
         \A t \in Task : status[t] \in {"RUNNING", "TIMED_OUT"} => status'[t] = status[t],
         \A v \in Worker \ {w} : held'[v] = held[v] /\ after'[v] = after[v]
                               /\ outcome'[v] = outcome[v],
         zombies' = zombies,
         \/ /\ place \in {"prepare", "execute", "oom_count", "record"}
            /\ Underway(w) /\ held'[w] = held[w]
         \/ place = "r_get" /\ after'[w] = "prepare" /\ Underway(w) /\ held'[w] = held[w]
         \/ place = "r_get" /\ after'[w] # "prepare"
         \/ place \in {"lease", "bump", "mark", "close", "ok", "raised", "empty", "report", "done",
                       "dead", "exiting", "gone", "off"}
  PROVE  Quiet
<1>0. pc \in [Proc -> Place] /\ Worker \subseteq Proc
  BY DEF OnceInv, CallFrame, Proc
<1>1. \A v \in Worker \ {w} : Underway(v)' => Underway(v)
  BY <1>0 DEF Underway, Goto
<1>2. Underway(w)' => Underway(w) /\ held'[w] = held[w]
  BY <1>0 DEF Underway, Goto, RefreshPC
<1> QED
  BY <1>0, <1>1, <1>2 DEF Quiet, Goto

(* A worker takes a LEASED task, which nobody is running.                   *)
LEMMA MarkKeepsCustody ==
  ASSUME OnceInv, CustodyInv, NEW w \in Worker, MarkRunning(w)
  PROVE  CustodyInv'
<1> DEFINE t == held[w]
<1>0. /\ t \in Task /\ status \in [Task -> TaskStatus]
      /\ pc \in [Proc -> Place] /\ Worker \subseteq Proc
      /\ zombies \in [Worker -> SUBSET Task]
  BY DEF OnceInv, CallFrame, StoreInv, StoreTypeOK, MarkRunning, InCall, OncePC, Proc
<1>1. /\ status[t] = "LEASED" /\ status' = [status EXCEPT ![t] = "RUNNING"]
      /\ pc[w] = "mark" /\ pc' = [pc EXCEPT ![w] = "announce"]
      /\ UNCHANGED <<held, after, outcome, zombies>>
  BY DEF MarkRunning, MarkTaskRunning, MayMark, Goto, frameVars, callVars
<1>2. \A v \in Worker \ {w} : Underway(v)' <=> Underway(v)
  BY <1>0, <1>1 DEF Underway
<1>3. \A v \in Worker : Underway(v) => held[v] # t
  BY <1>1 DEF CustodyInv
<1>4. \A v \in Worker : t \notin zombies[v]
  <2>1. SUFFICES ASSUME NEW v \in Worker, t \in zombies[v] PROVE FALSE
    OBVIOUS
  <2>2. pc[v] = "record" /\ held[v] = t
    BY <1>1, <2>1 DEF CustodyInv
  <2> QED
    BY <1>3, <2>2 DEF Underway
<1>5. \A v \in Worker : Underway(v)' => held'[v] \in Task /\ status'[held'[v]] = "RUNNING"
  BY <1>0, <1>1, <1>2 DEF CustodyInv
<1>6. \A u, v \in Worker : Underway(u)' /\ Underway(v)' /\ held'[u] = held'[v] => u = v
  BY <1>1, <1>2, <1>3 DEF CustodyInv
<1>7. \A v \in Worker : \A s \in zombies'[v] :
        \/ status'[s] = "TIMED_OUT"
        \/ pc'[v] = "record" /\ outcome'[v] = "timeout" /\ held'[v] = s
  BY <1>0, <1>1, <1>4 DEF CustodyInv
<1> QED
  BY <1>1, <1>5, <1>6, <1>7 DEF CustodyInv

(* The thread that is abandoned is the only one in its handler.             *)
LEMMA AbandonKeepsCustody ==
  ASSUME OnceInv, CustodyInv, NEW w \in Worker, ExecuteTimesOut(w)
  PROVE  CustodyInv'
<1>0. /\ pc \in [Proc -> Place] /\ Worker \subseteq Proc
      /\ zombies \in [Worker -> SUBSET Task] /\ outcome \in [Worker -> Outcome]
  BY DEF OnceInv, CallFrame, Proc
<1>1. /\ pc[w] = "execute" /\ pc' = [pc EXCEPT ![w] = "record"]
      /\ outcome' = [outcome EXCEPT ![w] = "timeout"]
      /\ UNCHANGED <<status, held, after>>
      /\ \/ zombies' = [zombies EXCEPT ![w] = @ \cup {held[w]}]
         \/ zombies' = zombies
  BY DEF ExecuteTimesOut, Goto, storeVars, frameVars
<1>2. \A v \in Worker : Underway(v)' <=> Underway(v)
  BY <1>0, <1>1 DEF Underway, RefreshPC
<1>3. Underway(w) /\ status[held[w]] = "RUNNING"
  BY <1>1 DEF CustodyInv, Underway
<1>4. \A v \in Worker : held[w] \notin zombies[v]
  <2>1. SUFFICES ASSUME NEW v \in Worker, held[w] \in zombies[v] PROVE FALSE
    OBVIOUS
  <2>2. pc[v] = "record" /\ held[v] = held[w]
    BY <1>3, <2>1 DEF CustodyInv
  <2>3. v = w
    BY <1>3, <2>2 DEF CustodyInv, Underway
  <2> QED
    BY <1>1, <2>2, <2>3
<1>5. \A v \in Worker : Underway(v)' => held'[v] \in Task /\ status'[held'[v]] = "RUNNING"
  BY <1>1, <1>2 DEF CustodyInv
<1>6. \A u, v \in Worker : Underway(u)' /\ Underway(v)' /\ held'[u] = held'[v] => u = v
  BY <1>1, <1>2 DEF CustodyInv
<1>7. \A v \in Worker : \A s \in zombies'[v] :
        \/ status'[s] = "TIMED_OUT"
        \/ pc'[v] = "record" /\ outcome'[v] = "timeout" /\ held'[v] = s
  BY <1>0, <1>1 DEF CustodyInv
<1>8. \A u, v \in Worker : zombies'[u] \cap zombies'[v] # {} => u = v
  BY <1>0, <1>1, <1>4 DEF CustodyInv
<1> QED
  BY <1>5, <1>6, <1>7, <1>8 DEF CustodyInv

(* The verdict is recorded by the one worker that has the task; an          *)
(* abandoned thread finds its task TIMED_OUT.                               *)
LEMMA RecordKeepsCustody ==
  ASSUME OnceInv, CustodyInv, NEW w \in Worker, Record(w)
  PROVE  CustodyInv'
<1> DEFINE t == held[w]
<1>0. /\ pc \in [Proc -> Place] /\ Worker \subseteq Proc
      /\ status \in [Task -> TaskStatus] /\ zombies \in [Worker -> SUBSET Task]
  BY DEF OnceInv, CallFrame, StoreInv, StoreTypeOK, Proc
<1>1. /\ pc[w] = "record" /\ pc' = [pc EXCEPT ![w] = "close"]
      /\ status' = [status EXCEPT ![t] = Verdict(w)]
      /\ UNCHANGED <<held, after, outcome, zombies>>
  BY DEF Record, UpdateTaskStatus, Goto, frameVars, callVars
<1>2. ~Underway(w)' /\ \A v \in Worker \ {w} : Underway(v)' <=> Underway(v)
  BY <1>0, <1>1 DEF Underway, RefreshPC
<1>3. t \in Task /\ Underway(w) /\ status[t] = "RUNNING"
  BY <1>1 DEF CustodyInv, Underway
<1>4. \A v \in Worker \ {w} : Underway(v) => held[v] # t
  BY <1>3 DEF CustodyInv
<1>5. \A v \in Worker : Underway(v)' => held'[v] \in Task /\ status'[held'[v]] = "RUNNING"
  BY <1>0, <1>1, <1>2, <1>4 DEF CustodyInv
<1>6. \A u, v \in Worker : Underway(u)' /\ Underway(v)' /\ held'[u] = held'[v] => u = v
  BY <1>1, <1>2 DEF CustodyInv
<1>7. ASSUME NEW v \in Worker, NEW s \in zombies'[v]
      PROVE  \/ status'[s] = "TIMED_OUT"
             \/ pc'[v] = "record" /\ outcome'[v] = "timeout" /\ held'[v] = s
  <2>1. CASE status[s] = "TIMED_OUT"
    BY <1>0, <1>1, <1>3, <1>7, <2>1
  <2>2. CASE v = w /\ outcome[w] = "timeout" /\ s = t
    BY <1>0, <1>1, <1>3, <2>2 DEF Verdict
  <2>3. CASE v # w /\ pc[v] = "record" /\ outcome[v] = "timeout" /\ held[v] = s
    BY <1>0, <1>1, <2>3
  <2> QED
    BY <1>1, <1>7, <2>1, <2>2, <2>3 DEF CustodyInv
<1> QED
  BY <1>1, <1>5, <1>6, <1>7 DEF CustodyInv

(* The transition table never refuses the verdict of a worker that marked   *)
(* its task: nobody else can have moved the task on.                        *)
LEMMA RecordNeverRefused ==
  ASSUME OnceInv, CustodyInv, NEW w \in Worker
  PROVE  ~RecordRefused(w)
<1>1. pc[w] = "record" => status[held[w]] = "RUNNING"
  BY DEF CustodyInv, Underway
<1>2. Verdict(w) \in {"SUCCEEDED", "DEGENERATE", "TIMED_OUT", "PENDING", "FAILED"}
  BY DEF Verdict
<1> QED
  BY <1>1, <1>2 DEF RecordRefused, TaskTransitionAllowed

LEMMA OnceKeepsCustody ==
  ASSUME OnceInv, CustodyInv, NEW w \in Worker, RunOnceStep(w)
  PROVE  CustodyInv'
<1>0. pc[w] \in InCall => held[w] \in Task
  BY DEF OnceInv, CallFrame
<1>h. /\ held \in [Worker -> Task \cup {NoTask}] /\ outcome \in [Worker -> Outcome]
      /\ after \in [Proc -> {"lease", "prepare", "ok", "raised", "idle"}]
      /\ Worker \subseteq Proc
  BY DEF OnceInv, CallFrame, Proc
<1> USE <1>0, <1>h, QuietKeepsCustody, MoveIsQuiet
    DEF storeVars, leaseVars, frameVars, callVars
<1>1. CASE Lease(w)
  <2>1. \A t \in Task : status[t] \in {"RUNNING", "TIMED_OUT"} => status'[t] = status[t]
    BY <1>1 DEF Lease, LeaseNextPendingTask, Leaseable, LeaseRanOut,
                OnceInv, StoreInv, StoreTypeOK
  <2> QED
    BY <1>1, <2>1 DEF Lease
<1>2. CASE LeaseNothing(w)
  BY <1>2 DEF LeaseNothing
<1>3. CASE BumpAttempts(w)
  BY <1>3 DEF BumpAttempts, IncrementTaskAttempts
<1>4. CASE MarkRunning(w)
  BY <1>4, MarkKeepsCustody
<1>5. CASE MarkRefused(w)
  BY <1>5 DEF MarkRefused
<1>6. CASE Announce(w)
  BY <1>6 DEF Announce, AppendEvent, CallRefresh, Underway
<1>7. CASE RefreshStep(w)
  BY <1>7, RefreshIsQuiet DEF RefreshStep
<1>8. CASE Prepare(w)
  BY <1>8 DEF Prepare, Underway
<1>9. CASE HandlerEnds(w)
  <2>1. ASSUME NEW o \in HandlerOutcome, Execute(w, o)
        PROVE  CustodyInv'
    <3>1. PICK place \in {"raised", "oom_count", "record"} : Goto(w, place)
      BY <2>1, Zenon DEF Execute
    <3>2. /\ pc[w] = "execute" /\ Underway(w)
          /\ UNCHANGED <<status, held, after, zombies>>
          /\ \A v \in Worker \ {w} : outcome'[v] = outcome[v]
      BY <2>1 DEF Execute, Underway
    <3> QED
      BY <3>1, <3>2
  <2> QED
    BY <1>9, <2>1, AbandonKeepsCustody DEF HandlerEnds
<1>10. CASE OomBudget(w)
  BY <1>10 DEF OomBudget, Underway
<1>11. CASE Record(w)
  BY <1>11, RecordKeepsCustody
<1>12. CASE RecordRefused(w)
  BY <1>12, RecordNeverRefused
<1>13. CASE ArtifactFails(w)
  BY <1>13 DEF ArtifactFails
<1>14. CASE Close(w)
  BY <1>14 DEF Close, AppendEvent, CallRefresh
<1> QED
  BY <1>1, <1>2, <1>3, <1>4, <1>5, <1>6, <1>7, <1>8, <1>9, <1>10, <1>11,
     <1>12, <1>13, <1>14 DEF RunOnceStep

(* Custody leaves room for one thread per handler.                          *)
LEMMA CustodyMeansSingle ==
  ASSUME CustodyInv
  PROVE  SingleExecutor
<1>1. SUFFICES ASSUME NEW t \in Task, NEW a \in HandlerThreads(t),
                      NEW b \in HandlerThreads(t)
               PROVE  a = b
  BY DEF SingleExecutor
<1>2. ASSUME NEW v \in Worker, pc[v] = "execute", held[v] = t,
             NEW w \in Worker, t \in zombies[w]
      PROVE  FALSE
  <2>1. Underway(v) /\ status[t] = "RUNNING"
    BY <1>2 DEF CustodyInv, Underway
  <2>2. Underway(w) /\ held[w] = t /\ pc[w] = "record"
    BY <1>2, <2>1 DEF CustodyInv, Underway
  <2>3. v = w
    BY <1>2, <2>1, <2>2 DEF CustodyInv
  <2> QED
    BY <1>2, <2>2, <2>3
<1>3. CASE \E v, w \in Worker : /\ a = <<v, "call">> /\ pc[v] = "execute" /\ held[v] = t
                               /\ b = <<w, "call">> /\ pc[w] = "execute" /\ held[w] = t
  BY <1>3 DEF CustodyInv, Underway
<1>4. CASE \E v, w \in Worker : /\ a = <<v, "zombie">> /\ t \in zombies[v]
                               /\ b = <<w, "zombie">> /\ t \in zombies[w]
  BY <1>4 DEF CustodyInv
<1> QED
  BY <1>2, <1>3, <1>4 DEF HandlerThreads

-----------------------------------------------------------------------------
(***************************************************************************)
(* The run's status.  A refresh writes what it derived from tasks it read  *)
(* some time ago, so the invariant speaks of the targets under way too.    *)
(* They stay true because a verdict is final.                              *)
(***************************************************************************)
AllSettled == \A t \in Task : status[t] \in TerminalTask

TargetPC == {"r_hop", "r_reread", "r_write"}

StatusInv ==
  /\ RunStatusJustified
  /\ \A p \in Proc : pc[p] \in TargetPC =>
       target[p] \in RunStatus \ {"CANCELLED"} /\ Justifies(target[p])
  /\ \A p \in Proc : pc[p] = "r_finish" => AllSettled

VerdictsStand == \A t \in Task : status[t] \in TerminalTask => status'[t] = status[t]

LEMMA StoreKeepsVerdicts ==
  ASSUME StoreInv, StoreStep
  PROVE  VerdictsStand
<1> USE DEF VerdictsStand, TerminalTask, InProgress, StoreInv, StoreTypeOK, storeVars,
            leaseVars, runVars
<1>1. ASSUME NEW w \in Worker, NEW t \in Task, LeaseNextPendingTask(w, t)
      PROVE  VerdictsStand
  BY <1>1 DEF LeaseNextPendingTask, Leaseable, LeaseRanOut
<1>2. ASSUME NEW t \in Task, MarkTaskRunning(t)
      PROVE  VerdictsStand
  BY <1>2 DEF MarkTaskRunning, MayMark
<1>3. ASSUME NEW t \in Task, NEW s \in Recorded, UpdateTaskStatus(t, s)
      PROVE  VerdictsStand
  BY <1>3 DEF UpdateTaskStatus, TaskTransitionAllowed
<1>4. ASSUME RequeueExpiredLeases
      PROVE  VerdictsStand
  BY <1>4 DEF RequeueExpiredLeases, LeaseRanOut
<1>5. ASSUME UNCHANGED status
      PROVE  VerdictsStand
  BY <1>5
<1>6. ASSUME NEW w \in Worker, NEW budget \in Nat, ReclaimDeadWorker(w, budget)
      PROVE  VerdictsStand
  BY <1>6 DEF ReclaimDeadWorker, OwnsTask
<1> QED
  BY <1>1, <1>2, <1>3, <1>4, <1>5, <1>6
  DEF StoreStep, AppendEvent, IncrementTaskAttempts, LeaseDeadlinePasses, UpdateRunStatus,
      UpdateRunFinishedAt

(* What justifies a status goes on justifying it.                           *)
LEMMA JustifiesStable ==
  ASSUME StoreInv, VerdictsStand
  PROVE  /\ \A s : Justifies(s) => Justifies(s)'
         /\ AllSettled => AllSettled'
<1>1. Unsuccessful \cup {"SUCCEEDED", "CANCELLED"} \subseteq TerminalTask
  BY DEF Unsuccessful, TerminalTask, TaskStatus, InProgress
<1> QED
  BY <1>1 DEF Justifies, AllSettled, VerdictsStand

(* The status a refresh derives is justified when it derives it.            *)
LEMMA TargetJustified == Justifies(RunTarget(Task, status, attempts))
BY DEF Justifies, RunTarget

LEMMA SettledByTarget ==
  ASSUME NEW s \in {"COMPLETED", "FAILED"}, Justifies(s)
  PROVE  AllSettled
BY DEF Justifies, AllSettled, Unsuccessful, TerminalTask, TaskStatus, InProgress

(* A step that leaves the run row alone and brings no process to a write.   *)
LEMMA ElsewhereKeepsStatus ==
  ASSUME StoreInv, StatusInv, VerdictsStand, UNCHANGED runVars,
         \A p \in Proc : pc'[p] \in TargetPC \cup {"r_finish"} =>
                          pc'[p] = pc[p] /\ target'[p] = target[p]
  PROVE  StatusInv'
<1>1. RunStatusJustified'
  BY JustifiesStable DEF StatusInv, RunStatusJustified, AllSettled, runVars
<1>2. \A p \in Proc : (pc[p] \in TargetPC =>
        target[p] \in RunStatus \ {"CANCELLED"} /\ Justifies(target[p]))'
  BY JustifiesStable DEF StatusInv, Justifies, TargetPC
<1>3. \A p \in Proc : (pc[p] = "r_finish" => AllSettled)'
  BY JustifiesStable DEF StatusInv
<1> QED
  BY <1>1, <1>2, <1>3 DEF StatusInv

LEMMA RefreshKeepsStatus ==
  ASSUME OnceInv, StatusInv, NEW p \in Proc, Refresh(p)
  PROVE  StatusInv'
<1>0. /\ StoreInv /\ pc \in [Proc -> Place]
      /\ target \in [Proc -> RunStatus]
      /\ after[p] \notin TargetPC \cup {"r_finish"}
  BY DEF OnceInv, CallFrame, RefreshTypeOK, TargetPC, Proc
<1>v. UNCHANGED status
  BY DEF Refresh, RefreshGetRun, RefreshListTasks, RefreshHop, RefreshReread, RefreshWrite,
         RefreshFinish, UpdateRunStatus, UpdateRunFinishedAt, storeVars, leaseVars
<1>s. VerdictsStand /\ (AllSettled => AllSettled') /\ \A s : Justifies(s) => Justifies(s)'
  BY <1>0, <1>v, JustifiesStable DEF VerdictsStand
<1> USE <1>0, <1>v, <1>s
<1>1. CASE RefreshGetRun(p)
  BY <1>1, ElsewhereKeepsStatus DEF RefreshGetRun, Goto, storeVars, runVars, TargetPC
<1>2. CASE RefreshListTasks(p)
  <2> DEFINE tgt == RunTarget(Task, status, attempts)
  <2>1. CASE tgt = seen[p]
    BY <1>2, <2>1, ElsewhereKeepsStatus
    DEF RefreshListTasks, ReturnFromRefresh, Goto, storeVars, runVars, TargetPC
  <2>2. CASE tgt # seen[p]
    <3>1. /\ target' = [target EXCEPT ![p] = tgt] /\ Goto(p, RouteTo(p, tgt))
          /\ UNCHANGED storeVars
      BY <1>2, <2>2 DEF RefreshListTasks
    <3>2. tgt \in RunStatus \ {"CANCELLED"} /\ Justifies(tgt)
      BY RunTargetType, TargetJustified DEF RunStatus
    <3>3. RouteTo(p, tgt) # "r_finish"
      BY DEF RouteTo
    <3>4. RunStatusJustified'
      BY <3>1 DEF StatusInv, RunStatusJustified, AllSettled, storeVars
    <3> HIDE DEF tgt
    <3> QED
      BY <3>1, <3>2, <3>3, <3>4 DEF StatusInv, Goto
  <2> QED
    BY <2>1, <2>2
<1>3. CASE RefreshHop(p)
  <2>1. RunStatusJustified'
    BY <1>3 DEF RefreshHop, UpdateRunStatus, RunStatusJustified, StatusInv, Justifies,
                AllSettled
  <2> QED
    BY <1>3, <2>1 DEF RefreshHop, Goto, frameVars, StatusInv, TargetPC
<1>4. CASE RefreshReread(p)
  <2>1. RunStatusJustified'
    BY <1>4 DEF RefreshReread, StatusInv, RunStatusJustified, AllSettled, storeVars
  <2> QED
    BY <1>4, <2>1 DEF RefreshReread, Goto, StatusInv, TargetPC
<1>5. CASE RefreshWrite(p)
  <2>1. target[p] \in RunStatus \ {"CANCELLED"} /\ Justifies(target[p])
    BY <1>5 DEF RefreshWrite, StatusInv, TargetPC
  <2>2. runStatus' = target[p] /\ finished' = finished
    BY <1>5 DEF RefreshWrite, UpdateRunStatus
  <2>3. RunStatusJustified'
    BY <2>1, <2>2 DEF StatusInv, RunStatusJustified, AllSettled
  <2>4. CASE target[p] \in TerminalRun /\ ~stamped[p]
    <3>1. AllSettled
      BY <2>1, <2>4, SettledByTarget DEF TerminalRun
    <3> QED
      BY <1>5, <2>3, <2>4, <3>1 DEF RefreshWrite, Goto, frameVars, StatusInv, TargetPC
  <2>5. CASE ~(target[p] \in TerminalRun /\ ~stamped[p])
    BY <1>5, <2>3, <2>5 DEF RefreshWrite, ReturnFromRefresh, Goto, StatusInv, TargetPC
  <2> QED
    BY <2>4, <2>5
<1>6. CASE RefreshFinish(p)
  <2>1. RunStatusJustified'
    BY <1>6 DEF RefreshFinish, UpdateRunFinishedAt, StatusInv, RunStatusJustified, AllSettled
  <2> QED
    BY <1>6, <2>1 DEF RefreshFinish, ReturnFromRefresh, Goto, StatusInv, TargetPC
<1> QED
  BY <1>1, <1>2, <1>3, <1>4, <1>5, <1>6 DEF Refresh

LEMMA OnceKeepsStatus ==
  ASSUME OnceInv, StatusInv, NEW w \in Worker, RunOnceStep(w)
  PROVE  StatusInv'
<1>0. StoreInv /\ VerdictsStand /\ pc \in [Proc -> Place]
  BY OnceStoreEffect, StoreKeepsVerdicts DEF OnceInv, CallFrame
<1> USE <1>0 DEF storeVars, runVars, leaseVars, frameVars, TargetPC
<1>1. CASE ~RefreshStep(w)
  <2>1. UNCHANGED <<runVars, target>>
    BY <1>1
    DEF RunOnceStep, Lease, LeaseNextPendingTask, LeaseNothing, BumpAttempts,
        IncrementTaskAttempts, MarkRunning, MarkTaskRunning, MarkRefused, Announce,
        AppendEvent, CallRefresh, Prepare, HandlerEnds, Execute, ExecuteTimesOut, OomBudget,
        Record, UpdateTaskStatus, RecordRefused, ArtifactFails, Close
  <2>2. \E place : Goto(w, place) /\ place \notin TargetPC \cup {"r_finish"}
    BY <1>1
    DEF RunOnceStep, Lease, LeaseNothing, BumpAttempts, MarkRunning, MarkRefused, Announce,
        CallRefresh, Prepare, HandlerEnds, Execute, ExecuteTimesOut, OomBudget, Record,
        RecordRefused, ArtifactFails, Close
  <2> QED
    BY <2>1, <2>2, ElsewhereKeepsStatus DEF Goto
<1>2. CASE RefreshStep(w)
  BY <1>2, RefreshKeepsStatus DEF RefreshStep, Proc
<1> QED
  BY <1>1, <1>2

-----------------------------------------------------------------------------
(***************************************************************************)
(* What a step looks like to TaskCustody.  RunnerOf chooses, and custody   *)
(* leaves it one worker to choose.                                         *)
(***************************************************************************)
Phases  == [t \in Task |-> PhaseOf(t)]
Runners == [t \in Task |-> RunnerOf(t)]

Runs(w, t) == Underway(w) /\ held[w] = t

RunnersRight ==
  \A t \in Task :
    \/ RunnerOf(t) = NoWorker /\ \A w \in Worker : ~Runs(w, t)
    \/ RunnerOf(t) \in Worker /\ \A w \in Worker : Runs(w, t) <=> w = RunnerOf(t)

LEMMA RunnersAreRight == (CustodyInv => RunnersRight) /\ (CustodyInv' => RunnersRight')
<1>1. CustodyInv => RunnersRight
  BY DEF CustodyInv, RunnersRight, RunnerOf, Runs
<1>2. CustodyInv' => RunnersRight'
  BY DEF CustodyInv, RunnersRight, RunnerOf, Runs
<1> QED
  BY <1>1, <1>2

(* Begin; GiveBack or Settle; Lose; or nothing that shows.                  *)
Begins(w, t) ==
  /\ Phases[t] = "open"
  /\ \A u \in Task : Runners[u] # w
  /\ Phases' = [Phases EXCEPT ![t] = "underway"]
  /\ Runners' = [Runners EXCEPT ![t] = w]

Parts(w, t, p) ==
  /\ Runners[t] = w
  /\ Phases' = [Phases EXCEPT ![t] = p]
  /\ Runners' = [Runners EXCEPT ![t] = NoWorker]

Loses(w, t) ==
  /\ Runners[t] = w
  /\ Runners' = [Runners EXCEPT ![t] = NoWorker]
  /\ UNCHANGED Phases

CustodyMove ==
  \/ UNCHANGED <<Phases, Runners>>
  \/ \E w \in Worker, t \in Task :
       \/ Begins(w, t)
       \/ \E p \in {"open", "SUCCEEDED", "FAILED", "TIMED_OUT", "DEGENERATE"} : Parts(w, t, p)
       \/ Loses(w, t)

(* The other workers go on with what they run.                              *)
OthersGoOn(w) == \A v \in Worker \ {w} : \A t \in Task : Runs(v, t)' <=> Runs(v, t)

(* Every worker goes on with what it runs, and the statuses do not show it. *)
LEMMA GoingOnIsAMove ==
  ASSUME CustodyInv, CustodyInv',
         \A t \in Task : PhaseOf(t)' = PhaseOf(t),
         \A t \in Task : \A v \in Worker : Runs(v, t)' <=> Runs(v, t)
  PROVE  CustodyMove
<1>1. RunnersRight /\ RunnersRight' /\ NoWorker \notin Worker
  BY RunnersAreRight, StoreAssumption
<1>2. \A t \in Task : RunnerOf(t)' = RunnerOf(t)
  BY <1>1 DEF RunnersRight
<1> QED
  BY <1>2 DEF CustodyMove, Phases, Runners

(* A worker runs on or stops, and the statuses do not show it.              *)
LEMMA StoppingIsAMove ==
  ASSUME CustodyInv, CustodyInv', NEW w \in Worker, OthersGoOn(w),
         \A t \in Task : PhaseOf(t)' = PhaseOf(t),
         \A t \in Task : Runs(w, t)' => Runs(w, t)
  PROVE  CustodyMove
<1>0. RunnersRight /\ RunnersRight' /\ NoWorker \notin Worker
  BY RunnersAreRight, StoreAssumption
<1>1. UNCHANGED Phases
  BY DEF Phases
<1>2. CASE \A t \in Task : Runs(w, t) => Runs(w, t)'
  BY <1>2, GoingOnIsAMove DEF OthersGoOn
<1>3. ASSUME NEW t \in Task, Runs(w, t), ~Runs(w, t)'
      PROVE  CustodyMove
  <2>1. \A u \in Task \ {t} : ~Runs(w, u) /\ ~Runs(w, u)'
    BY <1>3 DEF Runs
  <2>2. \A u \in Task \ {t} : \A v \in Worker : Runs(v, u)' <=> Runs(v, u)
    BY <2>1 DEF OthersGoOn
  <2>3. \A u \in Task \ {t} : RunnerOf(u)' = RunnerOf(u)
    BY <1>0, <2>2 DEF RunnersRight
  <2>4. RunnerOf(t) = w
    BY <1>0, <1>3 DEF RunnersRight
  <2>5. \A v \in Worker : ~Runs(v, t)'
    BY <1>0, <1>3, <2>4 DEF OthersGoOn, RunnersRight
  <2>6. RunnerOf(t)' = NoWorker
    BY <1>0, <2>5 DEF RunnersRight
  <2>7. Loses(w, t)
    BY <1>1, <2>3, <2>4, <2>6 DEF Loses, Runners
  <2> QED
    BY <2>7 DEF CustodyMove
<1> QED
  BY <1>2, <1>3

(* Only a worker that moves changes what it runs.                           *)
LEMMA MovingAlone ==
  ASSUME OnceInv, NEW w \in Worker, NEW place, Goto(w, place),
         \A v \in Worker \ {w} : held'[v] = held[v] /\ after'[v] = after[v]
  PROVE  OthersGoOn(w)
<1>1. pc \in [Proc -> Place] /\ Worker \subseteq Proc
  BY DEF OnceInv, CallFrame, Proc
<1> QED
  BY <1>1 DEF OthersGoOn, Runs, Underway, Goto

LEMMA OnceMovesAlone ==
  ASSUME OnceInv, NEW w \in Worker, RunOnceStep(w)
  PROVE  /\ OthersGoOn(w)
         /\ Lease(w) \/ held' = held
<1>0. /\ held \in [Worker -> Task \cup {NoTask}]
      /\ after \in [Proc -> {"lease", "prepare", "ok", "raised", "idle"}]
      /\ Worker \subseteq Proc
  BY DEF OnceInv, CallFrame, Proc
<1>1. Lease(w) \/ held' = held
  BY DEF RunOnceStep, LeaseNothing, BumpAttempts, MarkRunning, MarkRefused, Announce,
         RefreshStep, Prepare, HandlerEnds, Execute, ExecuteTimesOut, OomBudget, Record,
         RecordRefused, ArtifactFails, Close, callVars
<1>2. \A v \in Worker \ {w} : held'[v] = held[v]
  BY <1>0, <1>1 DEF Lease
<1>3. \A v \in Worker \ {w} : after'[v] = after[v]
  <2>1. CASE RefreshStep(w)
    BY <2>1, RefreshGoes DEF RefreshStep, Proc
  <2>2. CASE ~RefreshStep(w)
    <3>1. UNCHANGED after \/ \E a : after' = [after EXCEPT ![w] = a]
      BY <2>2
      DEF RunOnceStep, Lease, LeaseNothing, BumpAttempts, MarkRunning, MarkRefused, Announce,
          CallRefresh, Prepare, HandlerEnds, Execute, ExecuteTimesOut, OomBudget, Record,
          RecordRefused, ArtifactFails, Close, frameVars
    <3> QED
      BY <1>0, <3>1
  <2> QED
    BY <2>1, <2>2
<1> QED
  BY <1>1, <1>2, <1>3, OnceGoes, MovingAlone

(* A task is begun by being marked, and in no other way.                    *)
LEMMA OnlyMarkBegins ==
  ASSUME OnceInv, NEW w \in Worker, RunOnceStep(w), ~MarkRunning(w)
  PROVE  \A t \in Task : Runs(w, t)' => Runs(w, t)
<1>0. /\ pc \in [Proc -> Place] /\ Worker \subseteq Proc
      /\ after \in [Proc -> {"lease", "prepare", "ok", "raised", "idle"}]
      /\ pc[w] \in RefreshPC => after[w] \in {"prepare", "ok", "raised"}
  BY DEF OnceInv, CallFrame, Proc
<1>1. CASE Lease(w) \/ LeaseNothing(w) \/ BumpAttempts(w) \/ MarkRefused(w) \/ Record(w)
           \/ RecordRefused(w) \/ ArtifactFails(w)
  <2>1. \E place \in {"bump", "empty", "mark", "raised", "close"} : Goto(w, place)
    BY <1>1 DEF Lease, LeaseNothing, BumpAttempts, MarkRefused, Record, RecordRefused, ArtifactFails
  <2> QED
    BY <1>0, <2>1 DEF Runs, Underway, Goto, RefreshPC
<1>2. CASE Announce(w) \/ Prepare(w) \/ HandlerEnds(w) \/ OomBudget(w)
  <2>1. Underway(w) /\ held' = held
    BY <1>2
    DEF Announce, Prepare, HandlerEnds, Execute, ExecuteTimesOut, OomBudget, Underway, callVars
  <2> QED
    BY <2>1 DEF Runs
<1>3. CASE Close(w)
  <2>1. Goto(w, "r_get") /\ \E a \in {"ok", "raised"} : after' = [after EXCEPT ![w] = a]
    BY <1>3 DEF Close, CallRefresh
  <2>2. ~Underway(w)'
    BY <1>0, <2>1 DEF Underway, Goto, RefreshPC
  <2> QED
    BY <2>2 DEF Runs
<1>4. CASE RefreshStep(w)
  <2>1. /\ held' = held /\ after' = after /\ pc[w] \in RefreshPC
        /\ \E place \in RefreshPC \cup {"r_error", after[w]} : Goto(w, place)
    BY <1>4, RefreshGoes DEF RefreshStep, callVars, Proc
  <2>2. Underway(w)' => Underway(w)
    BY <1>0, <2>1 DEF Underway, Goto, RefreshPC
  <2> QED
    BY <2>1, <2>2 DEF Runs
<1> QED
  BY <1>1, <1>2, <1>3, <1>4 DEF RunOnceStep

(* Marking a task begins it.                                                *)
LEMMA MarkingBegins ==
  ASSUME OnceInv, CustodyInv, CustodyInv', NEW w \in Worker, MarkRunning(w)
  PROVE  CustodyMove
<1>t. PICK t \in Task : t = held[w]
  BY DEF OnceInv, CallFrame, MarkRunning, InCall, OncePC
<1>0. /\ RunnersRight /\ RunnersRight' /\ NoWorker \notin Worker
      /\ status \in [Task -> TaskStatus] /\ pc \in [Proc -> Place] /\ Worker \subseteq Proc
      /\ OthersGoOn(w)
  BY RunnersAreRight, StoreAssumption, OnceMovesAlone
  DEF OnceInv, CallFrame, StoreInv, StoreTypeOK, Proc, RunOnceStep
<1>1. /\ pc[w] = "mark" /\ pc' = [pc EXCEPT ![w] = "announce"]
      /\ status[t] = "LEASED" /\ status' = [status EXCEPT ![t] = "RUNNING"]
      /\ held' = held
  BY <1>t DEF MarkRunning, MarkTaskRunning, MayMark, Goto, callVars
<1>2. /\ \A u \in Task : ~Runs(w, u)
      /\ \A u \in Task : Runs(w, u)' <=> u = t
  BY <1>t, <1>0, <1>1 DEF Runs, Underway, RefreshPC
<1>3. Phases[t] = "open" /\ Phases' = [Phases EXCEPT ![t] = "underway"]
  BY <1>0, <1>1 DEF Phases, PhaseOf
<1>4. \A u \in Task : Runners[u] # w
  BY <1>0, <1>2 DEF Runners, RunnersRight
<1>5. \A u \in Task \ {t} : \A v \in Worker : Runs(v, u)' <=> Runs(v, u)
  BY <1>0, <1>2 DEF OthersGoOn
<1>6. \A u \in Task \ {t} : RunnerOf(u)' = RunnerOf(u)
  BY <1>0, <1>5 DEF RunnersRight
<1>7. RunnerOf(t)' = w
  BY <1>0, <1>2 DEF RunnersRight
<1>8. Begins(w, t)
  BY <1>0, <1>3, <1>4, <1>6, <1>7 DEF Begins, Runners
<1> QED
  BY <1>0, <1>8 DEF CustodyMove

(* Recording a verdict gives the task back or settles it.                   *)
LEMMA RecordingParts ==
  ASSUME OnceInv, CustodyInv, CustodyInv', NEW w \in Worker, Record(w)
  PROVE  CustodyMove
<1>t. PICK t \in Task : t = held[w]
  BY DEF CustodyInv, Underway, Record
<1>0. /\ RunnersRight /\ RunnersRight' /\ NoWorker \notin Worker
      /\ status \in [Task -> TaskStatus] /\ pc \in [Proc -> Place] /\ Worker \subseteq Proc
      /\ OthersGoOn(w)
  BY RunnersAreRight, StoreAssumption, OnceMovesAlone
  DEF OnceInv, CallFrame, StoreInv, StoreTypeOK, Proc, RunOnceStep
<1>1. /\ pc[w] = "record" /\ pc' = [pc EXCEPT ![w] = "close"]
      /\ status' = [status EXCEPT ![t] = Verdict(w)]
      /\ held' = held
  BY <1>t DEF Record, UpdateTaskStatus, Goto, callVars
<1>2. /\ Runs(w, t)
      /\ \A u \in Task \ {t} : ~Runs(w, u)
      /\ \A u \in Task : ~Runs(w, u)'
  BY <1>t, <1>0, <1>1 DEF Runs, Underway, RefreshPC
<1>3. PICK p \in {"open", "SUCCEEDED", "FAILED", "TIMED_OUT", "DEGENERATE"} :
        p = IF Verdict(w) = "PENDING" THEN "open" ELSE Verdict(w)
  BY DEF Verdict
<1>4. Verdict(w) \in {"PENDING", "SUCCEEDED", "FAILED", "TIMED_OUT", "DEGENERATE"}
  BY DEF Verdict
<1>5. Phases' = [Phases EXCEPT ![t] = p]
  BY <1>0, <1>1, <1>2, <1>3, <1>4 DEF Phases, PhaseOf
<1>6. RunnerOf(t) = w
  BY <1>0, <1>2 DEF RunnersRight
<1>7. \A v \in Worker : ~Runs(v, t)'
  BY <1>0, <1>2, <1>6 DEF OthersGoOn, RunnersRight
<1>8. RunnerOf(t)' = NoWorker
  BY <1>0, <1>2, <1>7 DEF RunnersRight
<1>9. \A u \in Task \ {t} : \A v \in Worker : Runs(v, u)' <=> Runs(v, u)
  BY <1>0, <1>2 DEF OthersGoOn
<1>10. \A u \in Task \ {t} : RunnerOf(u)' = RunnerOf(u)
  BY <1>0, <1>9 DEF RunnersRight
<1>11. Parts(w, t, p)
  BY <1>2, <1>5, <1>6, <1>8, <1>10 DEF Parts, Runners
<1> QED
  BY <1>2, <1>3, <1>11 DEF CustodyMove

(* Every step of run_once is a step of TaskCustody, or invisible there.     *)
LEMMA OnceIsAMove ==
  ASSUME OnceInv, CustodyInv, NEW w \in Worker, RunOnceStep(w)
  PROVE  CustodyMove
<1>0. CustodyInv' /\ OthersGoOn(w)
  BY OnceKeepsCustody, OnceMovesAlone
<1>1. CASE MarkRunning(w)
  BY <1>0, <1>1, MarkingBegins
<1>2. CASE Record(w)
  BY <1>0, <1>2, RecordingParts
<1>3. CASE ~MarkRunning(w) /\ ~Record(w)
  <2>1. \A t \in Task : PhaseOf(t)' = PhaseOf(t)
    <3>1. CASE Lease(w)
      BY <3>1
      DEF Lease, LeaseNextPendingTask, Leaseable, LeaseRanOut, PhaseOf, OnceInv, StoreInv,
          StoreTypeOK
    <3>2. CASE ~Lease(w) /\ ~RefreshStep(w)
      BY <1>3, <3>2
      DEF RunOnceStep, LeaseNothing, BumpAttempts, IncrementTaskAttempts, MarkRefused,
          Announce, AppendEvent, Prepare, HandlerEnds, Execute, ExecuteTimesOut, OomBudget,
          RecordRefused, ArtifactFails, Close, storeVars, leaseVars, PhaseOf
    <3>3. CASE RefreshStep(w)
      BY <3>3, RefreshGoes DEF RefreshStep, leaseVars, PhaseOf, Proc
    <3> QED
      BY <3>1, <3>2, <3>3
  <2> QED
    BY <1>0, <1>3, <2>1, OnlyMarkBegins, StoppingIsAMove
<1> QED
  BY <1>1, <1>2, <1>3

-----------------------------------------------------------------------------
(***************************************************************************)
(* The log and the attempts.  A worker is counting from having counted an  *)
(* attempt until it has closed it.                                         *)
(***************************************************************************)
(* The events the properties speak of.                                      *)
Watched == ClosingKind \cup {"task_running", "lease_reclaimed"}

(* A worker has counted an attempt that it has not closed yet; it has       *)
(* announced it.                                                            *)
Counting(w) == pc[w] \in {"mark", "close"} \/ Underway(w)

Announced(w) == Counting(w) /\ pc[w] \notin {"mark", "announce"}

KeepsLog == \A t \in Task, k \in Watched : Logged(t, k)' = Logged(t, k)

KeepsAttempts ==
  \A v \in Worker : Counting(v)' =>
    /\ Counting(v) /\ held'[v] = held[v] /\ attempt'[v] = attempt[v]
    /\ Announced(v)' => Announced(v)

KeepsClosing ==
  \A v \in Worker : pc'[v] = "close" =>
    pc[v] = "close" /\ held'[v] = held[v] /\ attempt'[v] = attempt[v] /\ outcome'[v] = outcome[v]

(* A worker that takes no step.                                             *)
Stays(v) ==
  /\ pc'[v] = pc[v] /\ after'[v] = after[v]
  /\ held'[v] = held[v] /\ attempt'[v] = attempt[v] /\ outcome'[v] = outcome[v]

LEMMA LogKept ==
  ASSUME \A t \in Task : \/ events'[t] = events[t]
                         \/ \E n : events'[t] = events[t] \cup {<<"lease_expired", n>>}
  PROVE  KeepsLog
<1>1. SUFFICES ASSUME NEW t \in Task, NEW k \in Watched
               PROVE  Logged(t, k)' = Logged(t, k)
  BY DEF KeepsLog
<1>2. k # "lease_expired"
  BY DEF Watched, ClosingKind
<1>3. CASE events'[t] = events[t]
  BY <1>3 DEF Logged
<1>4. ASSUME NEW n, events'[t] = events[t] \cup {<<"lease_expired", n>>}
      PROVE  Logged(t, k)' = Logged(t, k)
  <2>1. {x \in events'[t] : x[1] = k} = {x \in events[t] : x[1] = k}
    BY <1>2, <1>4
  <2> QED
    BY <2>1 DEF Logged
<1> QED
  BY <1>3, <1>4

LEMMA LogGrows ==
  ASSUME StoreTypeOK, NEW t \in Task, NEW kind, NEW n, AppendEvent(t, kind, n),
         NEW u \in Task, NEW k
  PROVE  Logged(u, k)' = IF u = t /\ k = kind THEN Logged(u, k) \cup {n} ELSE Logged(u, k)
<1>1. events' = [events EXCEPT ![t] = events[t] \cup {<<kind, n>>}]
  BY DEF AppendEvent, WithEvent
<1>2. CASE u # t
  <2>1. events'[u] = events[u]
    BY <1>1, <1>2 DEF StoreTypeOK
  <2> QED
    BY <1>2, <2>1 DEF Logged
<1>3. CASE u = t
  <2>1. events'[u] = events[u] \cup {<<kind, n>>}
    BY <1>1, <1>3 DEF StoreTypeOK
  <2>2. CASE k = kind
    <3>1. <<kind, n>>[1] = kind /\ <<kind, n>>[2] = n
      OBVIOUS
    <3>2. {x \in events'[u] : x[1] = k} = {x \in events[u] : x[1] = k} \cup {<<kind, n>>}
      BY <2>1, <2>2, <3>1, Zenon
    <3>3. {e[2] : e \in {x \in events'[u] : x[1] = k}}
            = {e[2] : e \in {x \in events[u] : x[1] = k}} \cup {n}
      BY <3>1, <3>2
    <3> QED
      BY <1>3, <2>2, <3>3 DEF Logged
  <2>3. CASE k # kind
    <3>1. {x \in events'[u] : x[1] = k} = {x \in events[u] : x[1] = k}
      BY <2>1, <2>3
    <3> QED
      BY <2>3, <3>1 DEF Logged
  <2> QED
    BY <2>2, <2>3
<1> QED
  BY <1>2, <1>3

(* In run_once only the worker itself moves.                                *)
LEMMA OthersStay ==
  ASSUME OnceInv, NEW w \in Worker, RunOnceStep(w)
  PROVE  \A v \in Worker \ {w} : Stays(v)
<1>0. /\ CallFrame /\ Worker \subseteq Proc /\ OnceInv
  BY DEF OnceInv, Proc
<1>1. \E place : Goto(w, place)
  BY <1>0, OnceGoes
<1>2. CASE RefreshStep(w)
  BY <1>0, <1>1, <1>2, RefreshGoes DEF RefreshStep, callVars, CallFrame, Goto, Stays
<1>3. CASE ~RefreshStep(w)
  <2>1. UNCHANGED after \/ \E a : after' = [after EXCEPT ![w] = a]
    BY <1>3
    DEF RunOnceStep, Lease, LeaseNothing, BumpAttempts, MarkRunning, MarkRefused, Announce,
        CallRefresh, Prepare, HandlerEnds, Execute, ExecuteTimesOut, OomBudget, Record,
        RecordRefused, ArtifactFails, Close, frameVars
  <2>2. /\ UNCHANGED held \/ \E t : held' = [held EXCEPT ![w] = t]
        /\ UNCHANGED attempt \/ \E n : attempt' = [attempt EXCEPT ![w] = n]
        /\ UNCHANGED outcome \/ \E o : outcome' = [outcome EXCEPT ![w] = o]
    BY <1>3
    DEF RunOnceStep, Lease, LeaseNothing, BumpAttempts, MarkRunning, MarkRefused, Announce,
        CallRefresh, Prepare, HandlerEnds, Execute, ExecuteTimesOut, OomBudget, Record,
        RecordRefused, ArtifactFails, Close, callVars
  <2> QED
    BY <1>0, <1>1, <2>1, <2>2 DEF CallFrame, Goto, Stays
<1> QED
  BY <1>2, <1>3

(* A refresh neither begins nor ends an attempt.                            *)
LEMMA RefreshCalm ==
  ASSUME OnceInv, NEW w \in Worker, RefreshStep(w)
  PROVE  /\ UNCHANGED <<status, attempts, events, held, attempt, outcome, after>>
         /\ Counting(w)' => Counting(w) /\ Announced(w)
         /\ pc'[w] # "close" /\ (Underway(w)' => Underway(w) /\ pc'[w] # "announce")
<1>1. UNCHANGED <<status, attempts, events, held, attempt, outcome, after>>
  BY RefreshGoes DEF RefreshStep, callVars, leaseVars, Proc
<1>2. PICK place \in RefreshPC \cup {"r_error", after[w]} : Goto(w, place)
  BY RefreshGoes DEF RefreshStep, Proc
<1>3. pc[w] \in RefreshPC /\ after[w] \in {"prepare", "ok", "raised"} /\ pc'[w] = place
  BY <1>2, RefreshGoes DEF RefreshStep, OnceInv, CallFrame, Goto, Proc
<1>4. pc'[w] # "close" /\ pc'[w] # "announce"
  BY <1>3 DEF RefreshPC
<1>5. Underway(w)' => Underway(w)
  BY <1>1, <1>3 DEF Underway, RefreshPC
<1>6. Counting(w)' => Underway(w)'
  BY <1>3 DEF Counting, RefreshPC
<1> QED
  BY <1>1, <1>3, <1>4, <1>5, <1>6 DEF Counting, Announced, RefreshPC

LEMMA OnceKeepsLog ==
  ASSUME OnceInv, NEW w \in Worker, RunOnceStep(w), ~Announce(w), ~Close(w)
  PROVE  KeepsLog
<1>1. CASE Lease(w)
  <2>1. \A t \in Task : \/ events'[t] = events[t]
                        \/ \E n : events'[t] = events[t] \cup {<<"lease_expired", n>>}
    <3>1. PICK t \in Task : LeaseNextPendingTask(w, t)
      BY <1>1 DEF Lease
    <3>2. events' = events \/ events' = [events EXCEPT ![t] = @ \cup {<<"lease_expired", attempts[t]>>}]
      BY <3>1 DEF LeaseNextPendingTask, WithEvent
    <3> QED
      BY <3>2 DEF OnceInv, StoreInv, StoreTypeOK
  <2> QED
    BY <2>1, LogKept
<1>2. CASE ~Lease(w)
  <2>1. UNCHANGED events
    BY <1>2, RefreshCalm
    DEF RunOnceStep, LeaseNothing, BumpAttempts, IncrementTaskAttempts, MarkRunning,
        MarkTaskRunning, MarkRefused, Prepare, HandlerEnds, Execute, ExecuteTimesOut,
        OomBudget, Record, UpdateTaskStatus, RecordRefused, ArtifactFails, storeVars
  <2> QED
    BY <2>1, LogKept
<1> QED
  BY <1>1, <1>2

LEMMA OnceKeepsAttempts ==
  ASSUME OnceInv, NEW w \in Worker, RunOnceStep(w), ~BumpAttempts(w), ~Announce(w), ~Close(w)
  PROVE  KeepsAttempts /\ attempts' = attempts
<1>0. /\ \A v \in Worker \ {w} : Stays(v)
      /\ pc \in [Proc -> Place] /\ w \in Proc
  BY OthersStay DEF OnceInv, CallFrame, Proc
<1>1. \A v \in Worker \ {w} : (Counting(v)' <=> Counting(v)) /\ (Announced(v)' <=> Announced(v))
  BY <1>0 DEF Stays, Counting, Announced, Underway
<1>2. CASE RefreshStep(w)
  BY <1>0, <1>1, <1>2, RefreshCalm DEF KeepsAttempts, Stays
<1>3. CASE ~RefreshStep(w)
  <2>1. attempts' = attempts
    BY <1>3
    DEF RunOnceStep, Lease, LeaseNextPendingTask, LeaseNothing, MarkRunning, MarkTaskRunning,
        MarkRefused, Prepare, HandlerEnds, Execute, ExecuteTimesOut, OomBudget, Record,
        UpdateTaskStatus, RecordRefused, ArtifactFails, storeVars
  <2>2. CASE Lease(w) \/ LeaseNothing(w) \/ MarkRefused(w) \/ RecordRefused(w) \/ ArtifactFails(w)
    <3>1. pc'[w] \in {"bump", "empty", "raised"}
      BY <1>0, <2>2 DEF Lease, LeaseNothing, MarkRefused, RecordRefused, ArtifactFails, Goto
    <3>2. ~Counting(w)'
      BY <3>1 DEF Counting, Underway, RefreshPC
    <3> QED
      BY <1>0, <1>1, <2>1, <3>2 DEF KeepsAttempts, Stays
  <2>3. CASE MarkRunning(w)
    <3>1. pc[w] = "mark" /\ pc'[w] = "announce" /\ UNCHANGED <<held, attempt>>
      BY <1>0, <2>3 DEF MarkRunning, Goto, callVars
    <3> QED
      BY <1>0, <1>1, <2>1, <3>1 DEF KeepsAttempts, Stays, Counting, Announced
  <2>4. CASE Prepare(w) \/ HandlerEnds(w) \/ OomBudget(w) \/ Record(w)
    <3>1. pc[w] \in {"prepare", "execute", "oom_count", "record"} /\ UNCHANGED <<held, attempt>>
      BY <2>4 DEF Prepare, HandlerEnds, Execute, ExecuteTimesOut, OomBudget, Record, callVars
    <3>2. Announced(w)
      BY <3>1 DEF Announced, Counting, Underway
    <3> QED
      BY <1>0, <1>1, <2>1, <3>1, <3>2 DEF KeepsAttempts, Stays, Announced
  <2> QED
    BY <1>3, <2>2, <2>3, <2>4 DEF RunOnceStep
<1> QED
  BY <1>2, <1>3, RefreshCalm

LEMMA OnceKeepsClosing ==
  ASSUME OnceInv, NEW w \in Worker, RunOnceStep(w), ~Record(w)
  PROVE  KeepsClosing
<1>0. /\ \A v \in Worker \ {w} : Stays(v)
      /\ pc \in [Proc -> Place] /\ w \in Proc
  BY OthersStay DEF OnceInv, CallFrame, Proc
<1>1. pc'[w] # "close"
  <2>1. CASE RefreshStep(w)
    BY <2>1, RefreshCalm
  <2>2. CASE ~RefreshStep(w)
    <3>1. PICK place \in (OncePC \cup {"r_get"}) \ {"close"} : Goto(w, place)
      BY <2>2
      DEF RunOnceStep, Lease, LeaseNothing, BumpAttempts, MarkRunning, MarkRefused, Announce,
          CallRefresh, Prepare, HandlerEnds, Execute, ExecuteTimesOut, OomBudget,
          RecordRefused, ArtifactFails, Close, OncePC, ReturnPC
    <3> QED
      BY <1>0, <3>1 DEF Goto
  <2> QED
    BY <2>1, <2>2
<1> QED
  BY <1>0, <1>1 DEF KeepsClosing, Stays
-----------------------------------------------------------------------------
(***************************************************************************)
(* The run row and the next refresh.  A refresh raises ValueError when the *)
(* row it read and the target it derived are too far apart.  The row never *)
(* goes back to VALIDATED, and nobody who has counted an attempt derives   *)
(* VALIDATED, so a worker's refresh can only be refused after a detour     *)
(* through RUNNING, and that only while it announces its first attempt.    *)
(***************************************************************************)
Reached == {"VALIDATED", "RUNNING", "PARTIAL_FAILED", "FAILED", "COMPLETED"}

NoneCancelled == \A t \in Task : status[t] # "CANCELLED"

(* Somebody has set to work on the tasks.                                   *)
SomeTaken == \E t \in Task : status[t] # "PENDING" \/ attempts[t] > 0

(* Worker w has been through the refresh that announces its attempt.        *)
Seasoned(w) ==
  \/ pc[w] \in {"prepare", "execute", "oom_count", "record", "close", "ok"}
  \/ pc[w] \in RefreshPC /\ after[w] \in {"ok", "raised"}

(* What process p read is borne out by the tasks, and what it is about to   *)
(* write is not VALIDATED.                                                  *)
RowOf(p) ==
  /\ pc[p] = "r_list" => /\ seen[p] \in Reached /\ Justifies(seen[p])
                         /\ runStatus = "VALIDATED" => seen[p] = "VALIDATED"
  /\ pc[p] \in TargetPC => target[p] \in Reached \ {"VALIDATED"}
  /\ pc[p] \in {"r_reread", "r_finish"} => runStatus # "VALIDATED"

(* A worker past "bump" has counted an attempt; a seasoned one takes no     *)
(* detour and writes no RUNNING.                                            *)
WorkerRow(w) ==
  /\ pc[w] \in InCall \ {"bump"} => attempts[held[w]] > 0
  /\ Seasoned(w) => /\ runStatus # "VALIDATED"
                    /\ pc[w] \notin {"r_hop", "r_reread"}
                    /\ pc[w] = "r_list" => seen[w] # "VALIDATED"
                    /\ pc[w] = "r_write" => target[w] # "RUNNING"
  /\ pc[w] = "r_error" => after[w] = "prepare"

RowInv ==
  /\ NoneCancelled
  /\ runStatus \in Reached
  /\ \A p \in Proc : RowOf(p)
  /\ \A w \in Worker : WorkerRow(w)

(* A task that somebody has set to work on shows in the target.             *)
LEMMA StartedShows ==
  ASSUME StoreTypeOK, NoneCancelled, SomeTaken
  PROVE  RunTarget(Task, status, attempts) # "VALIDATED"
<1>1. PICK t \in Task : status[t] # "PENDING" \/ attempts[t] > 0
  BY DEF SomeTaken
<1>2. status[t] \in {"PENDING", "SUCCEEDED", "LEASED", "RUNNING"} \cup Unsuccessful
  BY DEF StoreTypeOK, NoneCancelled, TaskStatus, Unsuccessful
<1>3. \A u \in Task : status[u] \in InProgress \cup {"SUCCEEDED"} \cup Unsuccessful
  BY DEF StoreTypeOK, NoneCancelled, TaskStatus, Unsuccessful, InProgress
<1> QED
  BY <1>1, <1>2, <1>3 DEF RunTarget

(* A refresh that reads s and derives tgt does not raise at once.           *)
Routable(s, tgt) ==
  tgt = s \/ RunTransitionAllowed(s, tgt) \/ ReachableViaRunning(s, tgt)

(* From a status the tasks bear out the status they call for is in reach.   *)
LEMMA BorneOutIsRoutable ==
  ASSUME StoreTypeOK, NoneCancelled, NEW s \in Reached, Justifies(s),
         s # "VALIDATED" => SomeTaken
  PROVE  Routable(s, RunTarget(Task, status, attempts))
<1>0. PICK tgt \in Reached : tgt = RunTarget(Task, status, attempts)
  BY RunTargetType DEF Reached
<1>1. \A u \in Task : status[u] \in InProgress \cup {"SUCCEEDED"} \cup Unsuccessful
  BY DEF StoreTypeOK, NoneCancelled, TaskStatus, Unsuccessful, InProgress
<1>2. s # "VALIDATED" => tgt # "VALIDATED"
  BY <1>0, StartedShows
<1>3. ASSUME s = "VALIDATED"
      PROVE  Routable(s, tgt)
  BY <1>3 DEF Reached, Routable, RunTransitionAllowed, ReachableViaRunning
<1>4. ASSUME s = "RUNNING"
      PROVE  Routable(s, tgt)
  BY <1>2, <1>4 DEF Reached, Routable, RunTransitionAllowed
<1>5. ASSUME s = "PARTIAL_FAILED"
      PROVE  Routable(s, tgt)
  <2>1. PICK t \in Task : status[t] \in Unsuccessful
    BY <1>5 DEF Justifies
  <2>2. tgt \in {"PARTIAL_FAILED", "FAILED"}
    BY <1>0, <1>1, <2>1 DEF RunTarget, Unsuccessful
  <2> QED
    BY <1>5, <2>2 DEF Routable, RunTransitionAllowed
<1>6. ASSUME s = "FAILED"
      PROVE  Routable(s, tgt)
  <2>1. \A t \in Task : status[t] \in Unsuccessful
    BY <1>6 DEF Justifies, NoneCancelled
  <2>2. Task # {}
    BY <1>6 DEF SomeTaken
  <2>3. tgt = "FAILED"
    BY <1>0, <2>1, <2>2 DEF RunTarget, Unsuccessful, InProgress
  <2> QED
    BY <1>6, <2>3 DEF Routable
<1>7. ASSUME s = "COMPLETED"
      PROVE  Routable(s, tgt)
  <2>1. Task # {} /\ \A t \in Task : status[t] = "SUCCEEDED"
    BY <1>7 DEF Justifies, SomeTaken
  <2>2. tgt = "COMPLETED"
    BY <1>0, <2>1 DEF RunTarget
  <2> QED
    BY <1>7, <2>2 DEF Routable
<1>8. Routable(s, tgt)
  BY <1>3, <1>4, <1>5, <1>6, <1>7 DEF Reached
<1> QED
  BY <1>0, <1>8

(* What every step of a drain does: nobody writes VALIDATED, and attempts   *)
(* are never uncounted.                                                     *)
RowMoves ==
  /\ runStatus' \in Reached
  /\ runStatus # "VALIDATED" => runStatus' # "VALIDATED"

AttemptsStay == \A t \in Task : attempts[t] > 0 => attempts'[t] > 0

LEMMA RefreshMovesRow ==
  ASSUME OnceInv, RowInv, NEW p \in Proc, Refresh(p)
  PROVE  RowMoves
<1>1. CASE RefreshHop(p)
  BY <1>1 DEF RefreshHop, UpdateRunStatus, Reached, RowMoves
<1>2. CASE RefreshWrite(p)
  <2>1. target[p] \in Reached \ {"VALIDATED"}
    BY <1>2 DEF RefreshWrite, RowInv, RowOf, TargetPC
  <2> QED
    BY <1>2, <2>1 DEF RefreshWrite, UpdateRunStatus, RowMoves
<1> QED
  BY <1>1, <1>2
  DEF Refresh, RefreshGetRun, RefreshListTasks, RefreshReread, RefreshFinish,
      UpdateRunFinishedAt, storeVars, RowInv, RowMoves

(* In run_once only a refresh touches the run row.                          *)
LEMMA OnceLeavesRow ==
  ASSUME NEW w \in Worker, RunOnceStep(w), ~RefreshStep(w)
  PROVE  runStatus' = runStatus
BY DEF RunOnceStep, Lease, LeaseNextPendingTask, LeaseNothing, BumpAttempts,
       IncrementTaskAttempts, MarkRunning, MarkTaskRunning, MarkRefused, Announce, AppendEvent,
       Prepare, HandlerEnds, Execute, ExecuteTimesOut, OomBudget, Record, UpdateTaskStatus,
       RecordRefused, ArtifactFails, Close, storeVars, runVars

(* What run_once does to the tasks: a verdict comes from Record only.       *)
LEMMA OnceMovesTasks ==
  ASSUME OnceInv, NEW w \in Worker, RunOnceStep(w), NEW t \in Task
  PROVE  /\ attempts[t] > 0 => attempts'[t] > 0
         /\ \/ status'[t] \in {status[t], "LEASED", "RUNNING"}
            \/ Record(w) /\ held[w] = t /\ status'[t] = Verdict(w)
<1>0. status \in [Task -> TaskStatus] /\ attempts \in [Task -> Nat]
  BY DEF OnceInv, StoreInv, StoreTypeOK
<1>1. CASE Lease(w)
  BY <1>0, <1>1 DEF Lease, LeaseNextPendingTask
<1>2. CASE BumpAttempts(w)
  BY <1>0, <1>2 DEF BumpAttempts, IncrementTaskAttempts, leaseVars
<1>3. CASE MarkRunning(w)
  BY <1>0, <1>3 DEF MarkRunning, MarkTaskRunning
<1>4. CASE Record(w)
  BY <1>0, <1>4 DEF Record, UpdateTaskStatus
<1>5. CASE RefreshStep(w)
  BY <1>5, RefreshCalm
<1> QED
  BY <1>1, <1>2, <1>3, <1>4, <1>5
  DEF RunOnceStep, LeaseNothing, MarkRefused, Announce, AppendEvent, Prepare, HandlerEnds,
      Execute, ExecuteTimesOut, OomBudget, RecordRefused, ArtifactFails, Close, storeVars,
      leaseVars

(* A process takes a step of its own, stays as it is, or is nowhere near    *)
(* the middle of a refresh.                                                 *)
Idles(p) ==
  pc'[p] = pc[p] /\ after'[p] = after[p] /\ seen'[p] = seen[p] /\ target'[p] = target[p]

Outside(p) == pc'[p] \notin RefreshPC \ {"r_get"}

LEMMA OthersIdle ==
  ASSUME OnceInv, NEW q \in Proc, Refresh(q), NEW p \in Proc
  PROVE  Refresh(p) \/ Idles(p)
<1>0. /\ pc \in [Proc -> Place] /\ seen \in [Proc -> RunStatus] /\ target \in [Proc -> RunStatus]
      /\ after \in [Proc -> {"lease", "prepare", "ok", "raised", "idle"}]
  BY DEF OnceInv, CallFrame, RefreshTypeOK
<1> QED
  BY <1>0
  DEF Refresh, RefreshGetRun, ReadRun, RefreshListTasks, RefreshHop, RefreshReread,
      RefreshWrite, RefreshFinish, ReturnFromRefresh, Goto, frameVars, Idles

LEMMA OnceMovesOne ==
  ASSUME OnceInv, NEW w \in Worker, RunOnceStep(w), NEW p \in Proc
  PROVE  Refresh(p) \/ Idles(p) \/ Outside(p)
<1>0. /\ pc \in [Proc -> Place] /\ Worker \subseteq Proc
      /\ after \in [Proc -> {"lease", "prepare", "ok", "raised", "idle"}]
  BY DEF OnceInv, CallFrame, RefreshTypeOK, Proc
<1>1. CASE RefreshStep(w)
  BY <1>0, <1>1, OthersIdle DEF RefreshStep
<1>2. CASE ~RefreshStep(w)
  <2>1. UNCHANGED after \/ \E a : after' = [after EXCEPT ![w] = a]
    BY <1>2
    DEF RunOnceStep, Lease, LeaseNothing, BumpAttempts, MarkRunning, MarkRefused, Announce,
        CallRefresh, Prepare, HandlerEnds, Execute, ExecuteTimesOut, OomBudget, Record,
        RecordRefused, ArtifactFails, Close, frameVars
  <2>2. UNCHANGED <<seen, target>>
    BY <1>2
    DEF RunOnceStep, Lease, LeaseNothing, BumpAttempts, MarkRunning, MarkRefused, Announce,
        CallRefresh, Prepare, HandlerEnds, Execute, ExecuteTimesOut, OomBudget, Record,
        RecordRefused, ArtifactFails, Close, frameVars
  <2>3. PICK place \in OncePC \cup {"r_get"} : Goto(w, place)
    BY <1>2
    DEF RunOnceStep, Lease, LeaseNothing, BumpAttempts, MarkRunning, MarkRefused, Announce,
        CallRefresh, Prepare, HandlerEnds, Execute, ExecuteTimesOut, OomBudget, Record,
        RecordRefused, ArtifactFails, Close, OncePC, ReturnPC
  <2> QED
    BY <1>0, <2>1, <2>2, <2>3 DEF Goto, Idles, Outside, OncePC, ReturnPC, RefreshPC
<1> QED
  BY <1>1, <1>2

LEMMA IdlingKeepsRow ==
  ASSUME OnceInv, RowInv, RowMoves, VerdictsStand, NEW p \in Proc, Idles(p)
  PROVE  RowOf(p)'
<1>1. RowOf(p) /\ (runStatus # "VALIDATED" => runStatus' # "VALIDATED")
  BY DEF RowInv, RowMoves
<1>2. PICK s : s = seen[p] /\ s = seen'[p]
  BY DEF Idles
<1>3. Justifies(s) => Justifies(s)'
  BY JustifiesStable DEF OnceInv
<1>4. Justifies(seen[p]) => Justifies(seen[p])'
  BY <1>2, <1>3 DEF Justifies
<1> QED
  BY <1>1, <1>4 DEF RowOf, Idles

(* Whoever enters or leaves a refresh has nothing read or derived in hand.  *)
LEMMA AwayKeepsRow ==
  ASSUME NEW p \in Proc, Outside(p)
  PROVE  RowOf(p)'
BY DEF RowOf, Outside, TargetPC, RefreshPC

(* Deriving the target: a worker has counted an attempt of the task it      *)
(* holds, so the target is not VALIDATED and never out of reach.            *)
LEMMA ListingKeepsRow ==
  ASSUME OnceInv, RowInv, NEW p \in Proc, RefreshListTasks(p),
         p \in Worker => held'[p] = held[p]
  PROVE  RowOf(p)' /\ (p \in Worker => WorkerRow(p)' /\ pc'[p] # "r_error")
<1>0. /\ pc \in [Proc -> Place] /\ StoreTypeOK /\ NoneCancelled /\ pc[p] = "r_list"
      /\ target \in [Proc -> RunStatus]
      /\ after[p] \in {"lease", "prepare", "ok", "raised", "idle"}
      /\ p \in Worker => after[p] \in {"prepare", "ok", "raised"} /\ held[p] \in Task
  BY DEF OnceInv, StoreInv, CallFrame, RowInv, RefreshListTasks, RefreshTypeOK, InCall,
         RefreshPC
<1>1. /\ seen[p] \in Reached /\ Justifies(seen[p])
      /\ runStatus = "VALIDATED" => seen[p] = "VALIDATED"
  BY <1>0 DEF RowInv, RowOf
<1>2. PICK tgt \in Reached : tgt = RunTarget(Task, status, attempts)
  BY RunTargetType DEF Reached
<1>3. p \in Worker => attempts[held[p]] > 0 /\ (Seasoned(p) => seen[p] # "VALIDATED")
  BY <1>0 DEF RowInv, WorkerRow, InCall, RefreshPC
<1>4. p \in Worker => tgt # "VALIDATED" /\ Routable(seen[p], tgt)
  <2>1. p \in Worker => SomeTaken
    BY <1>0, <1>3 DEF SomeTaken
  <2> QED
    BY <1>0, <1>1, <1>2, <2>1, StartedShows, BorneOutIsRoutable
<1>5. UNCHANGED <<attempts, runStatus, after>>
  BY DEF RefreshListTasks, ReturnFromRefresh, storeVars
<1>6. ASSUME tgt = seen[p], ReturnFromRefresh(p)
      PROVE  RowOf(p)' /\ (p \in Worker => WorkerRow(p)' /\ pc'[p] # "r_error")
  <2>1. pc'[p] = after[p]
    BY <1>0, <1>6 DEF ReturnFromRefresh, Goto
  <2>2. RowOf(p)'
    BY <1>0, <2>1, AwayKeepsRow DEF Outside, RefreshPC
  <2>3. p \in Worker => WorkerRow(p)'
    BY <1>0, <1>1, <1>3, <1>4, <1>5, <1>6, <2>1 DEF WorkerRow, Seasoned, RefreshPC
  <2> QED
    BY <1>0, <2>1, <2>2, <2>3
<1>7. ASSUME tgt # seen[p], target' = [target EXCEPT ![p] = tgt], Goto(p, RouteTo(p, tgt)),
             UNCHANGED <<seen>>
      PROVE  RowOf(p)' /\ (p \in Worker => WorkerRow(p)' /\ pc'[p] # "r_error")
  <2>1. pc'[p] = RouteTo(p, tgt) /\ target'[p] = tgt
    BY <1>0, <1>7 DEF Goto
  <2>2. RouteTo(p, tgt) \in {"r_write", "r_hop"} => tgt # "VALIDATED"
    BY <1>1 DEF RouteTo, RunTransitionAllowed, ReachableViaRunning, Reached
  <2>3. RowOf(p)'
    BY <1>2, <2>1, <2>2 DEF RowOf, TargetPC, RouteTo
  <2>4. seen[p] # "VALIDATED" => /\ RouteTo(p, tgt) # "r_hop"
                                 /\ RouteTo(p, tgt) = "r_write" => tgt # "RUNNING"
    BY <1>1 DEF RouteTo, RunTransitionAllowed, ReachableViaRunning, Reached
  <2>5. p \in Worker => RouteTo(p, tgt) \in {"r_write", "r_hop"}
    BY <1>4, <1>7 DEF RouteTo, Routable
  <2>6. Seasoned(p)' => Seasoned(p)
    BY <1>0, <1>5, <2>1 DEF Seasoned, RefreshPC, RouteTo
  <2>7. p \in Worker => WorkerRow(p)'
    <3>1. p \in Worker => (attempts[held[p]] > 0)'
      BY <1>3, <1>5
    <3>2. p \in Worker /\ Seasoned(p)' =>
            /\ runStatus' # "VALIDATED" /\ pc'[p] \notin {"r_hop", "r_reread", "r_list"}
            /\ pc'[p] = "r_write" => target'[p] # "RUNNING"
      BY <1>1, <1>3, <1>5, <2>1, <2>4, <2>5, <2>6 DEF RowInv, WorkerRow
    <3> QED
      BY <2>1, <2>5, <3>1, <3>2 DEF WorkerRow
  <2> QED
    BY <2>1, <2>3, <2>5, <2>7
<1> QED
  BY <1>2, <1>6, <1>7 DEF RefreshListTasks

(* Every other step of a refresh.                                           *)
LEMMA RefreshKeepsRow ==
  ASSUME OnceInv, StatusInv, RowInv, NEW p \in Proc, Refresh(p), p \in Worker => held'[p] = held[p]
  PROVE  RowOf(p)' /\ (p \in Worker => WorkerRow(p)')
<1>0. /\ pc \in [Proc -> Place] /\ seen \in [Proc -> RunStatus]
      /\ after[p] \in {"lease", "prepare", "ok", "raised", "idle"}
      /\ p \in Worker => after[p] \in {"prepare", "ok", "raised"}
      /\ runStatus \in Reached /\ Justifies(runStatus) /\ RowOf(p)
      /\ p \in Worker => WorkerRow(p)
      /\ UNCHANGED <<status, attempts, after>> /\ pc[p] \in RefreshPC
  BY RefreshGoes
  DEF OnceInv, CallFrame, RefreshTypeOK, RowInv, StatusInv, RunStatusJustified,
      leaseVars
<1>1. p \in Worker => (attempts[held[p]] > 0 /\ attempts'[held'[p]] > 0)
  BY <1>0 DEF WorkerRow, InCall, RefreshPC
<1>2. CASE RefreshGetRun(p)
  <2>1. /\ pc[p] = "r_get" /\ pc'[p] = "r_list" /\ seen'[p] = runStatus /\ runStatus' = runStatus
    BY <1>0, <1>2 DEF RefreshGetRun, ReadRun, Goto, storeVars
  <2>2. RowOf(p)'
    BY <1>0, <2>1 DEF RowOf, TargetPC, Justifies
  <2>3. p \in Worker => WorkerRow(p)'
    BY <1>0, <1>1, <2>1 DEF WorkerRow, Seasoned, RefreshPC
  <2> QED
    BY <2>2, <2>3
<1>3. CASE RefreshListTasks(p)
  BY <1>3, ListingKeepsRow
<1>4. CASE RefreshHop(p)
  <2>1. /\ pc[p] = "r_hop" /\ pc'[p] = "r_reread" /\ runStatus' = "RUNNING" /\ target' = target
    BY <1>0, <1>4 DEF RefreshHop, Goto, UpdateRunStatus, frameVars
  <2>2. RowOf(p)'
    BY <1>0, <2>1 DEF RowOf, TargetPC
  <2>3. p \in Worker => WorkerRow(p)'
    BY <1>0, <1>1, <2>1 DEF WorkerRow, Seasoned, RefreshPC
  <2> QED
    BY <2>2, <2>3
<1>5. CASE RefreshReread(p)
  <2>1. /\ pc[p] = "r_reread" /\ pc'[p] \in {"r_write", "r_error"} /\ runStatus' = runStatus
        /\ target' = target
    BY <1>0, <1>5 DEF RefreshReread, Goto, storeVars
  <2>2. RowOf(p)'
    BY <1>0, <2>1 DEF RowOf, TargetPC
  <2>3. p \in Worker => WorkerRow(p)'
    BY <1>0, <1>1, <2>1 DEF WorkerRow, Seasoned, RefreshPC
  <2> QED
    BY <2>2, <2>3
<1>6. CASE RefreshWrite(p)
  <2>1. /\ pc[p] = "r_write" /\ pc'[p] \in {"r_finish", after[p]} /\ runStatus' = target[p]
        /\ target[p] # "VALIDATED"
    BY <1>0, <1>6 DEF RefreshWrite, ReturnFromRefresh, Goto, UpdateRunStatus, RowOf, TargetPC
  <2>2. RowOf(p)'
    BY <1>0, <2>1 DEF RowOf, TargetPC
  <2>3. p \in Worker => WorkerRow(p)'
    BY <1>0, <1>1, <2>1 DEF WorkerRow, Seasoned, RefreshPC
  <2> QED
    BY <2>2, <2>3
<1>7. CASE RefreshFinish(p)
  <2>1. pc[p] = "r_finish" /\ pc'[p] = after[p] /\ runStatus' = runStatus
    BY <1>0, <1>7 DEF RefreshFinish, ReturnFromRefresh, Goto, UpdateRunFinishedAt
  <2>2. RowOf(p)'
    BY <1>0, <2>1 DEF RowOf, TargetPC
  <2>3. p \in Worker => WorkerRow(p)'
    BY <1>0, <1>1, <2>1 DEF RowOf, WorkerRow, Seasoned, RefreshPC
  <2> QED
    BY <2>2, <2>3
<1> QED
  BY <1>2, <1>3, <1>4, <1>5, <1>6, <1>7 DEF Refresh

(* The rest of run_once.                                                    *)
LEMMA OnceKeepsRow ==
  ASSUME OnceInv, RowInv, RowMoves, AttemptsStay, NEW w \in Worker, RunOnceStep(w),
         ~RefreshStep(w)
  PROVE  WorkerRow(w)'
<1>0. /\ pc \in [Proc -> Place] /\ w \in Proc /\ WorkerRow(w)
      /\ after \in [Proc -> {"lease", "prepare", "ok", "raised", "idle"}]
      /\ pc[w] \in InCall => held[w] \in Task
      /\ attempts \in [Task -> Nat]
  BY DEF OnceInv, StoreInv, StoreTypeOK, CallFrame, RowInv, Proc
<1>1. runStatus # "VALIDATED" => runStatus' # "VALIDATED"
  BY DEF RowMoves
<1>2. CASE Lease(w) \/ LeaseNothing(w)
  <2>1. pc'[w] \in {"bump", "empty"}
    BY <1>0, <1>2 DEF Lease, LeaseNothing, Goto
  <2> QED
    BY <2>1 DEF WorkerRow, Seasoned, InCall, OncePC, ReturnPC, RefreshPC
<1>3. CASE BumpAttempts(w)
  <2>1. pc[w] = "bump" /\ pc'[w] = "mark" /\ held' = held
    BY <1>0, <1>3 DEF BumpAttempts, Goto
  <2>2. held[w] \in Task
    BY <1>0, <2>1 DEF InCall, OncePC
  <2>3. attempts'[held[w]] > 0
    BY <1>0, <1>3, <2>2 DEF BumpAttempts, IncrementTaskAttempts
  <2> QED
    BY <2>1, <2>3 DEF WorkerRow, Seasoned, RefreshPC
<1>4. CASE ~(Lease(w) \/ LeaseNothing(w) \/ BumpAttempts(w))
  <2>1. held' = held
    BY <1>4
    DEF RunOnceStep, MarkRunning, MarkRefused, Announce, CallRefresh, Prepare, HandlerEnds,
        Execute, ExecuteTimesOut, OomBudget, Record, RecordRefused, ArtifactFails, Close, callVars
  <2>2. PICK from, place :
           /\ pc[w] = from /\ Goto(w, place) /\ from \in InCall \ {"bump"}
           /\ \/ from = "mark" /\ place \in {"announce", "raised"}
              \/ from = "announce" /\ place = "r_get" /\ after' = [after EXCEPT ![w] = "prepare"]
              \/ /\ from \in {"prepare", "execute", "oom_count", "record", "close"}
                 /\ place \in {"execute", "oom_count", "record", "close", "raised"}
              \/ /\ from = "close" /\ place = "r_get"
                 /\ \E a \in {"ok", "raised"} : after' = [after EXCEPT ![w] = a]
    BY <1>4
    DEF RunOnceStep, MarkRunning, MarkRefused, Announce, CallRefresh, Prepare, HandlerEnds,
        Execute, ExecuteTimesOut, OomBudget, Record, RecordRefused, ArtifactFails, Close,
        InCall, OncePC, ReturnPC
  <2>3. pc'[w] = place /\ pc[w] = from
    BY <1>0, <2>2 DEF Goto
  <2>4. attempts[held[w]] > 0 /\ attempts'[held'[w]] > 0
    <3>1. held[w] \in Task /\ attempts[held[w]] > 0
      BY <1>0, <2>2, <2>3 DEF WorkerRow
    <3> QED
      BY <2>1, <3>1 DEF AttemptsStay
  <2>5. Seasoned(w)' => Seasoned(w) /\ pc'[w] \notin {"r_hop", "r_reread", "r_list", "r_write"}
    BY <1>0, <2>2, <2>3 DEF Seasoned, RefreshPC
  <2>6. Seasoned(w)' => runStatus' # "VALIDATED"
    BY <1>0, <1>1, <2>5 DEF WorkerRow
  <2>7. pc'[w] # "r_error"
    BY <2>2, <2>3
  <2> QED
    BY <2>4, <2>5, <2>6, <2>7 DEF WorkerRow
<1> QED
  BY <1>2, <1>3, <1>4

(* A worker acts, stays where it is, or is not in run_once afterwards.      *)
OnceOrAway(v) == RunOnceStep(v) \/ Stays(v) \/ pc'[v] \notin InCall

(* A worker in a refresh keeps its task.                                    *)
LEMMA RefreshHolds ==
  ASSUME OnceInv, NEW p \in Worker, Refresh(p), OnceOrAway(p)
  PROVE  held'[p] = held[p]
<1>0. /\ pc \in [Proc -> Place] /\ pc[p] \in RefreshPC /\ p \in Proc
      /\ after[p] \in {"prepare", "ok", "raised"}
      /\ \E place \in RefreshPC \cup {"r_error", after[p]} : Goto(p, place)
  BY RefreshGoes DEF OnceInv, CallFrame, Proc
<1>1. pc'[p] \in InCall
  BY <1>0 DEF Goto, RefreshPC, InCall, OncePC, ReturnPC
<1>2. CASE RunOnceStep(p)
  <2>1. ~Lease(p)
    BY <1>0 DEF Lease, RefreshPC
  <2> QED
    BY <1>2, <2>1
    DEF RunOnceStep, LeaseNothing, BumpAttempts, MarkRunning, MarkRefused, Announce, RefreshStep,
        Prepare, HandlerEnds, Execute, ExecuteTimesOut, OomBudget, Record, RecordRefused,
        ArtifactFails, Close, callVars
<1> QED
  BY <1>1, <1>2 DEF OnceOrAway, Stays

(* A worker that stays where it is.                                         *)
LEMMA StayingKeepsRow ==
  ASSUME OnceInv, StatusInv, RowInv, RowMoves, AttemptsStay, NEW v \in Worker, Stays(v),
         Refresh(v) \/ Idles(v) \/ Outside(v)
  PROVE  WorkerRow(v)'
<1>1. CASE Refresh(v)
  BY <1>1, RefreshKeepsRow DEF Stays, Proc
<1>2. CASE ~Refresh(v)
  <2>1. WorkerRow(v) /\ (runStatus # "VALIDATED" => runStatus' # "VALIDATED")
    BY DEF RowInv, RowMoves
  <2>2. Seasoned(v)' <=> Seasoned(v)
    BY DEF Stays, Seasoned
  <2>3. pc[v] \in InCall \ {"bump"} => attempts'[held'[v]] > 0
    <3>1. pc[v] \in InCall => held[v] \in Task
      BY DEF OnceInv, CallFrame
    <3> QED
      BY <2>1, <3>1 DEF Stays, WorkerRow, AttemptsStay
  <2>4. pc[v] \in {"r_list", "r_write"} => Idles(v)
    BY <1>2 DEF Stays, Outside, RefreshPC
  <2> QED
    BY <2>1, <2>2, <2>3, <2>4 DEF WorkerRow, Stays, Idles
<1> QED
  BY <1>1, <1>2

LEMMA RowKept ==
  ASSUME OnceInv, StatusInv, RowInv, RowMoves, AttemptsStay, VerdictsStand, NoneCancelled',
         \A p \in Proc : Refresh(p) \/ Idles(p) \/ Outside(p),
         \A v \in Worker : OnceOrAway(v)
  PROVE  RowInv'
<1>1. ASSUME NEW p \in Proc
      PROVE  RowOf(p)'
  <2>1. CASE Refresh(p)
    <3>1. p \in Worker => held'[p] = held[p]
      BY <2>1, RefreshHolds
    <3> QED
      BY <2>1, <3>1, RefreshKeepsRow
  <2> QED
    BY <2>1, IdlingKeepsRow, AwayKeepsRow
<1>2. ASSUME NEW v \in Worker
      PROVE  WorkerRow(v)'
  <2>1. CASE RefreshStep(v)
    BY <2>1, RefreshKeepsRow DEF RefreshStep, callVars, Proc
  <2>2. CASE RunOnceStep(v) /\ ~RefreshStep(v)
    BY <2>2, OnceKeepsRow
  <2>3. CASE Stays(v)
    BY <2>3, StayingKeepsRow DEF Proc
  <2>4. CASE pc'[v] \notin InCall
    BY <2>4 DEF WorkerRow, Seasoned, InCall, OncePC, ReturnPC
  <2> QED
    BY <2>1, <2>2, <2>3, <2>4 DEF OnceOrAway
<1> QED
  BY <1>1, <1>2 DEF RowInv, RowMoves
=============================================================================
