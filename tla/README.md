# Verification of FineTuneHarness

FineTuneHarness runs grids of fine-tuning tasks: a *run* is a set of *tasks* kept in a
SQLite store; worker processes lease tasks, run a handler on each, record a verdict and
derive the status of the run. This directory holds TLA+ models of that code, TLC
configurations that check them on small instances, and TLAPS proofs for all instances.
Paths below are relative to `src/src/finetuneharness/` unless they start with `tests/`.

## 1. The system

| Component | State | Operations | Interacts with | Modelled in |
|---|---|---|---|---|
| Lifecycle (`orchestrator/lifecycle.py`, `state/models.py`) | none | two transition tables, the rule for a run's status | store, refresh | Lifecycle |
| State store (`state/store.py`, `sqlite.py`, `memory_store.py`, `leases.py`) | tasks, run row, event log, artifacts table | lease, mark, increment, update, requeue, reclaim, append; each is one transaction | everybody | StateStore |
| Run status refresh (`orchestrator/runner.py:76-130`) | local copies of run and tasks | read run, read tasks, derive, write | store; called by workers and by `status` | RunRefresh |
| Run creation and approval (`runner.py:29-74, 132-148`, `approval.py`) | run row, tasks, approval events | create_run, await_approval | store, command line | RunAdmission |
| Worker, one task (`executor/worker.py:158-458`) | the leased task, its attempt number, the handler thread | run_once with its success, degenerate, timeout, retry, failure and OOM exits | store, refresh, handler, hooks | RunOnce |
| Worker, sequential drain (`worker.py:460-499`) | successes counted | loop over run_once, swallow exceptions, report | several processes share a run | SequentialDrain |
| Worker, concurrent drain (`worker.py:501-711, 807-849`) | children in flight, ceiling, result queue | admit, collect, reclaim dead children, tear down, report | children through the store and a queue | ConcurrentDrain |
| Hooks (`orchestrator/hooks.py`, `registry/hooks.py`) | early-stopping counter, metrics file and its locks | fire, should_stop, append metrics | worker threads, other processes | SuccessHooks |
| Result validation, comparison (`evaluation/`) | none | validate_result, check_comparability, compare_runs | worker, command line | ResultValidation, RunComparison |
| Reproducibility, configuration (`state/reproducibility.py`, `validation/configs.py`) | none | assess, validate | command line | Reproducibility, RunConfig |
| Command line (`cli/main.py`) | none | create-run, start-run, run, status, ... | all of the above | RunAdmission, SequentialDrain |
| Resources, policy, seeding (`executor/resources.py`, `policy.py`, `seeding.py`) | GPU memory, process-global RNG | free memory, OOM test, backoff, apply_seed | worker | choices of the environment |

What is hard here: nothing ties two transactions together. A worker leases, counts the
attempt, marks, logs, refreshes, records, writes an artifact, logs and refreshes again,
each in a transaction of its own; other workers, status queries, lease deadlines and
crashes fall in between. No operation compares the lease owner. A timed-out handler
thread cannot be stopped. The run's status is written from tasks read some time before.
The concurrent drain learns of a dead child only from a queue that stays empty.
`PROJECT.json` lists these hazards, each at its line.

What makes the components correct:

- *store and workers*: at most one thread in a task's handler; one verdict per attempt; a
  verdict is final and the log agrees with the table; attempts are bounded;
- *refresh*: a final status is never premature, the status does not end up wrong, and the
  refresh does not raise;
- *sequential drain*: every task settles, every drain returns, its count and verdict are
  true;
- *concurrent drain*: no task is lost or run twice when children die, an exception in the
  parent strands no more than what it had in hand, starts are bounded, no success is counted twice,
  the parent returns;
- *creation and approval*: nothing runs unapproved, COMPLETED means the whole submission,
  creating a run undoes no work;
- *hooks*: whole lines, a stop that comes from a real stall and is heeded by every worker
  that gets to ask, no hook that holds a result back for ever;
- *comparison*: runs on different data, and no others, are refused, what is reported stands
  and adds up, both validations of a result agree;
- *reproducibility*: an accepted configuration lacks nothing the assessment asks for.

## 2. Modules

```
Lifecycle -> StateStore -> RunRefresh -> RunOnce -> SequentialDrain
    |                                          \--> ConcurrentDrain
    |--> TaskCustody     (implemented by both drains)
    '--> RunAdmission
JsonValue -> ResultValidation -> RunComparison --+
JsonValue -> RunConfig --------------------------+-> Experiments
JsonValue -> Reproducibility --------------------+
SuccessHooks
```

An arrow is EXTENDS. `MC...` modules hold instances for TLC, `...Proofs` modules theorems.
Definitions whose comment begins with "A slip" are mutated forms of the definition that
follows; no specification uses them. They show that each property can fail.

### Workers

**Lifecycle** - the statuses, `ALLOWED_RUN_TRANSITIONS`, `ALLOWED_TASK_TRANSITIONS` and
`RunTarget`, the status `refresh_run_status` derives. No variables.

**StateStore** - one operator per transaction of the store. `status`, `owner`,
`attempts`, `runStatus` are columns; `expired[t]` is "leased_until < now"; `finished` is
"finished_at IS NOT NULL"; `events[t]` is the log about task `t`, as pairs of kind and
attempt number. Both implementations of the store (SQLite under `BEGIN IMMEDIATE`, memory
under a lock) are this model. Task keys are numbers, so `ORDER BY task_key` is `<=`.

**RunRefresh** - `refresh_run_status`: `RefreshGetRun` (line 77), `RefreshListTasks` (80;
derive the target and choose the way), `RefreshHop` (110, the detour through RUNNING),
`RefreshReread` (116), `RefreshWrite` (118), `RefreshFinish` (120). `seen`, `stamped`,
`target` are its local variables, `after` its return address. `r_error` is a ValueError
out of `ensure_run_transition`.

**RunOnce** - `run_once`: `Lease`/`LeaseNothing` (165), `BumpAttempts` (169),
`MarkRunning`/`MarkRefused` (170), `Announce` (171-180), `Prepare` (183-202),
`HandlerEnds` (206-303: `Execute`, `ExecuteTimesOut`), `OomBudget` (426-435), `Record`/
`RecordRefused` (every `update_task_status`), `ArtifactFails` (316), `Close` (every
closing event and the refresh after it). The exits differ in data only, so they share
`Record` and `Close`, with `Verdict` and `VerdictEvent` choosing what is written.
`Yield(t, a)` says what the handler of `t` may do at attempt `a`; `zombies[w]` are the
threads `_execute` abandoned. A handler result that makes `run_once` raise outside its
try block (not a dict, not serialisable, a technique that is no text) is the outcome
`"unusable"`; a malformed `timeout_seconds` is `MalformedTask`.

**SequentialDrain** - workers in `LocalWorker.drain`, observers (`finetuneharness status`)
that refresh, crashes, lease deadlines and `requeue_expired_leases`. `CountSuccess`,
`SwallowError`, `QueueEmpty`, `Report` are the loop and its end.

**ConcurrentDrain** - `drain_concurrent`. The parent is at `"admit"` (`Spawn`,
`StopAdmitting`), `"wait"` (`Receive`, or `QueueStaysEmpty` after the 0.5 s of
`result_q.get`), `"join"` (`JoinReported`, which counts the report or lowers the ceiling),
`"reap"` (`Reap`, one child of the snapshot at a time, `ReapingEnds`), `"teardown"`
(`TearDown`, `TornDown`) or `"report"` (`Conclude`). An exception in the parent strikes
between two such steps (`Interrupted`) or inside one: between `proc.start()` and the entry
in `in_flight` (`InterruptedAtStart`, 642-643), between `result_q.get` and the `pop`
(`InterruptedAtGet`, 654-677), between the `del` of a dead child's entry and the end of
`reclaim_dead_worker` (`InterruptedAtReclaim`, 664-668), or in the teardown, in a join or a
reclaim (`TeardownAborted`, 695-701). A child calls `run_once` once (`RunOnceStep`), puts
its report (`PutResult`), waits for its abandoned handler threads (`Exit`) and may die
anywhere (`Die`). `device` is `in_flight`, `message` the queue, `pc[w]` is `"gone"` when the
process has exited and `"off"` when the id is unused. `deaths`, `unlogged`, `strayed` (tasks
that run_once let go of without recording anything) and `orphans` (children the parent lost
track of) are history, for the properties only; an orphan goes on working. How much memory a
busy device has left, and whether an exception counts as an OOM, are choices.

**TaskCustody** - the abstract specification of both drains: a task is open, underway in
the hands of one worker, or settled; only that worker gives it back or settles it; a lost
task is begun again only where somebody takes it back first. `Recovers` is FALSE in
SequentialDrain, where a task lost while RUNNING stays lost, and TRUE in ConcurrentDrain,
whose parent reclaims. `phase` and `runner` are computed from `status`, `pc` and `held`.

### Creation, hooks, evaluation

**RunAdmission** - from `create-run` to `run`. `create_run` is taken apart
(`InsertRun`, `LogCreated`, `SetValidated`, `LogValidated`, then `InsertTask` and `LogTask`
for each task, `CreatorDies` anywhere); a repeated key makes `InsertTask` raise. `start-run`
is `StartRun`, `Answer`, `Approve` for each actor; `run` is `Launch`, `PassGate` or
`SkipGate`, `LoadHandler`, and then a drain reduced to `TakeTask`, `Announce`, `Settle`,
`Close`, `NothingPending` (no retries; SequentialDrain has the rest); `Status` refreshes.
A refresh is one step here, and may still raise.

**SuccessHooks** - what a result passes between its validation and its SUCCEEDED:
`MetricsHook` with its thread lock and its file lock (`EnterMetrics`, `TakeFileLock`,
`LockTimesOut`, `WriteLine`, `FlushAndUnlock`), `EarlyStoppingHook` (`EarlyStopping`), then
`RecordSuccess` and drain's `stop_fn` (`AskStopFn`). The handler may raise (`HandlerFails`),
and so may the store before SUCCEEDED is written or the artifact, the event and the refresh
after it (`StoreFails`); drain swallows either and leases again without asking `stop_fn`.
`overrun` and `raised` count, after the trip, the leases and these exceptions. The workers
are threads of one process; `Stranger` is another process that locks the file and owes
nobody its release.

**JsonValue, RunConfig, ResultValidation, RunComparison, Reproducibility** - operators for
`validate_run_config`, `validate_result`, `check_comparability`, `compare_runs` and
`assess_reproducibility` over values that keep Python's distinctions (absent and null, bool
and int, NaN, empty and blank text, truthiness). Metrics are counted in hundredths.
`ValidationRaises` is the AttributeError of `effective_method.lower()` on a technique that
is no text (`validator.py:118-120`).

**Experiments** - runs created from configurations, the row first (`CreateRun`) and then
task by task (`CreateTask`; `unstored` is what is left of the list, for ever if `create_run`
dies), tasks settled one by one (`HandlerReturns`, `HandlerFails`) while others are still
being stored, and comparisons and assessments that could be asked for at any moment; asking
changes nothing, so the properties quantify over them.

## 3. Runs

`tlc -workers 2 -config <run>.cfg <MC module>`. Deadlock checking is off: drains and
launchers end, and then nothing is left to do.

| Run | Instance | Shows |
|---|---|---|
| SeqSafety | 1 task with a retry and a timeout, 3 workers that may die, bulk requeue | `OneVerdictPerAttempt`, `LoggedVerdictStands`, `SuccessCountedOnce`, `SingleExecutor`, `AttemptsBounded`, refinement of `TaskCustody`, `TypeOK` |
| SeqSingle | 3 tasks, 1 worker, every storable outcome, an OOM budget of 1 | `RaisedMeansRecorded`, `SettledIsLogged`, `LoneDrainTruthful` |
| SeqLive | 2 tasks, 2 workers, flaky handlers, fairness | `EveryTaskSettles`, `EveryDrainReturns`, `EverySuccessCounted`, `CompletedRunReadsCompleted` |
| SeqObserved | 2 tasks, 1 worker that may die or stop early, 2 observers, artifact faults, fairness | `RunStatusJustified`, `AlwaysRefreshable`, `QuiescentRunIsRepaired` |
| ConcDrain | 2 tasks, 3 child ids, ceiling 2, 1 GPU, two deaths, exceptions in the parent and in its teardown, an OOM budget of 1, timeouts, fairness | `SingleExecutor`, `NothingLeftBehind`, `StartsBounded`, `NoSuccessInvented`, `NoSuccessVanishes`, refinement of `TaskCustody`, `ParentReturns`, `TypeOK` |
| Admission | no task, 2 tasks, or a repeated key; an allowed and a refused actor; a launcher with and one without `--skip-approval` | `NothingRunsUnapproved`, `CompletedMeansSubmitted`, `CreationOverwritesNothing`, `TypeOK` |
| Hooks | 2 threads, 5 tasks, metrics 0, 1, 2, text or absent, patience 2, min_delta 1, handlers and a store that may fail, a stranger, fairness | `WholeLines`, `StopsAfterAStall`, `StopsSoon`, `ResultReachesStore`, `TypeOK` |
| Exp | 2 runs, 11 configurations (one names its data twice, 7 are turned away), 2 environments, 2 grids, 4 results | `StrictRefusesOtherData`, `CountsExplained`, `RegressionsStand`, `VerdictsAgree`, `AcceptedMeansAssessable`, `TypeOK` |

The other runs end in a violation: each checks one property that a comment or a test
states and the code does not keep.

| Run | Statement | What the trace shows |
|---|---|---|
| SeqStaleRefresh | `tests/concurrency/test_concurrent_stress.py:148, 197` | a refresh with old tasks writes last; the finished run reads RUNNING |
| ConcUncounted | `executor/worker.py:529` | a child exits between `result_q.put` and the parent's `get`; the parent takes it for dead, the loop ends, and the success is not counted although no child died |
| ExpMethod | `tests/unit/test_comparison_rigorous.py:288` | a result that is DEGENERATE for the method its payload names is validated anew without that method and enters the metrics |
| ExpTwoNames | `evaluation/comparator.py:79-80, 98` | two runs with `dataset_hash: null` beside different `datasets` are both stored as `{"default": None}`, and a strict comparison lets them pass |

Some properties hold in one run and fail in another; the pair says what they depend on.
`CompletedRunReadsCompleted` holds while only workers refresh, because a worker that wrote a
stale status refreshes again after its own task; with an observer it fails
(SeqStaleRefresh), and `QuiescentRunIsRepaired` says that asking again repairs it.
`NoSuccessVanishes` is what remains of the statement ConcUncounted refutes: the count falls
short only by deaths and by reports that were still unread. The theorems of DrainLogProofs
name the conditions of the others (section 4). `VerdictsAgree` needs a payload without a
method, as ExpMethod shows. `StrictRefusesOtherData` is exact (refused if and only if the
data named differ) for every configuration but those ExpTwoNames is about, with `datasets`
next to the key `dataset_hash`.

**Bounds.** `MaxAttempts` is 2 for task 1 and 1 for the others, so there is a retry and a
last attempt. `ExpiryBound = 1`: in SequentialDrain a lease runs out only before the first
counted attempt of a task, which bounds the attempts slow workers can waste; two workers
holding the same lease, and a third taking it over, occur within it. SeqSafety has one task
and three workers, since its properties are about the hands one task passes through and
three are the least for which a lease passes through a third; the other drain runs have two
or three tasks, the least for which statuses mix and the order of leasing matters. In
ConcurrentDrain `DeathBound = 2` (without a bound the parent may replace dying children for
ever and `ParentReturns` is plainly false): two children may die in turn with the same task,
or together, each between any two of its steps, put and get included; a ceiling of 2 is
lowered once by the first and stays at 1 at the second. Exceptions end the loop and abort
the teardown, so there are at most two. Ids are used again once nothing refers to them, so
that the run is finite. In RunAdmission two keys are the least for a partial grid. In
SuccessHooks five tasks allow an improvement, a stall of `Patience` and results that come
after it. Two runs are what a comparison relates, and two grids of one and two tasks make
tasks that one run lacks for good and tasks it lacks for now. Symmetry is used in SeqSafety
and Exp only: workers and run ids are interchangeable there and the properties are safety.
The proofs of section 4 need none of these bounds.

**Fairness.**

- `SequentialDrain!FairSpec`: weak fairness of each worker's drain. A process that can take
  its next step takes it, since SQLite serialises writers and each transaction is short. It
  covers the handler, so it assumes handlers that return or have a timeout. Nothing is
  assumed of crashes, lease deadlines, requeues or abandoned threads. `ObservedSpec` adds
  that somebody keeps asking for the status.
- `ConcurrentDrain!FairSpec`: weak fairness of the parent and of each child. Nothing is
  assumed of abandoned handler threads, deaths, exceptions and deadlines. A thread that
  hangs keeps its process from exiting, and the parent joins it without a timeout
  (`worker.py:679, 698`), so `ParentReturns` says that in the end the parent has returned or
  is in such a join for good (`HeldUp`), and that nothing else keeps it. The lease of a
  *live* child is taken not to run out before it marked its task: `lease_seconds` is 300,
  and one transaction lies between. SequentialDrain does without that assumption.
- `SuccessHooks!Spec`: weak fairness of each thread while it is within the hooks; handlers
  and the store need not return. The stranger may keep the lock for ever, and `LockTimesOut`
  is then what keeps going on possible.

## 4. Proofs

`tlapm <module>.tla`. The theorems hold for all values of the constants that satisfy the
named assumptions of the modules (task keys are numbers, observers are not workers,
`NoWorker` and `NoTask` are no worker and no task, ceilings and limits are positive, ...).
They cover any number of tasks, workers, deaths, runs and results.

**RunOnceProofs** (lemmas for both drains)
- `StoreInv` and `CallFrame`, together `OnceInv`: `TypeOK` is not inductive, because
  nothing in it says that a worker past `Lease` holds a task; `CallFrame` says which local
  variables are meaningful at which place. `OnceStoreEffect` shows that each step does to
  the store one of its own operations or nothing.
- `CustodyInv`: a task underway is RUNNING and has one worker; an abandoned thread belongs
  to one worker, and its task is TIMED_OUT or about to be. It is what makes
  `SingleExecutor` inductive. Most steps are `Quiet`; marking, abandoning and recording
  have a lemma each. `RecordNeverRefused` is a consequence worth knowing: the transition
  table never rejects a verdict in these drains.
- `StatusInv` speaks of the targets refreshes have derived and not yet written, too: they
  stay justified because no operation of the store changes a verdict.
- `OnceIsAMove`: in terms of `TaskCustody`, a step of `run_once` begins, gives back,
  settles, loses, or is invisible.
- `OnceKeepsLog`, `OnceKeepsAttempts`, `OnceKeepsClosing`, `LogGrows`: which steps of
  `run_once` write the log, number an attempt or record a verdict; both accounts of the
  counts below rest on them.
- `RowInv`: the run row leaves VALIDATED once and never returns, what a refresh has read and
  will write is borne out by the tasks, and only the refresh that announces an attempt can
  be refused, never the one after a verdict. `RowKept` proves it inductive for whatever goes
  on around run_once, as long as that leaves the row and the attempts alone; each drain
  shows that its own steps do.

**SequentialDrainProofs** - `TypeCorrect`, `CustodyHolds`, `NoDoubleExecution`,
`RunStatusIsJustified`, `DrainsImplementCustody` (the refinement), `RefreshNeverStuck`. The
last rests on `RowInv` and on `StartedInv`: a row past VALIDATED has a task that somebody
took.

**DrainLogProofs** - the log and the counts:
- `VerdictsAreSingle` from `LogInv`: attempts that were counted and not closed have
  different numbers, although several workers may count for the same lease, and no number
  exceeds the counter;
- `LoggedVerdictsStand` from `VerdictInv`: a worker between `Record` and `Close` finds in
  the table what it is going to log;
- `SuccessesCountOnce` from `ClaimInv`: from recording a success to counting it a task is
  claimed by one worker;
- `StartsAreBounded` from `BoundInv`: a task goes back to PENDING only below its limit, so
  at most one announcement lies at or above it.

The other properties of the single drain fail when certain faults occur. Their theorems name
these faults as premises on the constants; each line of the last column is a counterexample
TLC finds for an instance that has the fault.

| Theorem | Premises | Invariant | Why the premises |
|---|---|---|---|
| `RefreshNeverStuck` | no bulk requeue | `RowInv`, `StartedInv` | a requeue returns the only task taken to PENDING, and no refresh may go back to VALIDATED |
| `SettledTasksAreLogged` | no crash, no artifact fault | `SettledInv`: a settled task without its event is at `"close"` in somebody's hands | a death, or a failed write, between status and event |
| `NoSuccessIsLost` | no artifact fault | `ClaimedInv`: the worker that recorded a success claims it until it dies; by `RowInv` no refresh comes between | a failed write raises before drain counts |
| `AllSucceededReadsCompleted` | no artifact fault, no observer, a task | `CompletingInv`: when all tasks have succeeded the row says so, or a worker will still refresh with what it reads now | SeqStaleRefresh; a failed write skips the refresh |
| `SwallowedMeansRecorded` | one worker, all results storable | `LoneRow`, `FreshInv`: nobody moves the row between this worker's read and write in a way that refuses it | a second worker, a malformed timeout or a failed write raises between announcement and verdict |
| `LoneDrainTellsTheTruth` | one worker, no observer, all results storable, no early stop | `LoneInv`: whatever is LEASED or RUNNING is in its hands, so the row it writes is the one it owes | an observer writes late; the faults above |

**ConcurrentDrainProofs** - `TypeCorrect`, `CustodyHolds`, `NoDoubleExecution`,
`RunStatusIsJustified`, `ChildrenImplementCustody`, and `NothingIsLeftBehind`. `OwnedInv`
says that a live child is the owner of what it has; from it follows that the parent takes
tasks back from nobody who still works on them. `TrackInv` says that whoever may still own
a task is in flight and has not reported, or is an orphan; that nobody owns two; that there
are no orphans before the teardown and at most one in it; and that the parent concludes with
nobody in flight. It has a lemma for each way the parent may lose a
child. `NothingLeftBehind` makes two exceptions, and the code leaves no smaller ones: tasks
in `strayed` (`worker.py:180` and the like) and, after an exception, those of `orphans`.

**PoolCountsProofs** - what the concurrent drain counts:
- `NoSuccessIsInvented` from `TallyInv`: a success is claimed by the child that recorded it,
  then in the queue, then in the parent's hands, then counted; at each place it is backed by
  a SUCCEEDED task of its own, and a child taken for dead, or lost to an exception, leaves a
  claim behind, never a second one;
- `EverySuccessIsAccountedFor` (`NoSuccessVanishes`) from `AccountInv`, the account of
  `TallyInv` the other way round: a child that dies, and an exception that drops the report
  the parent has in hand, are put on it. It needs `RowInv`, since a refresh that was refused
  after a success would cost the report of a child that lives, and `TrackInv`, since at the
  end nobody may be left with a claim. The premise, no artifact fault, is what the code
  gives: `_concurrent_child` builds its worker without an artifact store (`worker.py:840`).
  Together the two theorems make the count exact up to deaths and unread reports;
- `ReclaimsLeaveTheRunRefreshable`: the next refresh never has to raise, here without a
  premise. The parent puts tasks back to PENDING too, but only children refresh, so whoever
  moved the row off VALIDATED had counted an attempt (`AttemptedInv`); in SequentialDrain an
  observer does so while a task is merely LEASED, and a bulk requeue then undoes it;
- `StartsStayBounded` from `BudgetInv` and `StartsInv`. `BudgetInv` bounds the requeues that
  are logged or still to be logged: a child that found the budget unspent can be overtaken
  by the other children at work only (in flight, or started and not registered), which is
  where `MaxConcurrent - 1` in `StartsBounded` comes from. `StartsInv` says that the starts
  not excused by an attempt below `max_attempts` or by a requeue are at most one more than
  the reclaims and the unlogged deaths, and no more than those while the task is open.

**RunAdmissionProofs** - `TypeCorrect`; `WorkIsCleared` from `ClearanceInv` (only the
allowed ask, only they are logged, only a cleared launcher is past the gate);
`CreationIsHarmless` from `CreationInv` (which tasks are stored at which place of
create_run; the proof is that the row is written before any task exists);
`CompletedIsComplete` from `HandInv` and `CompletionInv`.

**SuccessHooksProofs** - `TypeCorrect` with `CountInv` (each value the hook counted belongs
to a task of its own, which bounds the counter by the number of tasks), `LinesAreWhole` from
`LineInv`, `StopIsHeeded` from `OverrunInv` (a thread about to lease has had an exception
for each task it took since the trip; one that holds a task may be one ahead), and
`StopsAreDue` (`StopsAfterAStall`) from `BestInv`: `best` was seen `counter` numbers ago, no
number seen since or before beats it by more than `MinDelta`, and a series of numbers none
of which rises over the one before it by more than that is no longer than the counter.

**ExperimentsProofs** - `TypeCorrect` (`RunsFit`), `RegressionsAreFinal` (`RunsGoOn`: tasks
are only added, from the list create_run was given, and a task with a verdict stays as it
is; a regression speaks of settled tasks, or of one that is neither on record nor to be stored),
`CountsAreExplained` (the lists of a report are set differences of the successes, over
finitely many tasks), `AcceptedIsAssessable`, `StrictComparesLikeWithLike`
(`StrictRefusesOtherData`: the hashes a run keeps tell the data its configuration names, so
that equal hashes and equal data are the same), and one with a premise. `ValidationsAgree`
assumes `NoAnnotationOfItsOwn`: a handler that writes `_validation_status` itself is outside
it.

**Only model-checked.** Liveness: `EveryTaskSettles`, `EveryDrainReturns`,
`QuiescentRunIsRepaired`, `ParentReturns`, `ResultReachesStore`, because fairness and ENABLED
are beyond the prover. Every invariant and every step property of the passing runs is the
statement of a theorem.

## 5. What the models say of the code

Four statements of the repository are refuted by runs (section 3). The following
consequences of the modelled code are not runs, because nothing in the repository says
otherwise or the run would only restate the line.

- *Workers.* Two refreshes that overlap around the detour through RUNNING raise ValueError
  in one of them; if that is the refresh after `mark_task_running`, the task stays RUNNING
  for good (`worker.py:180`). The same end awaits a result that cannot be annotated or
  stored and a malformed `timeout_seconds` or `max_attempts`. After a bulk requeue of a
  leased task every refresh raises "running -> validated" until a task is marked again. If
  the artifact write fails the success is on record and not counted. An OOM uses up an
  attempt (`attempt_count` was increased), although `worker.py:230-231` says it does not
  count as a retry; the OOM budget may be exceeded by as many as are between requeue and
  event.
- *Concurrent drain.* An exception between `proc.start()` and its registration (642-643), or
  between `del in_flight[dead_pid]` and the end of the reclaim (664-668), leaves one task
  LEASED or RUNNING with a child the teardown does not know; one in the teardown itself
  (697-701) leaves those of all the children it had not come to, although the comment there
  calls it a safety net (695). `NothingLeftBehind` says it can be no more than these. A
  handler thread that timed out and never ends keeps the parent in `join` for good, with
  tasks still PENDING. Every `finetuneharness run` calls itself "cli" (`cli/main.py:221`),
  so children of two parents share ids and one parent may requeue what the other's child
  runs. A child that dies before leasing is replaced for ever. A task the parent reclaims to
  FAILED is not followed by a refresh, so the run keeps its status until somebody asks. A
  child has neither the parent's policies nor its artifact store (`worker.py:840`).
- *Creation.* A launcher that starts before `create_run` has returned may complete the run
  with part of its grid; when the rest is stored, refreshes raise. A grid cut short by a
  crash or a repeated key can be approved and run to COMPLETED, as it is all there is.
- *Hooks.* An exception after SUCCEEDED was written (the artifact, the event, the refresh)
  keeps drain from asking `stop_fn`, so that a worker whose writes keep failing never stops
  early: each failure buys one more task (`StopsSoon`). A first metric that is no number
  disables early stopping for ever. A metrics line is lost when the lock times out, and
  doubled when a child dies between hook and status. Hooks may change the result after it
  was validated.
- *Evaluation.* When a configuration names both `dataset_hash` and `datasets`, only the
  former is compared, be it null (ExpTwoNames). A technique that is no text raises in the
  validator: in the worker, which leaves the task RUNNING, or, if the payload's method kept
  the worker from looking at it, in every comparison that weighs its metrics. `min_free_mb` accepts NaN.
  Comparing while `create_run` still stores tasks reports them missing, and a later
  comparison withdraws that; nothing else is withdrawn (`RegressionsStand`).
- *Seeding.* `apply_seed` raises for seeds below 0 or from 2^32 on, which the validator
  accepts, between `mark_task_running` and the try block.

## 6. Not modelled

- *Policy, seeding, resources*: the backoff is a delay nothing else waits for; draws from
  the RNG change no control; NVML and the pattern list of `is_oom_error` are I/O and data.
  FirejailSandbox starts a process.
- *Store*: the artifacts table and the listing queries; results, payloads and error texts
  where only their presence matters.
- *run_once*: a malformed `max_attempts`, which raises inside the exception handler; its
  effect on the task is that of `"unusable"`.
- *Hooks* without shared state (GPU, checkpoint, cleanup, progress).
- *Reproducibility*: capturing the environment and hashing.
- *Reports, registry, dispatcher, logging, example handlers*: formatting, lookup tables
  filled at start-up, and the environment of the harness.

## 7. What is left

1. Two parents on one run, to see what of TaskCustody survives shared ids.
2. The drain of ConcurrentDrain composed with RunAdmission, as `run` with
   `mode: resource_aware` does.
3. The artifacts table and the artifact files written next to it.
