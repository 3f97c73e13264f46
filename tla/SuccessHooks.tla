---------------------------- MODULE SuccessHooks ----------------------------
(***************************************************************************)
(* What happens between a validated result and the task's status: the      *)
(* after_task_success hooks (HookRegistry.fire, MetricsHook and            *)
(* EarlyStoppingHook of registry/hooks.py), fired by run_once BEFORE it    *)
(* writes SUCCEEDED, and the stop_fn that drain asks afterwards, unless    *)
(* run_once raised: drain swallows the exception and leases again.         *)
(*                                                                         *)
(* The workers are threads of one process that share the two hooks; other  *)
(* processes append to the same metrics file, or read it, under the same   *)
(* advisory lock, and may keep that lock for ever.  A line takes two steps *)
(* to write, as one does that exceeds the buffer of the file object.       *)
(* EarlyStoppingHook is in mode "max"; "min" negates the values.           *)
(* Leasing and the store are the business of SequentialDrain: a task that  *)
(* is leased again after a failure is one more of the NumTasks here.       *)
(***************************************************************************)
EXTENDS Integers, Sequences, FiniteSets

CONSTANTS
  Worker,    \* the threads that drain the run
  Stranger,  \* another process that locks the metrics file
  Nobody,    \* the holder of a free lock
  NumTasks,  \* how many leases there are to be had
  Metric,    \* what a result may hold under the watched metric
  Patience,  \* EarlyStoppingHook.patience
  MinDelta   \* EarlyStoppingHook.min_delta

ASSUME HooksAssumption ==
  /\ Stranger \notin Worker
  /\ Nobody \notin Worker \cup {Stranger}
  /\ {NumTasks, MinDelta} \subseteq Nat
  /\ Patience \in Nat \ {0}
  /\ Metric \subseteq ({"number"} \X Int) \cup {<<"text", "">>, <<"absent", "">>}

VARIABLES
  pc,         \* where each thread stands
  metric,     \* what the result of its task holds under the watched metric
  left,       \* the tasks no one has leased yet
  threadLock, \* MetricsHook._lock
  fileLock,   \* who holds the advisory lock of the metrics file
  begun,      \* whose lines are in the file without their end
  best, counter, stopping,   \* EarlyStoppingHook
  observed,   \* the numbers it saw, in order
  overrun,    \* how often a thread leased a task although the hook had tripped
  raised      \* how often run_once raised in a thread after that

threadVars == <<pc, metric>>
lineVars   == <<threadLock, fileLock, begun>>
stopVars   == <<best, counter, stopping, observed>>
afterVars  == <<overrun, raised>>
vars == <<threadVars, left, lineVars, stopVars, afterVars>>

NoBest == <<"absent", "">>

IsNumber(v) == v[1] = "number"

ThreadPC == {"lease", "handler", "metrics", "lock", "write", "flush",
             "early_stopping", "status", "recorded", "ended"}

TypeOK ==
  /\ pc \in [Worker -> ThreadPC]
  /\ metric \in [Worker -> Metric \cup {NoBest}]
  /\ left \in 0 .. NumTasks
  /\ threadLock \in Worker \cup {Nobody}
  /\ fileLock \in Worker \cup {Stranger, Nobody}
  /\ begun \subseteq Worker \cup {Stranger}
  /\ best \in Metric \cup {NoBest}
  /\ counter \in 0 .. NumTasks
  /\ stopping \in BOOLEAN
  /\ observed \in Seq({v \in Metric : IsNumber(v)})
  /\ overrun \in [Worker -> Nat]
  /\ raised \in [Worker -> Nat]

Init ==
  /\ pc = [w \in Worker |-> "lease"]
  /\ metric = [w \in Worker |-> NoBest]
  /\ left = NumTasks
  /\ threadLock = Nobody /\ fileLock = Nobody
  /\ begun = {}
  /\ best = NoBest /\ counter = 0 /\ stopping = FALSE /\ observed = <<>>
  /\ overrun = [w \in Worker |-> 0]
  /\ raised = [w \in Worker |-> 0]

Goto(w, place) == pc' = [pc EXCEPT ![w] = place]

At(w, place) == pc[w] = place

-----------------------------------------------------------------------------
(* A slip: one task more than there are.                                    *)
SomethingLeftAlways == left >= 0

SomethingLeft == left > 0

LeaseTask(w) ==
  /\ At(w, "lease") /\ SomethingLeft
  /\ left' = left - 1
  /\ overrun' = [overrun EXCEPT ![w] = IF stopping THEN @ + 1 ELSE @]
  /\ Goto(w, "handler")
  /\ UNCHANGED <<metric, lineVars, stopVars, raised>>

NothingToLease(w) ==
  /\ At(w, "lease") /\ ~SomethingLeft
  /\ Goto(w, "ended")
  /\ UNCHANGED <<metric, left, lineVars, stopVars, afterVars>>

HandlerReturns(w, m) ==
  /\ At(w, "handler")
  /\ metric' = [metric EXCEPT ![w] = m]
  /\ Goto(w, "metrics")
  /\ UNCHANGED <<left, lineVars, stopVars, afterVars>>

(* Out of run_once by an exception: drain goes on without asking stop_fn.   *)
Raise(w) ==
  /\ raised' = [raised EXCEPT ![w] = IF stopping THEN @ + 1 ELSE @]
  /\ Goto(w, "lease")
  /\ UNCHANGED <<metric, left, lineVars, stopVars, overrun>>

HandlerFails(w) == At(w, "handler") /\ Raise(w)

-----------------------------------------------------------------------------
(* MetricsHook.after_task_success.                                          *)

(* with self._lock: blocks, without a timeout, while another thread waits   *)
(* for the file.                                                            *)
EnterMetrics(w) ==
  /\ At(w, "metrics") /\ threadLock = Nobody
  /\ threadLock' = w
  /\ Goto(w, "lock")
  /\ UNCHANGED <<metric, left, fileLock, begun, stopVars, afterVars>>

(* A slip: the lock is shared (LOCK_SH), as if nobody else wrote.           *)
LockableShared == TRUE

(* flock(LOCK_EX | LOCK_NB) does not raise BlockingIOError.                 *)
Lockable == fileLock = Nobody

TakeFileLock(w) ==
  /\ At(w, "lock") /\ Lockable
  /\ fileLock' = w
  /\ Goto(w, "write")
  /\ UNCHANGED <<metric, left, threadLock, begun, stopVars, afterVars>>

(* A slip: flock without LOCK_NB waits for as long as it takes.             *)
GivesUpNever(w) == At(w, "lock") /\ FALSE

(* Another try has failed and the deadline is past.                         *)
GivesUp(w) == At(w, "lock") /\ ~Lockable

(* The TimeoutError ends the with block and is swallowed by fire: the entry *)
(* stays in memory, the line is never written, the next hook is called.     *)
LockTimesOut(w) ==
  /\ GivesUp(w)
  /\ threadLock' = Nobody
  /\ Goto(w, "early_stopping")
  /\ UNCHANGED <<metric, left, fileLock, begun, stopVars, afterVars>>

WriteLine(w) ==
  /\ At(w, "write")
  /\ begun' = begun \cup {w}
  /\ Goto(w, "flush")
  /\ UNCHANGED <<metric, left, threadLock, fileLock, stopVars, afterVars>>

FlushAndUnlock(w) ==
  /\ At(w, "flush")
  /\ begun' = begun \ {w}
  /\ fileLock' = Nobody
  /\ threadLock' = Nobody
  /\ Goto(w, "early_stopping")
  /\ UNCHANGED <<metric, left, stopVars, afterVars>>

-----------------------------------------------------------------------------
(* The other process: it reads the file (get_summary) or writes to it.      *)

StrangerLocks ==
  /\ fileLock = Nobody
  /\ fileLock' = Stranger
  /\ UNCHANGED <<threadVars, left, threadLock, begun, stopVars, afterVars>>

StrangerStarts ==
  /\ fileLock = Stranger
  /\ begun' = begun \cup {Stranger}
  /\ UNCHANGED <<threadVars, left, threadLock, fileLock, stopVars, afterVars>>

StrangerFlushes ==
  /\ fileLock = Stranger
  /\ begun' = begun \ {Stranger}
  /\ UNCHANGED <<threadVars, left, threadLock, fileLock, stopVars, afterVars>>

StrangerUnlocks ==
  /\ fileLock = Stranger /\ Stranger \notin begun
  /\ fileLock' = Nobody
  /\ UNCHANGED <<threadVars, left, threadLock, begun, stopVars, afterVars>>

-----------------------------------------------------------------------------
(* EarlyStoppingHook.after_task_success, under its own lock.                *)

Improves(v) == v[2] - best[2] > MinDelta

(* A slip: an improvement does not reset the counter.                       *)
CountedOn(v) == IF Improves(v) THEN counter ELSE counter + 1

Counted(v) == IF Improves(v) THEN 0 ELSE counter + 1

Trips(v) == stopping \/ Counted(v) >= Patience

(* The first value is the best so far whatever it is.  Between a text and a *)
(* number the subtraction raises, fire swallows it, and nothing changes.    *)
Observe(v) ==
  IF v = NoBest THEN UNCHANGED stopVars
  ELSE /\ observed' = IF IsNumber(v) THEN Append(observed, v) ELSE observed
       /\ IF best = NoBest
          THEN best' = v /\ counter' = 0 /\ UNCHANGED stopping
          ELSE IF IsNumber(v) /\ IsNumber(best)
          THEN /\ best' = IF Improves(v) THEN v ELSE best
               /\ counter' = Counted(v)
               /\ stopping' = Trips(v)
          ELSE UNCHANGED <<best, counter, stopping>>

EarlyStopping(w) ==
  /\ At(w, "early_stopping")
  /\ Observe(metric[w])
  /\ metric' = [metric EXCEPT ![w] = NoBest]
  /\ Goto(w, "status")
  /\ UNCHANGED <<left, lineVars, afterVars>>

(* The hooks are announced and SUCCEEDED is written.                        *)
RecordSuccess(w) ==
  /\ At(w, "status")
  /\ Goto(w, "recorded")
  /\ UNCHANGED <<metric, left, lineVars, stopVars, afterVars>>

(* Any of these calls may raise, or the artifact, the event or the refresh  *)
(* that follow the status.                                                  *)
StoreFails(w) == (At(w, "status") \/ At(w, "recorded")) /\ Raise(w)

(* A slip: the answer is not acted upon.                                    *)
AfterStopFnAnyway == "lease"

AfterStopFn == IF stopping THEN "ended" ELSE "lease"

(* run_once returns, and drain asks.                                        *)
AskStopFn(w) ==
  /\ At(w, "recorded")
  /\ Goto(w, AfterStopFn)
  /\ UNCHANGED <<metric, left, lineVars, stopVars, afterVars>>

Metrics(w) == EnterMetrics(w) \/ TakeFileLock(w) \/ LockTimesOut(w) \/ WriteLine(w) \/ FlushAndUnlock(w)

Step(w) ==
  \/ LeaseTask(w) \/ NothingToLease(w)
  \/ (\E m \in Metric : HandlerReturns(w, m)) \/ HandlerFails(w)
  \/ Metrics(w) \/ EarlyStopping(w)
  \/ RecordSuccess(w) \/ StoreFails(w) \/ AskStopFn(w)

StrangerStep == StrangerLocks \/ StrangerStarts \/ StrangerFlushes \/ StrangerUnlocks

Next == StrangerStep \/ \E w \in Worker : Step(w)

(* A thread that can go on within the hooks does; the stranger owes nobody  *)
(* anything, and neither handlers nor the store need ever return.           *)
Spec == Init /\ [][Next]_vars /\ \A w \in Worker : WF_vars(Metrics(w) \/ EarlyStopping(w))

-----------------------------------------------------------------------------
(* "concurrent workers (threads or separate processes) cannot interleave    *)
(* JSONL lines" (registry/hooks.py:133-134): nobody begins a line before    *)
(* the one that was begun is whole.                                         *)
WholeLines == Cardinality(begun) <= 1

(* "Stop run if metric doesn't improve for N consecutive tasks"             *)
(* (registry/hooks.py:233).  Of the numbers observed: the hook trips only   *)
(* after Patience of them in a row none of which is more than MinDelta      *)
(* above an earlier one; and it has tripped once Patience of them in a row  *)
(* were no higher than the one before them, unless the first value it saw   *)
(* was a text, which stays the best for good.                               *)
Stall(slack) ==
  \E b \in DOMAIN observed :
    /\ b + Patience <= Len(observed)
    /\ \A i \in b + 1 .. b + Patience : observed[i][2] <= observed[b][2] + slack

StopsAfterAStall ==
  /\ stopping => Stall(MinDelta)
  /\ Stall(0) /\ IsNumber(best) => stopping

(* A thread asks stop_fn only between a task that went well and the next    *)
(* one.  After the hook has tripped it takes one more task than run_once    *)
(* raises from then on, and no other: a task it was about to lease, and one *)
(* for each exception that kept it from asking, after a success that is on  *)
(* record just as after a failed handler.                                   *)
StopsSoon == \A w \in Worker : overrun[w] <= 1 + raised[w]

(* No hook holds a task up for ever, even if another process keeps the lock *)
(* of the metrics file: with a result that was validated the worker comes   *)
(* to write the status ("fails loudly with TimeoutError instead of blocking *)
(* the worker forever", registry/hooks.py:137-138).                         *)
ResultReachesStore == \A w \in Worker : At(w, "metrics") ~> At(w, "status")
=============================================================================
