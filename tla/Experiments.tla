----------------------------- MODULE Experiments -----------------------------
(***************************************************************************)
(* The life of the results: runs are created from configurations           *)
(* (orchestrator/runner.py), workers settle their tasks (executor/         *)
(* worker.py), and at any moment somebody compares runs (evaluation/       *)
(* comparator.py) or asks how reproducible one is (state/reproducibility.  *)
(* py).  The two questions change nothing, so they are not actions: the    *)
(* properties speak of every comparison that could be asked for.           *)
(*                                                                         *)
(* Leasing, retries and crashes are the business of SequentialDrain and    *)
(* ConcurrentDrain; here a task goes from PENDING to its verdict in one    *)
(* step.  create_run stores a run and then its tasks one by one, and the   *)
(* run can be compared, and worked on, from the first of these steps; it   *)
(* may also never come to the last.  after_task_success hooks add nothing  *)
(* to a result here.                                                       *)
(***************************************************************************)
EXTENDS RunConfig, RunComparison, Reproducibility, Functions

CONSTANTS
  Run,          \* the run ids that may come to exist
  Submission,   \* the configurations handed to create_run, contents of objects
  Environment,  \* what capture_env_snapshot may find
  Grid,         \* the task lists: functions from task keys to payloads
  HandlerResult \* what handlers return

(* The content of an object is a function, whatever else it may be.         *)
ASSUME SubmissionAssumption ==
  \A c \in Submission : Type(Get(c, "datasets")) = "object" =>
    LET splits == Content(c["datasets"]) IN splits = [x \in DOMAIN splits |-> splits[x]]

VARIABLES
  runs,     \* the runs on record, by id
  unstored  \* the part of its task list that create_run has not stored yet, by run

vars == <<runs, unstored>>

RunOf(c, env) ==
  [config |-> c, seed |-> c["seed"], dataset_hashes |-> DatasetHashes(c),
   config_hash |-> Text("sha256"), env_snapshot |-> env, tasks |-> <<>>]

TypeOK ==
  /\ DOMAIN runs \subseteq Run
  /\ DOMAIN unstored = DOMAIN runs
  /\ \A r \in DOMAIN runs :
       /\ runs[r].config \in Submission
       /\ runs[r].env_snapshot \in Environment
       /\ \A k \in DOMAIN runs[r].tasks :
            /\ runs[r].tasks[k].status
                 \in {"PENDING", "SUCCEEDED", "DEGENERATE", "FAILED", "TIMED_OUT"}
            /\ runs[r].tasks[k].result # Null
                 <=> runs[r].tasks[k].status \in {"SUCCEEDED", "DEGENERATE"}

Init == runs = <<>> /\ unstored = <<>>

(* The keys of f, and one more.                                             *)
With(f, x, v) == [y \in DOMAIN f \cup {x} |-> IF y = x THEN v ELSE f[y]]

CreateRun(r, c, env, grid) ==
  /\ r \notin DOMAIN runs
  /\ Accepted(c)
  /\ runs' = With(runs, r, RunOf(c, env))
  /\ unstored' = With(unstored, r, grid)

(* In whatever order the list has them.                                     *)
CreateTask(r, k) ==
  /\ r \in DOMAIN runs
  /\ k \in DOMAIN unstored[r]
  /\ LET task == [payload |-> unstored[r][k], status |-> "PENDING", result |-> Null]
     IN runs' = [runs EXCEPT ![r].tasks = With(@, k, task)]
  /\ unstored' = [unstored EXCEPT ![r] = Restrict(@, DOMAIN @ \ {k})]

Settled(run) == \A k \in DOMAIN run.tasks : run.tasks[k].status # "PENDING"

Record(r, k, status, result) ==
  /\ r \in DOMAIN runs
  /\ k \in DOMAIN runs[r].tasks
  /\ runs[r].tasks[k].status = "PENDING"
  /\ runs' = [runs EXCEPT ![r].tasks[k].status = status, ![r].tasks[k].result = result]
  /\ UNCHANGED unstored

(* The worker adds the time taken, unless the handler did.                  *)
Timed(result) ==
  [x \in DOMAIN result \cup {"wall_seconds"} |->
     IF x \in DOMAIN result THEN result[x] ELSE Number(100)]

(* ... and then what the validator said.                                    *)
Annotated(result, method) ==
  [x \in DOMAIN result \cup {"_validation_status"} |->
     IF x = "_validation_status" THEN Text(ValidateResult(result, method)) ELSE result[x]]

(* A slip: a rejected result is not kept.                                   *)
HandlerReturnsKeepsNothing(r, k, result) ==
  LET timed  == Timed(result)
      method == Get(runs[r].tasks[k].payload, "method")
  IN /\ ~ValidationRaises(timed, method)
     /\ Record(r, k, IF Rejected(timed, method) THEN "DEGENERATE" ELSE "SUCCEEDED",
               IF Rejected(timed, method) THEN Null ELSE Object(Annotated(timed, method)))

(* A result on which the validator raises leaves its task without a         *)
(* verdict: run_once raises in turn.                                        *)
HandlerReturns(r, k, result) ==
  LET timed  == Timed(result)
      method == Get(runs[r].tasks[k].payload, "method")
  IN /\ ~ValidationRaises(timed, method)
     /\ Record(r, k, IF Rejected(timed, method) THEN "DEGENERATE" ELSE "SUCCEEDED",
               Object(Annotated(timed, method)))

(* The last retry failed, or the time was up: no result is kept.            *)
HandlerFails(r, k, status) == Record(r, k, status, Null)

Next ==
  \E r \in Run :
    \/ \E c \in Submission, env \in Environment, grid \in Grid : CreateRun(r, c, env, grid)
    \/ \E k \in UNION {DOMAIN g : g \in Grid} :
         \/ CreateTask(r, k)
         \/ \E result \in HandlerResult : r \in DOMAIN runs /\ k \in DOMAIN runs[r].tasks
                                            /\ HandlerReturns(r, k, result)
         \/ \E status \in {"FAILED", "TIMED_OUT"} : HandlerFails(r, k, status)

Spec == Init /\ [][Next]_vars

-----------------------------------------------------------------------------
Down(ids)  == Regressions(runs, ids)
Up(ids)    == Improvements(runs, ids)
Worse(ids) == MetricRegressions(runs, ids, DefaultThresholds)

(* A strict comparison never mixes data ("dataset_hashes differ - results   *)
(* measure different data", comparator.py:98): two runs it lets pass name   *)
(* the same data in their configurations.  It does where a configuration    *)
(* names its data in both ways, which validate_run_config lets pass.        *)
StrictMeansSameData ==
  \A a, b \in DOMAIN runs :
    ~RefusedStrictly(runs, <<a, b>>) => NamedData(runs[a].config) = NamedData(runs[b].config)

(* Apart from those the strict comparison is exact: it refuses two runs if  *)
(* the data their configurations name differ, and only then, whichever way  *)
(* each of them names it ("which is absent for runs that used the           *)
(* datasets-dict form and would silently skip the check", comparator.py:    *)
(* 81-82).                                                                  *)
StrictRefusesOtherData ==
  \A a, b \in DOMAIN runs :
    ~NamesTwice(runs[a].config) /\ ~NamesTwice(runs[b].config) =>
      (RefusedStrictly(runs, <<a, b>>) <=> NamedData(runs[a].config) # NamedData(runs[b].config))

(* A comparison may be made while either run is still going on, and while   *)
(* create_run is still storing it.  What is reported as a regression is one *)
(* for good, no later report takes it back, with one exception: a task the  *)
(* report calls missing because create_run has not stored it yet.           *)
Lasting(a, b) == Down(<<a, b>>) \ DOMAIN unstored[b]

ReportsHold ==
  \A a \in DOMAIN runs : \A b \in DOMAIN runs \ {a} :
    /\ Lasting(a, b) \subseteq Lasting(a, b)'
    /\ Worse(<<a, b>>) \subseteq Worse(<<a, b>>)'

RegressionsStand == [][ReportsHold]_vars

(* The counts of two snapshots differ by exactly the tasks the report       *)
(* lists: no loss and no gain goes unmentioned once the tasks on record are *)
(* settled, whatever kind of failure, or absence, it is.                    *)
CountsExplained ==
  \A a, b \in DOMAIN runs :
    Settled(runs[a]) /\ Settled(runs[b]) =>
      /\ Succeeded(runs[a]) - Cardinality(Down(<<a, b>>))
           = Succeeded(runs[b]) - Cardinality(Up(<<a, b>>))
      /\ Succeeded(runs[a]) + Failed(runs[a]) = Cardinality(DOMAIN runs[a].tasks)

(* The validator is asked twice, by the worker and by the comparison, and   *)
(* only the worker knows the method the payload names.  Where it names      *)
(* none the two agree: a result the worker rejected is left out of the      *)
(* metrics, one it accepted is not, and none that is on record makes the    *)
(* comparison raise.                                                        *)
VerdictsAgree ==
  \A r \in DOMAIN runs : \A k \in DOMAIN runs[r].tasks :
    /\ runs[r].tasks[k].result # Null
    /\ ~Truthy(Get(runs[r].tasks[k].payload, "method"))
    => /\ ~ValidationRaises(Content(runs[r].tasks[k].result), Null)
       /\ Excluded(runs[r], k) <=> runs[r].tasks[k].status = "DEGENERATE"

(* "A task with adapter_loaded=False (DEGENERATE_RESULT) must not           *)
(* contribute to metric deltas" (tests/unit/test_comparison_rigorous.py:    *)
(* 288-289): nor must one that is DEGENERATE for what its method tells.     *)
DegenerateNotCompared ==
  \A a, b \in DOMAIN runs : \A k \in DOMAIN runs[b].tasks :
    StatusIn(runs[b], k) = "DEGENERATE" => ComparedMetrics(runs[a], runs[b], k) = {}

(* What validate_run_config asks for is what assess_reproducibility needs:  *)
(* of an accepted configuration nothing is found missing afterwards but the *)
(* git commit, which is not the configuration's to give.                    *)
AcceptedMeansAssessable ==
  \A r \in DOMAIN runs :
    /\ MissingFields(runs[r]) \subseteq {"env_snapshot.git_commit"}
    /\ Replayable(runs[r]) <=> Truthy(Get(runs[r].env_snapshot, "git_commit"))
==============================================================================
