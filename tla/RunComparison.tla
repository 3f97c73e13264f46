---------------------------- MODULE RunComparison ----------------------------
(***************************************************************************)
(* evaluation/comparator.py: compare_runs, as a function of the records    *)
(* and tasks it loads.  A run here is what get_run and list_tasks return   *)
(* of it:                                                                  *)
(*   [config, dataset_hashes, env_snapshot : contents of JSON objects,     *)
(*    tasks : task_key -> [status, result]]                                *)
(* with result a JSON value, Null until there is one.  ids is the list of  *)
(* runs compared, the baseline first.                                      *)
(***************************************************************************)
EXTENDS ResultValidation, FiniteSets

(* A slip: a task that is not over yet counts as a failure.                 *)
FailStatusesUnfinishedToo ==
  {"FAILED", "TIMED_OUT", "CANCELLED", "DEGENERATE", "missing", "PENDING"}

(* A slip: one of the failures is forgotten.                                *)
FailStatusesNotDegenerate == {"FAILED", "TIMED_OUT", "CANCELLED", "missing"}

FailStatuses == {"FAILED", "TIMED_OUT", "CANCELLED", "DEGENERATE", "missing"}

OkStatuses == {"SUCCEEDED"}

LowerIsBetter == {"loss", "val_loss", "loss_start", "loss_end"}

ComparableConfigKeys == {"model_name", "tokenizer_type", "max_length", "num_labels",
                         "model_type", "vocab_size"}

(* Metrics with a threshold of 0.02, 0.03 and 0.05.                         *)
DefaultThresholds ==
  [key \in BoundedMetrics \cup {"loss", "val_loss"} |->
     IF key \in {"loss", "val_loss"} THEN 5
     ELSE IF key \in {"precision", "recall"} THEN 3 ELSE 2]

-----------------------------------------------------------------------------
Differ(v, w) == v # Null /\ w # Null /\ v # w

(* A slip: only the names of the splits are compared.                       *)
DataDiffersInNames(a, b) ==
  /\ DOMAIN a.dataset_hashes # {} /\ DOMAIN b.dataset_hashes # {}
  /\ DOMAIN a.dataset_hashes # DOMAIN b.dataset_hashes

(* The only issue of severity "error".                                      *)
DataDiffers(a, b) ==
  /\ DOMAIN a.dataset_hashes # {} /\ DOMAIN b.dataset_hashes # {}
  /\ a.dataset_hashes # b.dataset_hashes

(* check_comparability: the fields at issue, with their severity.           *)
CheckComparability(a, b) ==
  {<<"error", f>> : f \in {x \in {"dataset_hashes"} : DataDiffers(a, b)}}
    \cup {<<"warning", f>> : f \in {x \in {"seed"} \cup ComparableConfigKeys :
                                      Differ(Get(a.config, x), Get(b.config, x))}}
    \cup {<<"warning", f>> : f \in {x \in {"git_commit"} :
                                      Differ(Get(a.env_snapshot, x), Get(b.env_snapshot, x))}}

Later(ids) == {ids[i] : i \in 2..Len(ids)}

(* strict=True: ComparabilityError unless every run fits the baseline.      *)
RefusedStrictly(runs, ids) ==
  \E r \in Later(ids) : \E issue \in CheckComparability(runs[ids[1]], runs[r]) :
    issue[1] = "error"

-----------------------------------------------------------------------------
StatusIn(run, key) == IF key \in DOMAIN run.tasks THEN run.tasks[key].status ELSE "missing"

ResultIn(run, key) == IF key \in DOMAIN run.tasks THEN run.tasks[key].result ELSE Null

(* A slip: only structural degeneracy is looked for.                        *)
ExcludedIfDegenerate(run, key) ==
  ResultIn(run, key) # Null /\ Degenerate(Content(ResultIn(run, key)), Null)

(* The validator is asked again, without the method the task's payload may  *)
(* name.                                                                    *)
Excluded(run, key) ==
  ResultIn(run, key) # Null /\ Rejected(Content(ResultIn(run, key)), Null)

NumericMetrics(run, key) ==
  IF ResultIn(run, key) = Null THEN {}
  ELSE LET result == Content(ResultIn(run, key)) IN {m \in DOMAIN result : IsFinite(result[m])}

(* The metrics a task of two runs has in common and is compared on.         *)
ComparedMetrics(base, run, key) ==
  IF Excluded(base, key) \/ Excluded(run, key) THEN {}
  ELSE (NumericMetrics(base, key) \cap NumericMetrics(run, key)) \ {"wall_seconds"}

Delta(base, run, key, metric) ==
  AsNumber(Content(ResultIn(run, key))[metric]) - AsNumber(Content(ResultIn(base, key))[metric])

IsMetricRegression(metric, delta, thresholds) ==
  /\ metric \in DOMAIN thresholds
  /\ IF metric \in LowerIsBetter THEN delta > thresholds[metric] ELSE delta < -thresholds[metric]

MetricRegresses(base, run, key, thresholds) ==
  \E m \in ComparedMetrics(base, run, key) :
    IsMetricRegression(m, Delta(base, run, key, m), thresholds)

StatusRegresses(base, later, key) ==
  /\ StatusIn(base, key) \in OkStatuses
  /\ \E run \in later : StatusIn(run, key) \in FailStatuses

StatusImproves(base, later, key) ==
  /\ StatusIn(base, key) \in FailStatuses
  /\ \E run \in later : StatusIn(run, key) \in OkStatuses

(* The lists of the report compare_runs returns.                            *)
TaskKeys(runs, ids) == UNION {DOMAIN runs[ids[i]].tasks : i \in DOMAIN ids}

LaterRuns(runs, ids) == {runs[r] : r \in Later(ids)}

Regressions(runs, ids) ==
  {k \in TaskKeys(runs, ids) : StatusRegresses(runs[ids[1]], LaterRuns(runs, ids), k)}

Improvements(runs, ids) ==
  {k \in TaskKeys(runs, ids) : StatusImproves(runs[ids[1]], LaterRuns(runs, ids), k)}

(* A task whose status got worse is not listed for its metrics again.       *)
MetricRegressions(runs, ids, thresholds) ==
  {k \in TaskKeys(runs, ids) \ Regressions(runs, ids) :
     \E run \in LaterRuns(runs, ids) : MetricRegresses(runs[ids[1]], run, k, thresholds)}

(* The counts of a RunSnapshot.                                             *)
Succeeded(run) == Cardinality({k \in DOMAIN run.tasks : run.tasks[k].status = "SUCCEEDED"})

Failed(run) == Cardinality({k \in DOMAIN run.tasks :
                 run.tasks[k].status \in {"FAILED", "TIMED_OUT", "CANCELLED", "DEGENERATE"}})
==============================================================================
