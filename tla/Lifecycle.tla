----------------------------- MODULE Lifecycle -----------------------------
(***************************************************************************)
(* The run and task lifecycle of FineTuneHarness: the statuses of          *)
(* state/models.py, the two transition tables of orchestrator/lifecycle.py *)
(* and the rule by which FineTuneRunner.refresh_run_status derives a run's *)
(* status from the statuses of its tasks.                                  *)
(***************************************************************************)

EXTENDS Naturals

RunStatus == {"CREATED", "VALIDATED", "RUNNING", "PARTIAL_FAILED",
              "FAILED", "COMPLETED", "CANCELLED"}

TaskStatus == {"PENDING", "LEASED", "RUNNING", "SUCCEEDED", "FAILED",
               "TIMED_OUT", "DEGENERATE", "CANCELLED"}

(* _TERMINAL_STATUSES of the runner: the statuses that stamp finished_at.   *)
TerminalRun == {"COMPLETED", "FAILED", "CANCELLED"}

(* A slip: DEGENERATE forgotten among the non-success verdicts.             *)
UnsuccessfulNotDegenerate == {"FAILED", "TIMED_OUT"}

(* The non-success verdicts of refresh_run_status and of drain.             *)
Unsuccessful == {"FAILED", "TIMED_OUT", "DEGENERATE"}

InProgress == {"PENDING", "LEASED", "RUNNING"}

(* The task statuses with no successor in ALLOWED_TASK_TRANSITIONS.         *)
TerminalTask == TaskStatus \ InProgress

(* A slip: a partial failure cannot become a complete one.                  *)
RunTransitionAllowedNoWorse(from, to) ==
  \/ from = "CREATED"   /\ to \in {"VALIDATED", "CANCELLED"}
  \/ from = "VALIDATED" /\ to \in {"RUNNING", "CANCELLED"}
  \/ from = "RUNNING"   /\ to \in {"PARTIAL_FAILED", "FAILED", "COMPLETED", "CANCELLED"}
  \/ from = "PARTIAL_FAILED" /\ to = "CANCELLED"

(***************************************************************************)
(* ensure_run_transition / ensure_task_transition do not raise.            *)
(***************************************************************************)
RunTransitionAllowed(from, to) ==
  \/ from = "CREATED"   /\ to \in {"VALIDATED", "CANCELLED"}
  \/ from = "VALIDATED" /\ to \in {"RUNNING", "CANCELLED"}
  \/ from = "RUNNING"   /\ to \in {"PARTIAL_FAILED", "FAILED", "COMPLETED", "CANCELLED"}
  \/ from = "PARTIAL_FAILED" /\ to \in {"FAILED", "COMPLETED", "CANCELLED"}

TaskTransitionAllowed(from, to) ==
  \/ from = "PENDING" /\ to \in {"LEASED", "CANCELLED"}
  \/ from = "LEASED"  /\ to \in {"RUNNING", "CANCELLED", "TIMED_OUT"}
  \/ from = "RUNNING" /\ to \in {"SUCCEEDED", "FAILED", "TIMED_OUT",
                                 "DEGENERATE", "CANCELLED", "PENDING"}

(* A target out of reach in one step is reached through RUNNING.            *)
ReachableViaRunning(from, to) ==
  RunTransitionAllowed(from, "RUNNING") /\ RunTransitionAllowed("RUNNING", to)

(* A slip: any() where all() is meant.                                      *)
RunTargetAny(T, st, att) ==
  IF \E t \in T : st[t] = "SUCCEEDED" THEN "COMPLETED"
  ELSE IF \E t \in T : st[t] \in Unsuccessful THEN "PARTIAL_FAILED"
  ELSE IF \E t \in T : att[t] > 0 THEN "RUNNING"
  ELSE "VALIDATED"

(***************************************************************************)
(* The status refresh_run_status computes for a run whose tasks T have the *)
(* statuses st and the attempt counts att.                                 *)
(***************************************************************************)
RunTarget(T, st, att) ==
  LET has(S) == \E t \in T : st[t] \in S IN
  IF T = {} THEN "VALIDATED"
  ELSE IF \A t \in T : st[t] = "SUCCEEDED" THEN "COMPLETED"
  ELSE IF has(Unsuccessful) /\ has({"SUCCEEDED"} \cup InProgress) THEN "PARTIAL_FAILED"
  ELSE IF \A t \in T : st[t] \in Unsuccessful \cup {"CANCELLED"} THEN "FAILED"
  ELSE IF has({"RUNNING", "LEASED", "SUCCEEDED"}) \/ \E t \in T : att[t] > 0 THEN "RUNNING"
  ELSE "VALIDATED"
=============================================================================
