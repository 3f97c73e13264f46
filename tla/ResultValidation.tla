--------------------------- MODULE ResultValidation ---------------------------
(***************************************************************************)
(* evaluation/validator.py: what validate_result makes of the dict a       *)
(* handler returned.  A result is the content of a JSON object; method is  *)
(* the technique the caller names, Null if it names none.  The flags that  *)
(* only inform (poor_performance) and the wording of errors are left out.  *)
(***************************************************************************)
EXTENDS JsonValue

AdapterMethods == {"lora", "adalora", "ia3", "prefix", "prompt", "adapter"}

BoundedMetrics == {"accuracy", "f1", "f1_macro", "f1_micro", "f1_weighted",
                   "precision", "recall", "auc", "roc_auc", "balanced_accuracy"}

NonNegativeMetrics == {"loss", "loss_start", "loss_end", "val_loss"}

ResultStatus == {"SUCCEEDED_VALIDATED", "SUCCEEDED_WITH_WARNINGS",
                 "FAILED_VALIDATION", "DEGENERATE_RESULT"}

(* A number under any key may be at fault, not under the known ones only.   *)
BadNumber(key, v) ==
  \/ v \in {NaN, Inf}
  \/ IsFinite(v) /\ key \in BoundedMetrics /\ AsNumber(v) \notin 0..100
  \/ IsFinite(v) /\ key \in NonNegativeMetrics /\ AsNumber(v) < 0

EvaluatedNothing(result) ==
  LET n == Get(result, "eval_examples") IN IsFinite(n) /\ AsNumber(n) <= 0

Erroneous(result) ==
  \/ Truthy(Get(result, "caught_exception"))
  \/ \E key \in DOMAIN result : BadNumber(key, result[key])
  \/ EvaluatedNothing(result)

(* The caller's word counts before the result's own.                        *)
EffectiveMethod(result, method) ==
  IF Truthy(method) THEN method
  ELSE IF Truthy(Get(result, "method")) THEN Get(result, "method")
  ELSE Get(result, "technique")

(* str.lower(); of the capitals, those the techniques are written with.     *)
Capitalised == [LoRA |-> "lora", AdaLoRA |-> "adalora", IA3 |-> "ia3", Prefix |-> "prefix",
                Prompt |-> "prompt", Adapter |-> "adapter"]

LowerCase(s) == IF s \in DOMAIN Capitalised THEN Capitalised[s] ELSE s

(* There is a technique, and no lower() to it: AttributeError, no verdict.  *)
ValidationRaises(result, method) ==
  EffectiveMethod(result, method) # Null /\ Type(EffectiveMethod(result, method)) # "text"

NothingTrained(result, method) ==
  LET technique == EffectiveMethod(result, method)
      trained   == Get(result, "trainable_params")
  IN /\ Type(technique) = "text" /\ LowerCase(Content(technique)) \in AdapterMethods
     /\ IsFinite(trained) /\ AsNumber(trained) = 0

TrainedTooMuch(result) ==
  LET trained == Get(result, "trainable_params")
      total   == Get(result, "total_params")
  IN IsFinite(trained) /\ IsFinite(total) /\ AsNumber(trained) > AsNumber(total)

AllZero(result) ==
  LET bounded == {key \in BoundedMetrics \cap DOMAIN result : IsFinite(result[key])} IN
  /\ bounded # {}
  /\ \A key \in bounded : AsNumber(result[key]) = 0
  /\ ~Truthy(Get(result, "all_zeros_expected"))

Degenerate(result, method) ==
  \/ IsFalse(Get(result, "predictions_non_empty"))
  \/ IsFalse(Get(result, "adapter_loaded"))
  \/ NothingTrained(result, method)
  \/ TrainedTooMuch(result)
  \/ AllZero(result)

(* Where it does not raise.                                                 *)
ValidateResult(result, method) ==
  IF Erroneous(result) THEN "FAILED_VALIDATION"
  ELSE IF Degenerate(result, method) THEN "DEGENERATE_RESULT"
  ELSE IF IsTrue(Get(result, "predictions_constant")) THEN "SUCCEEDED_WITH_WARNINGS"
  ELSE "SUCCEEDED_VALIDATED"

(* Both callers, run_once and compare_runs, ask only this of the outcome.   *)
Rejected(result, method) ==
  ValidateResult(result, method) \in {"FAILED_VALIDATION", "DEGENERATE_RESULT"}
===============================================================================
