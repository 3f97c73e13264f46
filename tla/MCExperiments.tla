---------------------------- MODULE MCExperiments ----------------------------
(* Instances of Experiments for TLC.                                        *)
EXTENDS Experiments, TLC

CONSTANTS r1, r2

Base == [project |-> Object([name |-> Text("p")]),
         executor |-> Object([concurrency |-> Object([mode |-> Text("resource_aware"),
                                                      max_concurrent |-> Number(2)])]),
         artifacts |-> Object([root |-> Text("runs")]),
         seed |-> Number(0)]

OneHash(h)    == Base @@ [dataset_hash |-> Text(h)]
OneSplit(h)   == Base @@ [datasets |-> Object([default |-> Text(h)])]

(* The key dataset_hash next to splits, with a value or null.               *)
Both(h)       == OneHash("h1") @@ OneSplit(h)
NullBeside(h) == [dataset_hash |-> Null] @@ OneSplit(h)

(* Two ways of naming the same data, other data, both ways at once, and one *)
(* configuration for each rule that turns one away.                         *)
MCSubmission ==
  {OneHash("h1"), OneSplit("h1"), OneSplit("h2"), Both("h2")}
    \cup {[OneHash("h1") EXCEPT !.seed = v] : v \in {Bool(TRUE), Null, Text("7")}}
    \cup {OneHash(" "), Base}
    \cup {[OneHash("h1") EXCEPT !.executor = Object([concurrency |-> Object([max_concurrent |-> n])])]
            : n \in {Number(0), Bool(TRUE)}}

(* ... and a null that counts as not given beside splits.                   *)
MCSubmissionNull ==
  {OneHash("h1"), OneSplit("h1"), OneSplit("h2"), NullBeside("h1"), NullBeside("h2")}

MCEnvironment ==
  {[git_commit |-> Text("c1"), container |-> Object([digest |-> Text("d")]),
    determinism_env |-> Object([harness_enforces_determinism |-> Bool(TRUE)])],
   [container |-> Object([engine |-> Text("none")])]}

MCEnvironmentOne == {[git_commit |-> Text("c1")]}

NoMethod == [task_key |-> Text("k")]
Lora     == [task_key |-> Text("k"), method |-> Text("LoRA")]

(* Grids of one and of two tasks, which name their technique or do not.     *)
MCGrid == {[k |-> NoMethod], [k |-> NoMethod, j |-> Lora]}

(* Metrics more than a threshold apart, one of them of a training that      *)
(* trained nothing, one that is no number, and one next to a technique that *)
(* is no text.                                                              *)
MCHandlerResult ==
  {[accuracy |-> Number(90)],
   [accuracy |-> Number(80), trainable_params |-> Number(0)],
   [accuracy |-> NaN],
   [accuracy |-> Number(87), technique |-> Number(1)]}

MCSymmetry == Permutations({r1, r2})
==============================================================================
