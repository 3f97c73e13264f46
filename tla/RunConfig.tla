------------------------------ MODULE RunConfig ------------------------------
(***************************************************************************)
(* validation/configs.py: which run configurations are accepted, and what  *)
(* create_run (orchestrator/runner.py) and the command line derive from    *)
(* one.  A configuration is the content of a JSON object.                  *)
(***************************************************************************)
EXTENDS JsonValue

RequiredKeys == {"project", "executor", "artifacts"}

ConcurrencyModes == {"sequential", "resource_aware"}

IsObjectWithText(v, key) == Type(v) = "object" /\ IsText(Get(Content(v), key))

(* A number, not a bool, and not below zero: `val < 0` is false of NaN.     *)
NonNegative(v) == IsNumeric(v) /\ Type(v) # "bool" /\ (Type(v) = "number" => Content(v) >= 0)

IsIntAtLeast(v, low) == Type(v) = "number" /\ Content(v) >= low

(* Every entry of executor.concurrency is optional; it has to fit if given. *)
ConcurrencyAccepted(v) ==
  /\ Type(v) = "object"
  /\ \A key \in DOMAIN Content(v) :
       LET x == Content(v)[key] IN
       /\ key = "mode" => Type(x) = "text" /\ Content(x) \in ConcurrencyModes
       /\ key \in {"min_free_mb", "settle_seconds"} => NonNegative(x)
       /\ key = "max_concurrent" => IsIntAtLeast(x, 1)
       /\ key = "max_oom_retries" => IsIntAtLeast(x, 0)

ExecutorAccepted(v) ==
  /\ Type(v) = "object"
  /\ "concurrency" \in DOMAIN Content(v) => ConcurrencyAccepted(Content(v)["concurrency"])

SeedAccepted(c) == Type(Get(c, "seed")) = "number"

(* One hash for all the data, or one for each split.  A null counts as not  *)
(* given, whether the key is there or not.                                  *)
DataAccepted(c) ==
  LET hash == Get(c, "dataset_hash")
      datasets == Get(c, "datasets")
  IN /\ hash # Null \/ Truthy(datasets)
     /\ hash # Null => IsWord(hash)
     /\ datasets # Null => /\ Type(datasets) = "object"
                           /\ Truthy(datasets)
                           /\ \A k \in DOMAIN Content(datasets) : IsWord(Content(datasets)[k])

(* validate_run_config returns.                                             *)
Accepted(c) ==
  /\ RequiredKeys \subseteq DOMAIN c
  /\ IsObjectWithText(c["project"], "name")
  /\ ExecutorAccepted(c["executor"])
  /\ IsObjectWithText(c["artifacts"], "root")
  /\ SeedAccepted(c)
  /\ DataAccepted(c)

-----------------------------------------------------------------------------
(* The dataset_hashes of the RunRecord: it is the key that decides, not     *)
(* whether anything was given under it.                                     *)
DatasetHashes(c) ==
  IF "dataset_hash" \in DOMAIN c THEN [default |-> c["dataset_hash"]]
  ELSE Content(c["datasets"])

(* The configuration names data that DatasetHashes leaves out: there are    *)
(* splits, and next to them the key dataset_hash, be it null.               *)
NamesTwice(c) == "dataset_hash" \in DOMAIN c /\ Get(c, "datasets") # Null

(* The data a configuration names, whichever way it names them.             *)
NamedData(c) ==
  {<<"default", h>> : h \in {Get(c, "dataset_hash")} \ {Null}}
    \cup (IF Get(c, "datasets") = Null THEN {}
          ELSE LET splits == Content(c["datasets"]) IN {<<s, splits[s]>> : s \in DOMAIN splits})
==============================================================================
