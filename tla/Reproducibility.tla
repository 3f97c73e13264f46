--------------------------- MODULE Reproducibility ---------------------------
(***************************************************************************)
(* state/reproducibility.py: assess_reproducibility.  run is a record with *)
(* the fields seed and config_hash (JSON values), dataset_hashes and       *)
(* env_snapshot (contents of objects).  Warnings are left out but for the  *)
(* one about the drain mode; hashing is left out: config_hash is           *)
(* Text(c) for some c that stands for the configuration.                   *)
(***************************************************************************)
EXTENDS JsonValue

(* A slip: the seed 0 is taken for none.                                    *)
MissingFieldsFalsySeed(run) ==
  {f \in {"seed"} : ~Truthy(run.seed)}
    \cup {f \in {"dataset_hashes"} : DOMAIN run.dataset_hashes = {}}
    \cup {f \in {"env_snapshot.git_commit"} : ~Truthy(Get(run.env_snapshot, "git_commit"))}

MissingFields(run) ==
  {f \in {"seed"} : run.seed = Null}
    \cup {f \in {"dataset_hashes"} : DOMAIN run.dataset_hashes = {}}
    \cup {f \in {"config_hash"} : ~Truthy(run.config_hash)}
    \cup {f \in {"env_snapshot.git_commit"} : ~Truthy(Get(run.env_snapshot, "git_commit"))}

(* env_snapshot.get(section, {}).get(key).                                  *)
InSection(env, section, key) ==
  IF section \in DOMAIN env THEN Get(Content(env[section]), key) ELSE Null

DeterminismForced(run) ==
  Truthy(InSection(run.env_snapshot, "determinism_env", "harness_enforces_determinism"))

HasDigest(run) == Truthy(InSection(run.env_snapshot, "container", "digest"))

Level(run) ==
  IF MissingFields(run) # {} THEN "FAIL"
  ELSE IF HasDigest(run) /\ DeterminismForced(run) THEN "PASS"
  ELSE "PARTIAL"

Replayable(run) == Level(run) # "FAIL"
==============================================================================
