------------------------- MODULE MCSequentialDrain -------------------------
(***************************************************************************)
(* Small instances of SequentialDrain for TLC.                             *)
(***************************************************************************)
EXTENDS SequentialDrain, TLC

(* Task 1 may be tried twice, the other tasks once.                         *)
MCMaxAttempts == [t \in Task |-> IF t = 1 THEN 2 ELSE 1]

(* Everything but results the worker cannot store.                          *)
YieldStorable(t, a) == HandlerOutcome \ {"unusable"}

(* A handler that never fails.                                              *)
YieldOk(t, a) == {"ok"}

(* A part of it for each task.                                              *)
YieldByTask(t, a) == IF t = 1 THEN {"ok", "error"} ELSE {"ok", "invalid", "timeout"}

(* The ways a worker can part with its task: settle it, retry it, give it   *)
(* up while the handler goes on, or leave it unrecorded.                    *)
YieldPartings(t, a) == {"ok", "error", "timeout", "unusable"}

(* A flaky handler: it may fail, but not at its last permitted attempt.     *)
YieldFlaky(t, a) == IF a < MCMaxAttempts[t] THEN {"ok", "error"} ELSE {"ok"}

WorkerSymmetry == Permutations(Worker)
=============================================================================
