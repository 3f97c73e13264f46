------------------------- MODULE MCConcurrentDrain -------------------------
(***************************************************************************)
(* Small instances of ConcurrentDrain for TLC.                             *)
(***************************************************************************)
EXTENDS ConcurrentDrain, TLC

(* Task 1 may be tried twice, the other tasks once.                         *)
MCMaxAttempts == [t \in Task |-> IF t = 1 THEN 2 ELSE 1]

(* Task 2 may run out of memory; task 1 exceeds its timeout at first, and   *)
(* may do so again.                                                         *)
YieldMixed(t, a) ==
  IF t = 2 THEN {"ok", "oom"} ELSE IF a = 1 THEN {"timeout"} ELSE {"ok", "timeout"}

(* A handler that never fails.                                              *)
YieldOk(t, a) == {"ok"}
=============================================================================
