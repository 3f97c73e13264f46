---------------------------- MODULE TaskCustody ----------------------------
(***************************************************************************)
(* What the leases promise about the tasks of a run, seen from outside:    *)
(* an open task is begun by one worker, that worker alone gives it back    *)
(* for a retry or settles it, a worker runs one task at a time, a verdict  *)
(* is final, and a task whose worker is lost is begun again only where     *)
(* somebody watches the workers (drain_concurrent) and takes it back first.*)
(* Leases, attempt counts and the steps in between are invisible here.     *)
(***************************************************************************)
EXTENDS Lifecycle

CONSTANTS
  Task, Worker, NoWorker,
  Recovers  \* is there anybody to take back the tasks of lost workers?

VARIABLES
  phase,   \* "open", "underway" or the verdict of each task
  runner   \* the worker running it, or NoWorker

custodyVars == <<phase, runner>>

Verdicts == {"SUCCEEDED", "FAILED", "TIMED_OUT", "DEGENERATE"}

Init ==
  /\ phase = [t \in Task |-> "open"]
  /\ runner = [t \in Task |-> NoWorker]

Begin(w, t) ==
  /\ phase[t] = "open"
  /\ \A u \in Task : runner[u] # w
  /\ phase' = [phase EXCEPT ![t] = "underway"]
  /\ runner' = [runner EXCEPT ![t] = w]

GiveBack(w, t) ==
  /\ runner[t] = w
  /\ phase' = [phase EXCEPT ![t] = "open"]
  /\ runner' = [runner EXCEPT ![t] = NoWorker]

Settle(w, t, v) ==
  /\ runner[t] = w
  /\ phase' = [phase EXCEPT ![t] = v]
  /\ runner' = [runner EXCEPT ![t] = NoWorker]

(* The worker dies, or run_once raises without recording anything.          *)
Lose(w, t) ==
  /\ runner[t] = w
  /\ runner' = [runner EXCEPT ![t] = NoWorker]
  /\ UNCHANGED phase

(* A task whose worker is lost, or died before it began, is opened again or *)
(* given up.                                                                *)
TakeBack(t) ==
  /\ Recovers
  /\ phase[t] \in {"open", "underway"} /\ runner[t] = NoWorker
  /\ \E p \in {"open", "FAILED"} : phase' = [phase EXCEPT ![t] = p]
  /\ UNCHANGED runner

Next ==
  \/ \E t \in Task : TakeBack(t)
  \/ \E w \in Worker, t \in Task :
       \/ Begin(w, t)
       \/ GiveBack(w, t)
       \/ \E v \in Verdicts : Settle(w, t, v)
       \/ Lose(w, t)

Spec == Init /\ [][Next]_custodyVars
=============================================================================
