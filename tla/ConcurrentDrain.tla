--------------------------- MODULE ConcurrentDrain ---------------------------
(***************************************************************************)
(* LocalWorker.drain_concurrent (executor/worker.py): a parent process     *)
(* spawns one child process per task, each of which calls run_once exactly *)
(* once (_run_once_subprocess) and relays the outcome through a queue.     *)
(* Children die at any moment, also between recording a verdict and        *)
(* reporting it; the parent finds out only when the queue stays empty, and *)
(* takes their task back by the child's worker id.                         *)
(*                                                                         *)
(* Worker is the set of ids children may have.  The code numbers them; an  *)
(* id is used again here once nothing anywhere refers to it any more.      *)
(* Each child reports at most once, so the queue is one slot per child;    *)
(* messages may overtake one another, which the pipe would not do.  The    *)
(* free memory of a device is a choice made whenever it is asked for.      *)
(* stop_fn is rejected in this mode; without a GPU the call is drain.      *)
(***************************************************************************)
EXTENDS RunOnce

CONSTANTS
  Device,         \* the GPUs the monitor reports
  NoDevice,
  MaxConcurrent,  \* max(1, max_concurrent), the initial ceiling
  MayInterrupt,   \* may an exception (Ctrl-C, a locked database) hit the parent?
  DeathBound      \* how many children may die

ASSUME PoolAssumption ==
  /\ Device # {} /\ NoDevice \notin Device
  /\ MaxConcurrent \in Nat \ {0}
  /\ MayInterrupt \in BOOLEAN
  /\ DeathBound \in Nat

VARIABLES
  place,      \* where the parent is
  ceiling,    \* how many children it admits
  device,     \* in_flight: the device of each child the parent keeps track of
  unchecked,  \* what is left of the snapshot the reaping loop runs over
  report,     \* the message the parent took out of the queue
  counted,    \* succeeded
  message,    \* result_q: what each child has put and nobody has taken
  deaths,     \* children that died so far
  unlogged,   \* those of them that died between an OOM requeue and its event
  strayed,    \* tasks a child still had when it reported: run_once raised
              \* without recording anything
  orphans     \* children the parent lost track of, whatever they still had

parentVars  == <<place, ceiling, device, unchecked, report, counted>>
historyVars == <<deaths, unlogged, strayed, orphans>>
poolVars    == <<parentVars, message, historyVars>>
vars        == <<onceVars, poolVars>>

NoReport == [child |-> NoWorker, says |-> "none"]

Tidings == {"none", "succeeded", "empty", "oom", "error"}

ParentPlace == {"admit", "wait", "reap", "join", "teardown", "report", "clean", "degraded", "failed"}

InFlight == {w \in Worker : device[w] # NoDevice}

ChildPC == OncePC \cup RefreshPC \cup {"off", "exiting", "gone"}

TypeOK ==
  /\ OnceTypeOK
  /\ pc \in [Proc -> ChildPC]
  /\ after \in [Proc -> {"lease", "prepare", "ok", "raised"}]
  /\ place \in ParentPlace
  /\ ceiling \in 1..MaxConcurrent
  /\ device \in [Worker -> Device \cup {NoDevice}]
  /\ unchecked \subseteq InFlight
  /\ report \in [child : Worker \cup {NoWorker}, says : Tidings]
  /\ counted \in Nat
  /\ message \in [Worker -> Tidings]
  /\ deaths \in 0..DeathBound
  /\ unlogged \in 0..deaths
  /\ strayed \subseteq Task
  /\ orphans \subseteq Worker

Init ==
  /\ OnceInit
  /\ pc = [p \in Proc |-> "off"]
  /\ after = [p \in Proc |-> "lease"]
  /\ place = "admit"
  /\ ceiling = MaxConcurrent
  /\ device = [w \in Worker |-> NoDevice]
  /\ unchecked = {}
  /\ report = NoReport
  /\ counted = 0
  /\ message = [w \in Worker |-> "none"]
  /\ deaths = 0
  /\ unlogged = 0
  /\ strayed = {}
  /\ orphans = {}

Step(from, to) == place = from /\ place' = to

childVars == <<pc, frameVars, callVars, zombies>>

-----------------------------------------------------------------------------
(***************************************************************************)
(* A child.                                                                *)
(***************************************************************************)
(* A slip: whatever run_once returns counts as a success.                   *)
TidingsAnything(w) ==
  IF pc[w] \in {"ok", "empty"} THEN "succeeded"
  ELSE IF pc[w] = "raised" /\ after[w] = "raised" /\ outcome[w] \in {"oom", "oom_spent"}
  THEN "oom" ELSE "error"

(* What _run_once_subprocess makes of the end of run_once: an exception is  *)
(* "oom" if it is the handler's out-of-memory error, re-raised after        *)
(* everything was recorded.                                                 *)
TidingsOf(w) ==
  CASE pc[w] = "ok"    -> "succeeded"
    [] pc[w] = "empty" -> "empty"
    [] OTHER -> IF pc[w] = "raised" /\ after[w] = "raised" /\ outcome[w] \in {"oom", "oom_spent"}
                THEN "oom" ELSE "error"

PutResult(w) ==
  /\ pc[w] \in ReturnPC \cup {"empty"}
  /\ message' = [message EXCEPT ![w] = TidingsOf(w)]
  /\ strayed' = strayed \cup {t \in Task : OwnsTask(w, t)}
  /\ Goto(w, "exiting")
  /\ ReturnFrame(w)
  /\ UNCHANGED <<storeVars, zombies, parentVars, deaths, unlogged, orphans>>

(* The interpreter joins the threads of every ThreadPoolExecutor before it  *)
(* exits, an abandoned handler thread included.                             *)
Exit(w) ==
  /\ pc[w] = "exiting"
  /\ zombies[w] = {}
  /\ Goto(w, "gone")
  /\ UNCHANGED <<storeVars, frameVars, callVars, zombies, poolVars>>

ChildStep(w) ==
  \/ RunOnceStep(w) /\ UNCHANGED poolVars
  \/ PutResult(w)
  \/ Exit(w)

(* The OS kills the process, or it segfaults.                               *)
Die(w) ==
  /\ pc[w] \notin {"off", "gone"}
  /\ deaths < DeathBound
  /\ deaths' = deaths + 1
  /\ unlogged' = IF pc[w] = "close" /\ outcome[w] = "oom" THEN unlogged + 1 ELSE unlogged
  /\ Goto(w, "gone")
  /\ zombies' = [zombies EXCEPT ![w] = {}]
  /\ ReturnFrame(w)
  /\ UNCHANGED <<storeVars, parentVars, message, strayed, orphans>>

-----------------------------------------------------------------------------
(***************************************************************************)
(* The parent.                                                             *)
(***************************************************************************)
SomethingLeaseable == \E t \in Task : Leaseable(t)

Busy(d) == \E w \in Worker : device[w] = d

(* An idle device is preferred and always taken; a busy one only while it   *)
(* has the headroom.                                                        *)
Admissible(d) == ~Busy(d) \/ \A e \in Device : Busy(e)

NobodyRefersTo(w) ==
  /\ pc[w] = "off"
  /\ message[w] = "none"
  /\ \A t \in Task : owner[t] # w

(* child_seq: which unused id is next is not the point.                     *)
NextChild == CHOOSE w \in Worker : NobodyRefersTo(w)

MaySpawn(w, d) ==
  /\ place = "admit"
  /\ Cardinality(InFlight) < ceiling
  /\ SomethingLeaseable
  /\ Admissible(d)
  /\ NobodyRefersTo(w) /\ w = NextChild

Spawn(w, d) ==
  /\ MaySpawn(w, d)
  /\ device' = [device EXCEPT ![w] = d]
  /\ Goto(w, "lease")
  /\ UNCHANGED <<storeVars, frameVars, callVars, zombies, place, ceiling, unchecked,
                 report, counted, message, historyVars>>

(* Admission ends: the ceiling is reached, nothing can be leased, or no     *)
(* busy device has the headroom.                                            *)
StopAdmitting ==
  /\ \/ Cardinality(InFlight) >= ceiling
     \/ ~SomethingLeaseable
     \/ \A d \in Device : Busy(d)
  /\ \/ InFlight # {} /\ Step("admit", "wait")
     \/ InFlight = {} /\ ~SomethingLeaseable /\ Step("admit", "report")
  /\ UNCHANGED <<storeVars, childVars, ceiling, device, unchecked, report, counted,
                 message, historyVars>>

(* A slip: the report of a child that is not in in_flight is dropped.       *)
ReceiveTracked(w) ==
  /\ message[w] # "none"
  /\ place = "wait"
  /\ message' = [message EXCEPT ![w] = "none"]
  /\ device' = [device EXCEPT ![w] = NoDevice]
  /\ IF w \in InFlight
     THEN place' = "join" /\ report' = [child |-> w, says |-> message[w]]
     ELSE UNCHANGED <<place, report>>
  /\ UNCHANGED <<storeVars, childVars, ceiling, unchecked, counted, historyVars>>

(* result_q.get returns; the entry, if the child still has one, is popped.  *)
Receive(w) ==
  /\ message[w] # "none"
  /\ Step("wait", "join")
  /\ message' = [message EXCEPT ![w] = "none"]
  /\ report' = [child |-> w, says |-> message[w]]
  /\ device' = [device EXCEPT ![w] = NoDevice]
  /\ UNCHANGED <<storeVars, childVars, ceiling, unchecked, counted, historyVars>>

(* A slip: nothing stops the ceiling at one.                                *)
LoweredToZero == IF ceiling > 0 THEN ceiling - 1 ELSE 0

Lowered == IF ceiling > 1 THEN ceiling - 1 ELSE 1

(* The parent waits for the process to exit before it heeds the report.     *)
JoinReported ==
  /\ Step("join", "admit")
  /\ pc[report.child] \in {"off", "gone"}
  /\ pc' = [pc EXCEPT ![report.child] = "off"]
  /\ counted' = counted + (IF report.says = "succeeded" THEN 1 ELSE 0)
  /\ ceiling' = IF report.says = "oom" THEN Lowered ELSE ceiling
  /\ report' = NoReport
  /\ UNCHANGED <<storeVars, frameVars, callVars, zombies, device, unchecked, message, historyVars>>

(* get(timeout=0.5) raises Empty; the loop runs over a copy of in_flight.   *)
QueueStaysEmpty ==
  /\ \A w \in Worker : message[w] = "none"
  /\ Step("wait", "reap")
  /\ unchecked' = InFlight
  /\ UNCHANGED <<storeVars, childVars, ceiling, device, report, counted, message, historyVars>>

(* A slip: a child that is about to exit is taken for dead.                 *)
ReapLiving(w) ==
  /\ place = "reap" /\ w \in unchecked
  /\ unchecked' = unchecked \ {w}
  /\ device' = [device EXCEPT ![w] = NoDevice]
  /\ ReclaimDeadWorker(w, MaxOomRetries)
  /\ ceiling' = Lowered
  /\ UNCHANGED <<childVars, place, report, counted, message, historyVars>>

(* A slip: a dead child is only forgotten.                                  *)
ReapWithoutReclaim(w) ==
  /\ place = "reap" /\ w \in unchecked
  /\ unchecked' = unchecked \ {w}
  /\ IF pc[w] = "gone"
     THEN /\ device' = [device EXCEPT ![w] = NoDevice]
          /\ pc' = [pc EXCEPT ![w] = "off"]
          /\ ceiling' = Lowered
     ELSE UNCHANGED <<device, pc, ceiling>>
  /\ UNCHANGED <<storeVars, frameVars, callVars, zombies, place, report, counted,
                 message, historyVars>>

(* A slip: the entry of a dead child stays in in_flight.                    *)
ReapKeepingEntry(w) ==
  /\ place = "reap" /\ w \in unchecked
  /\ unchecked' = unchecked \ {w}
  /\ IF pc[w] = "gone"
     THEN ReclaimDeadWorker(w, MaxOomRetries) /\ ceiling' = Lowered
     ELSE UNCHANGED <<storeVars, ceiling>>
  /\ UNCHANGED <<childVars, device, place, report, counted, message, historyVars>>

(* A child found dead is forgotten and its task taken back, even if its     *)
(* report has arrived since the queue was looked at.                        *)
Reap(w) ==
  /\ place = "reap" /\ w \in unchecked
  /\ unchecked' = unchecked \ {w}
  /\ IF pc[w] = "gone"
     THEN /\ device' = [device EXCEPT ![w] = NoDevice]
          /\ pc' = [pc EXCEPT ![w] = "off"]
          /\ ReclaimDeadWorker(w, MaxOomRetries)
          /\ ceiling' = Lowered
     ELSE UNCHANGED <<storeVars, device, pc, ceiling>>
  /\ UNCHANGED <<frameVars, callVars, zombies, place, report, counted, message, historyVars>>

ReapingEnds ==
  /\ unchecked = {}
  /\ Step("reap", "admit")
  /\ UNCHANGED <<storeVars, childVars, ceiling, device, unchecked, report, counted,
                 message, historyVars>>

(* An exception ends the loop, and the finally clause waits for every child *)
(* that in_flight still holds and takes its task back.                      *)
Interrupted ==
  /\ MayInterrupt
  /\ place \in {"admit", "wait", "reap", "join", "report"}
  /\ place' = "teardown"
  /\ unchecked' = {}
  /\ report' = NoReport
  /\ UNCHANGED <<storeVars, childVars, ceiling, device, counted, message, historyVars>>

(* It strikes between proc.start() and the entry in in_flight ...           *)
InterruptedAtStart(w) ==
  /\ MayInterrupt
  /\ \E d \in Device : MaySpawn(w, d)
  /\ place' = "teardown"
  /\ Goto(w, "lease")
  /\ orphans' = orphans \cup {w}
  /\ UNCHANGED <<storeVars, frameVars, callVars, zombies, ceiling, device, unchecked, report,
                 counted, message, deaths, unlogged, strayed>>

(* ... or between result_q.get and in_flight.pop ...                        *)
InterruptedAtGet(w) ==
  /\ MayInterrupt
  /\ message[w] # "none"
  /\ Step("wait", "teardown")
  /\ message' = [message EXCEPT ![w] = "none"]
  /\ UNCHANGED <<storeVars, childVars, ceiling, device, unchecked, report, counted, historyVars>>

(* ... or between the del of a dead child's entry and the end of            *)
(* reclaim_dead_worker, which may itself raise (a locked database).         *)
InterruptedAtReclaim(w) ==
  /\ MayInterrupt
  /\ Step("reap", "teardown")
  /\ w \in unchecked /\ pc[w] = "gone"
  /\ pc' = [pc EXCEPT ![w] = "off"]
  /\ device' = [device EXCEPT ![w] = NoDevice]
  /\ unchecked' = {}
  /\ orphans' = orphans \cup {w}
  /\ UNCHANGED <<storeVars, frameVars, callVars, zombies, ceiling, report, counted, message,
                 deaths, unlogged, strayed>>

(* The teardown is hit as well, in a join or in reclaim_dead_worker: it     *)
(* does not get to the children that are left.                              *)
TeardownAborted ==
  /\ MayInterrupt
  /\ InFlight # {}
  /\ Step("teardown", "failed")
  /\ device' = [w \in Worker |-> NoDevice]
  /\ orphans' = orphans \cup InFlight
  /\ UNCHANGED <<storeVars, childVars, ceiling, unchecked, report, counted, message, deaths,
                 unlogged, strayed>>

Exception ==
  \/ Interrupted
  \/ \E w \in Worker : InterruptedAtStart(w) \/ InterruptedAtGet(w) \/ InterruptedAtReclaim(w)
  \/ TeardownAborted

TearDown(w) ==
  /\ place = "teardown"
  /\ w \in InFlight
  /\ pc[w] = "gone"
  /\ pc' = [pc EXCEPT ![w] = "off"]
  /\ device' = [device EXCEPT ![w] = NoDevice]
  /\ ReclaimDeadWorker(w, MaxOomRetries)
  /\ UNCHANGED <<frameVars, callVars, zombies, place, ceiling, unchecked, report, counted,
                 message, historyVars>>

TornDown ==
  /\ InFlight = {}
  /\ Step("teardown", "failed")
  /\ UNCHANGED <<storeVars, childVars, ceiling, device, unchecked, report, counted,
                 message, historyVars>>

(* DegradedRunError if any task is FAILED, TIMED_OUT or DEGENERATE.         *)
Conclude ==
  /\ Step("report", IF \E t \in Task : status[t] \in Unsuccessful THEN "degraded" ELSE "clean")
  /\ UNCHANGED <<storeVars, childVars, ceiling, device, unchecked, report, counted,
                 message, historyVars>>

ParentStep ==
  \/ \E w \in Worker, d \in Device : Spawn(w, d)
  \/ StopAdmitting
  \/ \E w \in Worker : Receive(w)
  \/ JoinReported
  \/ QueueStaysEmpty
  \/ \E w \in Worker : Reap(w)
  \/ ReapingEnds
  \/ \E w \in Worker : TearDown(w)
  \/ TornDown
  \/ Conclude

(* The lease of a child that died before marking its task may run out       *)
(* before the parent notices, and another child then takes the task over.   *)
(* A child that lives is taken to mark its task in time: lease_seconds is   *)
(* 300, and only one short transaction lies in between.  SequentialDrain    *)
(* does without that assumption.                                            *)
LeaseExpires(t) ==
  /\ owner[t] # NoWorker => pc[owner[t]] \notin {"bump", "mark"}
  /\ LeaseDeadlinePasses(t)
  /\ UNCHANGED <<childVars, poolVars>>

Next ==
  \/ ParentStep
  \/ Exception
  \/ \E w \in Worker : ChildStep(w) \/ Die(w)
  \/ \E w \in Worker : ZombieReturns(w) /\ UNCHANGED poolVars
  \/ \E t \in Task : LeaseExpires(t)

Spec == Init /\ [][Next]_vars

(* The parent and every live child keep taking steps.  Nothing is assumed   *)
(* of deaths, exceptions and lease deadlines, nor of handler threads that   *)
(* were abandoned: they may hang for ever.                                  *)
FairSpec ==
  /\ Spec
  /\ WF_vars(ParentStep)
  /\ \A w \in Worker : WF_vars(ChildStep(w))

-----------------------------------------------------------------------------
Returned == place \in {"clean", "degraded", "failed"}

(* The parent waits, without a timeout, for a process that an abandoned     *)
(* handler thread keeps from exiting.                                       *)
HeldUp ==
  \E w \in Worker :
    /\ pc[w] = "exiting" /\ zombies[w] # {}
    /\ \/ place = "join" /\ report.child = w
       \/ place = "teardown" /\ w \in InFlight

(* If no more than DeathBound children die, the parent returns ("so the run *)
(* terminates instead of hanging on a lost task", worker.py:660), and the   *)
(* one thing it may hang on instead is a handler thread that timed out and  *)
(* does not end.  Who dies before it leased is replaced each time, so that  *)
(* without a bound on the deaths there is no end to it.                     *)
ParentReturns == <>[](Returned \/ HeldUp)

(* No death, wherever it falls, makes the parent forget a task ("must not   *)
(* silently strand its task in RUNNING", tests/unit/test_resource_aware.py: *)
(* 450): when the drain returns, nothing is LEASED or RUNNING but what      *)
(* run_once itself let go of without recording anything.  An exception in   *)
(* the parent costs it one child at most, the one it had in hand, unless    *)
(* the teardown is hit too; what is left LEASED or RUNNING then belonged to *)
(* a child it lost.                                                         *)
NothingLeftBehind ==
  /\ place = "teardown" => Cardinality(orphans) <= 1
  /\ \A t \in Task : status[t] \in {"LEASED", "RUNNING"} =>
       /\ place \in {"clean", "degraded"} => t \in strayed
       /\ place = "failed" => t \in strayed \/ owner[t] \in orphans

(* Successes that are reported, or about to be, and not counted yet.        *)
SuccessesOnTheirWay ==
  Cardinality({w \in Worker : message[w] = "succeeded"})
    + Cardinality({w \in Worker : pc[w] = "ok" \/ (pc[w] \in RefreshPC /\ after[w] = "ok")})
    + (IF report.says = "succeeded" THEN 1 ELSE 0)

(* No success is counted twice, not even when its child is taken for dead   *)
(* between putting its report and the parent's reading it.                  *)
NoSuccessInvented ==
  counted + SuccessesOnTheirWay <= Cardinality({t \in Task : status[t] = "SUCCEEDED"})

(* A success is missing in the count for two reasons only: its child died,  *)
(* or its report was still unread when the parent took the child for dead.  *)
NoSuccessVanishes ==
  place \in {"clean", "degraded"} =>
    Cardinality({t \in Task : status[t] = "SUCCEEDED"})
      <= counted + Cardinality({w \in Worker : message[w] = "succeeded"}) + deaths

(* "Like drain, returns the count of succeeded tasks" (worker.py:529): when *)
(* no child died and nothing was left unrecorded, the count is exact.       *)
SuccessesCounted ==
  deaths = 0 /\ strayed = {} /\ place = "clean" =>
    counted = Cardinality({t \in Task : status[t] = "SUCCEEDED"})

(* The budgets add up: whatever mixture of errors, OOMs and deaths a task   *)
(* goes through, it is started a bounded number of times ("an unschedulable *)
(* task can never loop forever", worker.py:419).  The OOM budget is counted *)
(* from a log that lags behind the requeues: every other child may have a   *)
(* requeue to log still, and one that dies before it never will.            *)
StartsBounded ==
  \A t \in Task : Cardinality(Logged(t, "task_running"))
                    <= MaxAttempts[t] + 2 * MaxOomRetries + (MaxConcurrent - 1) + unlogged

(* The children implement TaskCustody, with the parent taking back what     *)
(* they lose: a reclaimed task is nobody's at that moment, although nothing *)
(* in the store tells a dead owner from a slow one.                         *)
Custody == INSTANCE TaskCustody
             WITH Recovers <- TRUE,
                  phase  <- [t \in Task |-> PhaseOf(t)],
                  runner <- [t \in Task |-> RunnerOf(t)]

ImplementsCustody == Custody!Spec
=============================================================================
