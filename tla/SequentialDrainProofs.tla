----------------------- MODULE SequentialDrainProofs -----------------------
(***************************************************************************)
(* What holds of SequentialDrain for every set of tasks, workers and       *)
(* observers, every attempt limit and every handler: the types, one thread *)
(* per handler, run statuses that the tasks bear out, and a run row that   *)
(* the next refresh can always deal with.  What a step of run_once does is *)
(* the matter of RunOnceProofs; here are the steps of the drains around    *)
(* it, crashes, observers and leases that run out.                         *)
(***************************************************************************)
EXTENDS SequentialDrain, RunOnceProofs

(* What drain keeps, and which process may be where.                        *)
DrainFrame ==
  /\ succeeded \in [Worker -> SUBSET Task]
  /\ verdict \in [Worker -> {"none", "clean", "degraded"}]
  /\ \A w \in Worker : pc[w] \in DrainPC
  /\ \A o \in Observer : pc[o] \in ObserverPC /\ after[o] = "idle"

TypeInv == OnceInv /\ DrainFrame

-----------------------------------------------------------------------------
(* Whatever step is taken, the store sees one of its operations or nothing. *)
LEMMA StoreEffect ==
  ASSUME TypeInv, [Next]_vars
  PROVE  StoreStep
<1>0. OnceInv /\ RefreshTypeOK
  BY DEF TypeInv, OnceInv, CallFrame
<1>1. ASSUME NEW w \in Worker, RunOnceStep(w)
      PROVE  StoreStep
  BY <1>0, <1>1, OnceStoreEffect
<1>2. ASSUME NEW w \in Worker,
             \/ CountSuccess(w) \/ SwallowError(w) \/ QueueEmpty(w) \/ Report(w)
             \/ Crash(w) \/ ZombieReturns(w)
      PROVE  StoreStep
  BY <1>2
  DEF CountSuccess, SwallowError, QueueEmpty, Report, Crash, ZombieReturns, StoreStep
<1>3. ASSUME NEW o \in Observer, ObserverStep(o)
      PROVE  StoreStep
  BY <1>0, <1>3, RefreshStoreEffect
  DEF ObserverStep, ObserverAsks, RefreshStep, StoreStep, Proc
<1>4. ASSUME NEW t \in Task, LeaseExpires(t)
      PROVE  StoreStep
  BY <1>4 DEF LeaseExpires, StoreStep
<1>5. CASE Requeue
  BY <1>5 DEF Requeue, StoreStep
<1>6. CASE UNCHANGED vars
  BY <1>6 DEF vars, onceVars, StoreStep
<1> QED
  BY <1>1, <1>2, <1>3, <1>4, <1>5, <1>6 DEF Next, DrainStep

-----------------------------------------------------------------------------
(* A refresh leaves every process where its local variables fit.            *)
LEMMA RefreshKeepsDrain ==
  ASSUME TypeInv, NEW p \in Proc, Refresh(p), UNCHANGED <<callVars, zombies, drainVars>>
  PROVE  CallFrame' /\ DrainFrame'
<1>0. /\ OnceInv /\ DrainFrame /\ pc \in [Proc -> Place] /\ pc[p] \in RefreshPC
      /\ after' = after
  BY RefreshGoes DEF TypeInv, OnceInv, CallFrame
<1>1. CallFrame'
  BY <1>0, RefreshKeepsFrames
<1>2. PICK place \in RefreshPC \cup {"r_error", after[p]} : Goto(p, place)
  BY RefreshGoes
<1>3. (p \in Worker => place \in DrainPC) /\ (p \in Observer => place \in ObserverPC)
  BY <1>0 DEF DrainFrame, OnceInv, CallFrame, DrainPC, ObserverPC, OncePC, ReturnPC
<1>4. DrainFrame'
  BY <1>0, <1>2, <1>3 DEF DrainFrame, Goto, Proc, drainVars
<1> QED
  BY <1>1, <1>4

(* A worker that moves within its drain keeps the drain's frame.            *)
LEMMA DrainMove ==
  ASSUME TypeInv, NEW w \in Worker, NEW place \in DrainPC, Goto(w, place),
         \/ UNCHANGED after
         \/ \E a : after' = [after EXCEPT ![w] = a],
         succeeded' \in [Worker -> SUBSET Task],
         verdict' \in [Worker -> {"none", "clean", "degraded"}]
  PROVE  DrainFrame'
<1>1. \A v \in Worker : pc'[v] \in DrainPC
  BY DEF TypeInv, OnceInv, CallFrame, DrainFrame, Goto, Proc
<1>2. \A o \in Observer : pc'[o] = pc[o] /\ after'[o] = after[o]
  BY ObserverAssumption DEF TypeInv, OnceInv, CallFrame, Goto, Proc
<1> QED
  BY <1>1, <1>2 DEF TypeInv, DrainFrame

(* Every step leaves every process where its local variables fit.           *)
LEMMA FramesKept ==
  ASSUME TypeInv, [Next]_vars
  PROVE  CallFrame' /\ DrainFrame'
<1>0. /\ OnceInv /\ CallFrame /\ DrainFrame /\ RefreshTypeOK
      /\ held \in [Worker -> Task \cup {NoTask}] /\ attempt \in [Worker -> Nat]
      /\ outcome \in [Worker -> Outcome] /\ zombies \in [Worker -> SUBSET Task]
      /\ succeeded \in [Worker -> SUBSET Task]
      /\ verdict \in [Worker -> {"none", "clean", "degraded"}]
      /\ Worker \subseteq Proc
  BY DEF TypeInv, OnceInv, CallFrame, DrainFrame, Proc
<1>1. ASSUME NEW w \in Worker, RunOnceStep(w), UNCHANGED drainVars
      PROVE  CallFrame' /\ DrainFrame'
  <2>1. CallFrame'
    BY <1>0, <1>1, OnceKeepsFrames
  <2>2. CASE RefreshStep(w)
    BY <1>0, <1>1, <2>2, RefreshKeepsDrain DEF RefreshStep
  <2>3. CASE ~RefreshStep(w)
    <3>1. PICK place \in OncePC \cup RefreshPC : Goto(w, place)
      BY <1>0, <1>1, OnceGoes
    <3>2. \/ UNCHANGED after
          \/ \E a : after' = [after EXCEPT ![w] = a]
      BY <1>1, <2>3
      DEF RunOnceStep, Lease, LeaseNothing, BumpAttempts, MarkRunning, MarkRefused, Announce,
          CallRefresh, Prepare, HandlerEnds, Execute, ExecuteTimesOut, OomBudget, Record,
          RecordRefused, ArtifactFails, Close, frameVars
    <3>3. place \in DrainPC
      BY DEF DrainPC
    <3> QED
      BY <1>0, <1>1, <2>1, <3>1, <3>2, <3>3, DrainMove DEF drainVars
  <2> QED
    BY <2>2, <2>3
<1>2. ASSUME NEW w \in Worker,
             \/ CountSuccess(w) \/ SwallowError(w) \/ QueueEmpty(w) \/ Report(w)
             \/ Crash(w)
      PROVE  CallFrame' /\ DrainFrame'
  <2>0. pc[w] = "ok" => held[w] \in Task
    BY <1>0 DEF CallFrame, InCall, OncePC, ReturnPC
  <2>1. PICK place \in {"lease", "report", "done", "dead"} : Goto(w, place)
    BY <1>2 DEF CountSuccess, SwallowError, QueueEmpty, Report, Crash
  <2>2. /\ succeeded' \in [Worker -> SUBSET Task]
        /\ verdict' \in [Worker -> {"none", "clean", "degraded"}]
        /\ zombies' \in [Worker -> SUBSET Task]
    BY <1>0, <1>2, <2>0
    DEF CountSuccess, SwallowError, QueueEmpty, Report, Crash, drainVars
  <2>3. \/ ReturnFrame(w)
        \/ UNCHANGED <<frameVars, callVars>>
    BY <1>2 DEF CountSuccess, SwallowError, QueueEmpty, Report, Crash
  <2>4. place \in DrainPC /\ place \notin InCall /\ place # "r_get"
    BY DEF DrainPC, InCall, OncePC, ReturnPC, RefreshPC
  <2>5. CASE ReturnFrame(w)
    BY <1>0, <2>1, <2>2, <2>4, <2>5, ReturnedFrame, WorkerMove, DrainMove DEF OncePC
  <2>6. CASE UNCHANGED <<frameVars, callVars>>
    BY <1>0, <2>1, <2>2, <2>4, <2>6, WorkerMove, DrainMove
    DEF OncePC, frameVars, callVars, RefreshTypeOK
  <2> QED
    BY <2>3, <2>5, <2>6
<1>z. ASSUME NEW w \in Worker, ZombieReturns(w), UNCHANGED drainVars
      PROVE  CallFrame' /\ DrainFrame'
  BY <1>0, <1>z
  DEF ZombieReturns, CallFrame, DrainFrame, RefreshTypeOK, frameVars, callVars, drainVars
<1>3. ASSUME NEW o \in Observer, ObserverStep(o)
      PROVE  CallFrame' /\ DrainFrame'
  <2>1. CASE ObserverAsks(o)
    BY <1>0, <2>1, ObserverAssumption
    DEF ObserverAsks, CallRefresh, Goto, CallFrame, DrainFrame, RefreshTypeOK, RefreshPC,
        ObserverPC, DrainPC, InCall, Place, Proc, callVars, drainVars
  <2>2. CASE RefreshStep(o) /\ UNCHANGED drainVars
    BY <2>2, RefreshKeepsDrain DEF RefreshStep, drainVars, Proc
  <2> QED
    BY <1>3, <2>1, <2>2 DEF ObserverStep
<1>4. ASSUME UNCHANGED <<pc, frameVars, callVars, zombies, drainVars>>
      PROVE  CallFrame' /\ DrainFrame'
  BY <1>0, <1>4 DEF CallFrame, DrainFrame, RefreshTypeOK, frameVars, callVars, drainVars
<1>5. ASSUME \/ \E t \in Task : LeaseExpires(t)
             \/ Requeue
             \/ UNCHANGED vars
      PROVE  CallFrame' /\ DrainFrame'
  BY <1>4, <1>5 DEF LeaseExpires, Requeue, vars, onceVars
<1>6. ASSUME NEW w \in Worker, DrainStep(w)
      PROVE  CallFrame' /\ DrainFrame'
  BY <1>1, <1>2, <1>6 DEF DrainStep
<1> QED
  BY <1>2, <1>z, <1>3, <1>5, <1>6 DEF Next

-----------------------------------------------------------------------------
LEMMA TypeInvInit ==
  ASSUME Init
  PROVE  TypeInv
<1>1. StoreTypeOK /\ \A t \in Task : owner[t] = NoWorker /\ status[t] = "PENDING"
  BY DEF Init, OnceInit, StoreInit, StoreTypeOK, TaskStatus, RunStatus
<1>2. LogFinite
  <2>1. ASSUME NEW t \in Task, NEW kind \in EventKind
        PROVE  Logged(t, kind) = {}
    BY DEF Init, OnceInit, StoreInit, Logged
  <2> QED
    BY <2>1, FS_EmptySet DEF LogFinite
<1>3. CallFrame /\ DrainFrame
  BY ObserverAssumption
  DEF Init, OnceInit, RefreshInit, CallFrame, DrainFrame, RefreshTypeOK, RunStatus, Outcome,
      DrainPC, ObserverPC, OncePC, RefreshPC, InCall, Place, ReturnPC, Proc
<1> QED
  BY <1>1, <1>2, <1>3 DEF TypeInv, OnceInv, StoreInv

LEMMA TypeInvStep ==
  ASSUME TypeInv, [Next]_vars
  PROVE  TypeInv'
BY StoreEffect, StoreKeepsTypes, FramesKept DEF TypeInv, OnceInv

(* The types and the frames are as declared in every state.                 *)
THEOREM FrameCorrect == Spec => []TypeInv
BY TypeInvInit, TypeInvStep, PTL DEF Spec

(* Every variable keeps its type, and an owner is on record exactly while a *)
(* task is LEASED or RUNNING, whichever worker leases, marks, records,      *)
(* crashes or is requeued.                                                  *)
THEOREM TypeCorrect == Spec => []TypeOK
<1>1. ASSUME TypeInv
      PROVE  TypeOK
  <2>1. pc \in [Proc -> DrainPC \cup ObserverPC]
    BY <1>1 DEF TypeInv, OnceInv, CallFrame, DrainFrame, Proc
  <2> QED
    BY <1>1, <2>1 DEF TypeInv, OnceInv, StoreInv, CallFrame, DrainFrame, TypeOK, OnceTypeOK
<1> QED
  BY <1>1, FrameCorrect, PTL

-----------------------------------------------------------------------------
(***************************************************************************)
(* Custody.  CustodyInv is inductive as it stands.                         *)
(***************************************************************************)
LEMMA CustodyStep ==
  ASSUME TypeInv, CustodyInv, [Next]_vars
  PROVE  CustodyInv'
<1>0. OnceInv /\ CallFrame /\ pc \in [Proc -> Place] /\ Worker \subseteq Proc
  BY DEF TypeInv, OnceInv, CallFrame, Proc
<1>1. ASSUME NEW w \in Worker, RunOnceStep(w)
      PROVE  CustodyInv'
  BY <1>0, <1>1, OnceKeepsCustody
<1>2. ASSUME NEW w \in Worker,
             CountSuccess(w) \/ SwallowError(w) \/ QueueEmpty(w) \/ Report(w)
      PROVE  CustodyInv'
  <2>1. PICK place \in {"lease", "report", "done"} : Goto(w, place)
    BY <1>2 DEF CountSuccess, SwallowError, QueueEmpty, Report
  <2>2. UNCHANGED <<status, zombies>> /\ pc[w] # "record"
    BY <1>2 DEF CountSuccess, SwallowError, QueueEmpty, Report, storeVars, leaseVars
  <2>3. ReturnFrame(w) \/ UNCHANGED <<frameVars, callVars>>
    BY <1>2 DEF CountSuccess, SwallowError, QueueEmpty, Report
  <2>4. \A v \in Worker \ {w} : held'[v] = held[v] /\ after'[v] = after[v]
                             /\ outcome'[v] = outcome[v]
    BY <1>0, <2>3 DEF ReturnFrame, frameVars, callVars, CallFrame
  <2> QED
    BY <1>0, <2>1, <2>2, <2>4, MoveIsQuiet, QuietKeepsCustody
<1>3. ASSUME NEW w \in Worker, Crash(w)
      PROVE  CustodyInv'
  BY <1>0, <1>3, QuietKeepsCustody
  DEF Crash, Goto, ReturnFrame, Quiet, Underway, storeVars, leaseVars, RefreshPC,
      CallFrame, Proc
<1>4. ASSUME NEW w \in Worker, ZombieReturns(w)
      PROVE  CustodyInv'
  BY <1>0, <1>4, QuietKeepsCustody
  DEF ZombieReturns, Quiet, Underway, storeVars, leaseVars, frameVars, callVars,
      CallFrame
<1>5. ASSUME NEW o \in Observer, ObserverStep(o)
      PROVE  CustodyInv'
  <2>1. CASE ObserverAsks(o)
    BY <1>0, <2>1, QuietKeepsCustody, ObserverAssumption
    DEF ObserverAsks, CallRefresh, Goto, Quiet, Underway, storeVars, leaseVars, callVars,
        CallFrame, Proc
  <2>2. CASE RefreshStep(o)
    BY <1>0, <2>2, RefreshIsQuiet, QuietKeepsCustody DEF RefreshStep, Proc
  <2> QED
    BY <1>5, <2>1, <2>2 DEF ObserverStep
<1>6. ASSUME NEW t \in Task, LeaseExpires(t)
      PROVE  CustodyInv'
  BY <1>0, <1>6, QuietKeepsCustody
  DEF LeaseExpires, LeaseDeadlinePasses, Quiet, Underway, frameVars, callVars
<1>7. CASE Requeue
  BY <1>0, <1>7, QuietKeepsCustody
  DEF Requeue, RequeueExpiredLeases, LeaseRanOut, Quiet, Underway, frameVars, callVars
<1>8. CASE UNCHANGED vars
  BY <1>0, <1>8, QuietKeepsCustody
  DEF vars, onceVars, storeVars, leaseVars, frameVars, callVars, Quiet, Underway
<1> QED
  BY <1>1, <1>2, <1>3, <1>4, <1>5, <1>6, <1>7, <1>8 DEF Next, DrainStep

LEMMA CustodyInit ==
  ASSUME Init
  PROVE  CustodyInv
BY ObserverAssumption DEF Init, OnceInit, CustodyInv, Underway, RefreshPC, Proc

(* A task underway is RUNNING and has one worker, and an abandoned thread   *)
(* belongs to one worker and to a task that is, or is about to be,          *)
(* TIMED_OUT: although no operation of the store checks the lease owner.    *)
THEOREM CustodyHolds == Spec => []CustodyInv
<1>1. TypeInv /\ CustodyInv /\ [Next]_vars => CustodyInv'
  BY CustodyStep
<1> QED
  BY <1>1, CustodyInit, FrameCorrect, PTL DEF Spec

(* No two threads ever run the handler of the same task.                    *)
THEOREM NoDoubleExecution == Spec => []SingleExecutor
BY CustodyMeansSingle, CustodyHolds, PTL

-----------------------------------------------------------------------------
(***************************************************************************)
(* Outside run_once.                                                       *)
(***************************************************************************)
(* A worker that leaves run_once.                                           *)
Leaves(v) == pc'[v] \in {"lease", "report", "done", "dead"}

(* Outside run_once nothing is said or counted, and the only tasks that     *)
(* change status are leases given up.                                       *)
Aside ==
  /\ KeepsLog /\ attempts' = attempts
  /\ \A t \in Task : status'[t] = status[t] \/ (status[t] = "LEASED" /\ status'[t] = "PENDING")
  /\ \A v \in Worker : Stays(v) \/ Leaves(v)

LEMMA OutsideRunOnce ==
  ASSUME TypeInv, [Next]_vars, \A w \in Worker : ~RunOnceStep(w)
  PROVE  Aside
<1>0. /\ CallFrame /\ DrainFrame /\ pc \in [Proc -> Place] /\ after \in [Proc -> {"lease", "prepare", "ok", "raised", "idle"}]
      /\ Worker \subseteq Proc /\ Observer \cap Worker = {}
  BY ObserverAssumption DEF TypeInv, OnceInv, CallFrame, Proc
<1>1. ASSUME UNCHANGED <<status, attempts, events>>,
             \A v \in Worker : Stays(v) \/ Leaves(v)
      PROVE  Aside
  BY <1>1, LogKept DEF Aside
<1>2. ASSUME NEW w \in Worker,
             \/ CountSuccess(w) \/ SwallowError(w) \/ QueueEmpty(w) \/ Report(w) \/ Crash(w)
      PROVE  Aside
  <2>1. PICK place \in {"lease", "report", "done", "dead"} : Goto(w, place)
    BY <1>2 DEF CountSuccess, SwallowError, QueueEmpty, Report, Crash
  <2>2. ReturnFrame(w) \/ UNCHANGED <<frameVars, callVars>>
    BY <1>2 DEF CountSuccess, SwallowError, QueueEmpty, Report, Crash
  <2>3. \A v \in Worker \ {w} : Stays(v)
    BY <1>0, <2>1, <2>2 DEF ReturnFrame, frameVars, callVars, CallFrame, Goto, Stays
  <2>4. Leaves(w)
    BY <1>0, <2>1 DEF Goto, Leaves
  <2>5. UNCHANGED <<status, attempts, events>>
    BY <1>2 DEF CountSuccess, SwallowError, QueueEmpty, Report, Crash, storeVars
  <2> QED
    BY <1>1, <2>3, <2>4, <2>5
<1>3. ASSUME NEW o \in Observer, ObserverStep(o)
      PROVE  Aside
  <2>1. UNCHANGED <<status, attempts, events, held, attempt, outcome>>
    BY <1>3, RefreshGoes DEF ObserverStep, ObserverAsks, RefreshStep, storeVars, leaseVars,
       callVars, Proc
  <2>2. \E place : Goto(o, place)
    BY <1>3, RefreshGoes DEF ObserverStep, ObserverAsks, CallRefresh, RefreshStep, Proc
  <2>3. UNCHANGED after \/ after' = [after EXCEPT ![o] = "idle"]
    BY <1>3, RefreshGoes DEF ObserverStep, ObserverAsks, CallRefresh, RefreshStep, Proc
  <2>4. \A v \in Worker : Stays(v)
    BY <1>0, <2>1, <2>2, <2>3 DEF Goto, Stays
  <2> QED
    BY <1>1, <2>1, <2>4
<1>4. ASSUME \/ \E w \in Worker : ZombieReturns(w)
             \/ \E t \in Task : LeaseExpires(t)
             \/ UNCHANGED vars
      PROVE  Aside
  BY <1>1, <1>4
  DEF ZombieReturns, LeaseExpires, LeaseDeadlinePasses, vars, onceVars, storeVars, frameVars,
      callVars, Stays
<1>5. CASE Requeue
  <2>1. \A t \in Task : \/ events'[t] = events[t]
                        \/ \E n : events'[t] = events[t] \cup {<<"lease_expired", n>>}
    BY <1>5 DEF Requeue, RequeueExpiredLeases
  <2>2. \A t \in Task : status'[t] = status[t] \/ (status[t] = "LEASED" /\ status'[t] = "PENDING")
    BY <1>5 DEF Requeue, RequeueExpiredLeases, LeaseRanOut
  <2>3. attempts' = attempts /\ \A v \in Worker : Stays(v)
    BY <1>5 DEF Requeue, RequeueExpiredLeases, frameVars, callVars, Stays
  <2> QED
    BY <2>1, <2>2, <2>3, LogKept DEF Aside
<1> QED
  BY <1>2, <1>3, <1>4, <1>5 DEF Next, DrainStep

LEMMA AsideIsCalm ==
  ASSUME Aside
  PROVE  KeepsAttempts /\ KeepsClosing /\ \A v \in Worker : Underway(v)' => Stays(v) /\ Underway(v)
<1>1. SUFFICES ASSUME NEW v \in Worker
               PROVE  /\ Counting(v)' => /\ Counting(v) /\ held'[v] = held[v] /\ attempt'[v] = attempt[v]
                                         /\ Announced(v)' => Announced(v)
                      /\ pc'[v] = "close" => /\ pc[v] = "close" /\ held'[v] = held[v]
                                             /\ attempt'[v] = attempt[v] /\ outcome'[v] = outcome[v]
                      /\ Underway(v)' => Stays(v) /\ Underway(v)
  BY DEF KeepsAttempts, KeepsClosing
<1>2. CASE Stays(v)
  BY <1>2 DEF Stays, Counting, Announced, Underway
<1>3. CASE Leaves(v)
  BY <1>3 DEF Leaves, Counting, Announced, Underway, RefreshPC
<1> QED
  BY <1>2, <1>3 DEF Aside

-----------------------------------------------------------------------------
(***************************************************************************)
(* The run's status.                                                       *)
(***************************************************************************)
LEMMA StatusStep ==
  ASSUME TypeInv, StatusInv, [Next]_vars
  PROVE  StatusInv'
<1>0. OnceInv /\ StoreInv /\ VerdictsStand /\ pc \in [Proc -> Place]
  BY StoreEffect, StoreKeepsVerdicts DEF TypeInv, OnceInv, CallFrame
<1> USE <1>0 DEF storeVars, runVars, leaseVars, frameVars, TargetPC
<1>1. ASSUME NEW w \in Worker, RunOnceStep(w)
      PROVE  StatusInv'
  BY <1>1, OnceKeepsStatus
<1>2. ASSUME NEW w \in Worker,
             \/ CountSuccess(w) \/ SwallowError(w) \/ QueueEmpty(w) \/ Report(w)
             \/ Crash(w)
      PROVE  StatusInv'
  <2>1. /\ UNCHANGED runVars
        /\ \A p \in Proc : p # w => target'[p] = target[p]
    BY <1>2
    DEF CountSuccess, SwallowError, QueueEmpty, Report, Crash, ReturnFrame, TypeInv,
        OnceInv, CallFrame, RefreshTypeOK
  <2>2. \E place : Goto(w, place) /\ place \notin TargetPC \cup {"r_finish"}
    BY <1>2 DEF CountSuccess, SwallowError, QueueEmpty, Report, Crash
  <2> QED
    BY <2>1, <2>2, ElsewhereKeepsStatus DEF Goto
<1>3. ASSUME NEW p \in Proc, RefreshStep(p)
      PROVE  StatusInv'
  BY <1>3, RefreshKeepsStatus DEF RefreshStep
<1>4. ASSUME NEW o \in Observer, ObserverAsks(o)
      PROVE  StatusInv'
  BY <1>4, ElsewhereKeepsStatus DEF ObserverAsks, CallRefresh, Goto
<1>5. ASSUME UNCHANGED <<runVars, pc, target>>
      PROVE  StatusInv'
  BY <1>5, ElsewhereKeepsStatus
<1>6. ASSUME \/ \E w \in Worker : ZombieReturns(w)
             \/ \E t \in Task : LeaseExpires(t)
             \/ Requeue
             \/ UNCHANGED vars
      PROVE  StatusInv'
  BY <1>5, <1>6
  DEF ZombieReturns, LeaseExpires, LeaseDeadlinePasses, Requeue, RequeueExpiredLeases, vars,
      onceVars
<1> QED
  BY <1>1, <1>2, <1>3, <1>4, <1>6 DEF Next, DrainStep, ObserverStep, Proc

LEMMA StatusInit ==
  ASSUME Init
  PROVE  StatusInv
BY DEF Init, OnceInit, StoreInit, StatusInv, RunStatusJustified, Justifies, TargetPC, Proc

(* What a refresh derived stays true until it is written.                   *)
THEOREM StatusHolds == Spec => []StatusInv
<1>1. TypeInv /\ StatusInv /\ [Next]_vars => StatusInv'
  BY StatusStep
<1> QED
  BY <1>1, StatusInit, FrameCorrect, PTL DEF Spec

(* However stale the refresh that wrote it, a final run status is never     *)
(* premature: COMPLETED, FAILED and PARTIAL_FAILED are borne out by the     *)
(* tasks, and finished_at is only stamped once every task is settled.       *)
THEOREM RunStatusIsJustified == Spec => []RunStatusJustified
<1>1. StatusInv => RunStatusJustified
  BY DEF StatusInv
<1> QED
  BY <1>1, StatusHolds, PTL

-----------------------------------------------------------------------------
(***************************************************************************)
(* The drains implement TaskCustody, under the mapping of SequentialDrain. *)
(***************************************************************************)
LEMMA StepIsAMove ==
  ASSUME TypeInv, CustodyInv, [Next]_vars
  PROVE  CustodyMove
<1>0. /\ OnceInv /\ CustodyInv' /\ pc \in [Proc -> Place] /\ Worker \subseteq Proc
      /\ Observer \cap Worker = {}
  BY CustodyStep, ObserverAssumption DEF TypeInv, OnceInv, CallFrame, Proc
<1>1. ASSUME NEW w \in Worker, RunOnceStep(w)
      PROVE  CustodyMove
  BY <1>0, <1>1, OnceIsAMove
<1>2. ASSUME NEW w \in Worker,
             \/ CountSuccess(w) \/ SwallowError(w) \/ QueueEmpty(w) \/ Report(w)
             \/ Crash(w)
      PROVE  CustodyMove
  <2>1. PICK place \in {"lease", "report", "done", "dead"} : Goto(w, place)
    BY <1>2 DEF CountSuccess, SwallowError, QueueEmpty, Report, Crash
  <2>2. ReturnFrame(w) \/ UNCHANGED <<frameVars, callVars>>
    BY <1>2 DEF CountSuccess, SwallowError, QueueEmpty, Report, Crash
  <2>3. \A v \in Worker \ {w} : held'[v] = held[v] /\ after'[v] = after[v]
    BY <1>0, <2>2 DEF ReturnFrame, frameVars, callVars, OnceInv, CallFrame
  <2>4. \A t \in Task : ~Runs(w, t)'
    BY <1>0, <2>1 DEF Runs, Underway, Goto, RefreshPC
  <2>5. \A t \in Task : PhaseOf(t)' = PhaseOf(t)
    BY <1>2
    DEF CountSuccess, SwallowError, QueueEmpty, Report, Crash, storeVars, leaseVars, PhaseOf
  <2> QED
    BY <1>0, <2>1, <2>3, <2>4, <2>5, MovingAlone, StoppingIsAMove
<1>3. ASSUME \A t \in Task : PhaseOf(t)' = PhaseOf(t),
             \A v \in Worker : pc'[v] = pc[v] /\ held'[v] = held[v] /\ after'[v] = after[v]
      PROVE  CustodyMove
  <2>1. \A t \in Task : \A v \in Worker : Runs(v, t)' <=> Runs(v, t)
    BY <1>3 DEF Runs, Underway
  <2> QED
    BY <1>0, <1>3, <2>1, GoingOnIsAMove
<1>4. ASSUME NEW o \in Observer, ObserverStep(o)
      PROVE  CustodyMove
  <2>1. UNCHANGED <<status, held>>
    BY <1>4, RefreshGoes DEF ObserverStep, ObserverAsks, RefreshStep, storeVars, leaseVars,
       callVars, Proc
  <2>2. \E place : Goto(o, place)
    BY <1>4, RefreshGoes DEF ObserverStep, ObserverAsks, CallRefresh, RefreshStep, Proc
  <2>3. UNCHANGED after \/ after' = [after EXCEPT ![o] = "idle"]
    BY <1>4, RefreshGoes DEF ObserverStep, ObserverAsks, CallRefresh, RefreshStep, Proc
  <2>4. \A v \in Worker : pc'[v] = pc[v] /\ after'[v] = after[v]
    BY <1>0, <2>2, <2>3 DEF Goto, OnceInv, CallFrame
  <2> QED
    BY <1>3, <2>1, <2>4 DEF PhaseOf
<1>5. ASSUME \/ \E w \in Worker : ZombieReturns(w)
             \/ \E t \in Task : LeaseExpires(t)
             \/ UNCHANGED vars
      PROVE  CustodyMove
  BY <1>3, <1>5
  DEF ZombieReturns, LeaseExpires, LeaseDeadlinePasses, vars, onceVars, storeVars, frameVars,
      callVars, PhaseOf
<1>6. CASE Requeue
  BY <1>3, <1>6
  DEF Requeue, RequeueExpiredLeases, LeaseRanOut, frameVars, callVars, PhaseOf
<1> QED
  BY <1>1, <1>2, <1>4, <1>5, <1>6 DEF Next, DrainStep

LEMMA MoveIsAllowed == CustodyMove => [Custody!Next]_Custody!custodyVars
<1>1. ASSUME NEW w \in Worker, NEW t \in Task, Begins(w, t)
      PROVE  Custody!Next
  BY <1>1 DEF Begins, Phases, Runners, Custody!Next, Custody!Begin
<1>2. ASSUME NEW w \in Worker, NEW t \in Task, Parts(w, t, "open")
      PROVE  Custody!Next
  BY <1>2 DEF Parts, Phases, Runners, Custody!Next, Custody!GiveBack
<1>3. ASSUME NEW w \in Worker, NEW t \in Task,
             NEW p \in {"SUCCEEDED", "FAILED", "TIMED_OUT", "DEGENERATE"}, Parts(w, t, p)
      PROVE  Custody!Next
  BY <1>3 DEF Parts, Phases, Runners, Custody!Next, Custody!Settle, Custody!Verdicts
<1>4. ASSUME NEW w \in Worker, NEW t \in Task, Loses(w, t)
      PROVE  Custody!Next
  BY <1>4 DEF Loses, Phases, Runners, Custody!Next, Custody!Lose
<1> QED
  BY <1>1, <1>2, <1>3, <1>4 DEF CustodyMove, Phases, Runners, Custody!custodyVars

LEMMA CustodyBegins ==
  ASSUME Init
  PROVE  Custody!Init
<1>1. \A t \in Task : PhaseOf(t) = "open"
  BY DEF Init, OnceInit, StoreInit, PhaseOf
<1>2. \A w \in Worker : ~Underway(w)
  BY DEF Init, Underway, RefreshPC, Proc
<1>3. \A t \in Task : RunnerOf(t) = NoWorker
  BY <1>2 DEF RunnerOf
<1> QED
  BY <1>1, <1>3 DEF Custody!Init

(* Every behaviour of the drains is one of TaskCustody: only the worker     *)
(* that marked a task gives it back or settles it, and one whose worker is  *)
(* lost is never begun again.                                               *)
THEOREM DrainsImplementCustody == Spec => ImplementsCustody
<1>1. TypeInv /\ CustodyInv /\ [Next]_vars => [Custody!Next]_Custody!custodyVars
  BY StepIsAMove, MoveIsAllowed
<1> QED
  BY <1>1, CustodyBegins, CustodyHolds, FrameCorrect, PTL
  DEF Spec, ImplementsCustody, Custody!Spec

-----------------------------------------------------------------------------
(***************************************************************************)
(* The run row.                                                            *)
(***************************************************************************)
(* What a step does to the tasks: a verdict comes from Record only, and     *)
(* attempts are never uncounted.                                            *)
LEMMA TasksMove ==
  ASSUME TypeInv, [Next]_vars, NEW t \in Task
  PROVE  /\ attempts[t] > 0 => attempts'[t] > 0
         /\ \/ status'[t] \in {status[t], "LEASED", "RUNNING"}
            \/ BulkRequeue /\ status'[t] = "PENDING"
            \/ \E w \in Worker : Record(w) /\ held[w] = t /\ status'[t] = Verdict(w)
<1>0. status \in [Task -> TaskStatus] /\ attempts \in [Task -> Nat]
  BY DEF TypeInv, OnceInv, StoreInv, StoreTypeOK
<1>1. CASE \A w \in Worker : ~RunOnceStep(w)
  <2>1. attempts' = attempts
    BY <1>1, OutsideRunOnce DEF Aside
  <2>2. status' = status \/ Requeue
    BY <1>1, RefreshGoes
    DEF Next, DrainStep, CountSuccess, SwallowError, QueueEmpty, Report, Crash, ZombieReturns,
        ObserverStep, ObserverAsks, RefreshStep, LeaseExpires, LeaseDeadlinePasses, vars,
        onceVars, storeVars, leaseVars, Proc
  <2>3. Requeue => status'[t] = status[t] \/ (BulkRequeue /\ status'[t] = "PENDING")
    BY DEF Requeue, RequeueExpiredLeases
  <2> QED
    BY <2>1, <2>2, <2>3
<1>2. ASSUME NEW w \in Worker, RunOnceStep(w)
      PROVE  /\ attempts[t] > 0 => attempts'[t] > 0
             /\ \/ status'[t] \in {status[t], "LEASED", "RUNNING"}
                \/ Record(w) /\ held[w] = t /\ status'[t] = Verdict(w)
  BY <1>2, OnceMovesTasks DEF TypeInv
<1> QED
  BY <1>1, <1>2

(* Nobody but a refresh touches the run row.                                *)
LEMMA OnlyRefreshWrites ==
  ASSUME [Next]_vars, \A p \in Proc : ~Refresh(p)
  PROVE  runStatus' = runStatus
BY DEF Next, DrainStep, RunOnceStep, RefreshStep, Lease, LeaseNextPendingTask, LeaseNothing,
      BumpAttempts, IncrementTaskAttempts, MarkRunning, MarkTaskRunning, MarkRefused, Announce,
      AppendEvent, Prepare, HandlerEnds, Execute, ExecuteTimesOut, OomBudget, Record,
      UpdateTaskStatus, RecordRefused, ArtifactFails, Close, CountSuccess, SwallowError,
      QueueEmpty, Report, Crash, ZombieReturns, ObserverStep, ObserverAsks, LeaseExpires,
      LeaseDeadlinePasses, Requeue, RequeueExpiredLeases, vars, onceVars, storeVars, runVars,
      Proc

(* Nobody writes VALIDATED.                                                 *)
LEMMA RowLeavesValidated ==
  ASSUME TypeInv, RowInv, [Next]_vars
  PROVE  RowMoves
BY OnlyRefreshWrites, RefreshMovesRow DEF TypeInv, RowInv, RowMoves

LEMMA OneProcessMoves ==
  ASSUME TypeInv, [Next]_vars, NEW p \in Proc
  PROVE  Refresh(p) \/ Idles(p) \/ Outside(p)
<1>0. /\ pc \in [Proc -> Place] /\ Worker \subseteq Proc /\ Observer \subseteq Proc
      /\ after \in [Proc -> {"lease", "prepare", "ok", "raised", "idle"}]
      /\ seen \in [Proc -> RunStatus] /\ target \in [Proc -> RunStatus]
  BY DEF TypeInv, OnceInv, CallFrame, RefreshTypeOK, Proc
<1>1. ASSUME NEW q \in Proc, Refresh(q)
      PROVE  Refresh(p) \/ Idles(p)
  BY <1>1, OthersIdle DEF TypeInv
<1>2. ASSUME NEW w \in Worker, RunOnceStep(w)
      PROVE  Refresh(p) \/ Idles(p) \/ Outside(p)
  BY <1>2, OnceMovesOne DEF TypeInv
<1>3. ASSUME NEW w \in Worker,
             \/ CountSuccess(w) \/ SwallowError(w) \/ QueueEmpty(w) \/ Report(w) \/ Crash(w)
      PROVE  Idles(p) \/ Outside(p)
  <2>1. PICK place \in {"lease", "report", "done", "dead"} : Goto(w, place)
    BY <1>3 DEF CountSuccess, SwallowError, QueueEmpty, Report, Crash
  <2>2. ReturnFrame(w) \/ UNCHANGED frameVars
    BY <1>3 DEF CountSuccess, SwallowError, QueueEmpty, Report, Crash
  <2> QED
    BY <1>0, <2>1, <2>2 DEF Goto, ReturnFrame, frameVars, Idles, Outside, RefreshPC
<1>4. ASSUME NEW o \in Observer, ObserverAsks(o)
      PROVE  Idles(p) \/ Outside(p)
  BY <1>0, <1>4 DEF ObserverAsks, CallRefresh, Goto, Idles, Outside
<1>5. ASSUME \/ \E w \in Worker : ZombieReturns(w)
             \/ \E t \in Task : LeaseExpires(t)
             \/ Requeue
             \/ UNCHANGED vars
      PROVE  Idles(p)
  BY <1>5 DEF ZombieReturns, LeaseExpires, Requeue, vars, onceVars, frameVars, Idles
<1> QED
  BY <1>0, <1>1, <1>2, <1>3, <1>4, <1>5 DEF Next, DrainStep, RefreshStep, ObserverStep

LEMMA RowStep ==
  ASSUME TypeInv, StatusInv, RowInv, [Next]_vars
  PROVE  RowInv'
<1>1. NoneCancelled'
  <2>1. ASSUME NEW t \in Task
        PROVE  status'[t] # "CANCELLED"
    <3>1. \A w \in Worker : Verdict(w) # "CANCELLED"
      BY DEF Verdict
    <3> QED
      BY <3>1, TasksMove DEF RowInv, NoneCancelled
  <2> QED
    BY <2>1 DEF NoneCancelled
<1>2. RowMoves /\ AttemptsStay /\ VerdictsStand
  BY RowLeavesValidated, TasksMove, StoreEffect, StoreKeepsVerdicts
  DEF TypeInv, OnceInv, AttemptsStay
<1>3. ASSUME NEW v \in Worker
      PROVE  OnceOrAway(v)
  <2>1. ASSUME NEW w \in Worker, RunOnceStep(w), w # v
        PROVE  Stays(v)
    BY <2>1, OthersStay DEF TypeInv
  <2>2. ASSUME \A w \in Worker : ~RunOnceStep(w)
        PROVE  Stays(v) \/ pc'[v] \notin InCall
    BY <2>2, OutsideRunOnce DEF Aside, Leaves, InCall, OncePC, ReturnPC, RefreshPC
  <2> QED
    BY <2>1, <2>2 DEF OnceOrAway
<1> QED
  BY <1>1, <1>2, <1>3, OneProcessMoves, RowKept DEF TypeInv

LEMMA RowInit ==
  ASSUME Init
  PROVE  RowInv
<1>1. NoneCancelled /\ runStatus \in Reached
  BY DEF Init, OnceInit, StoreInit, NoneCancelled, Reached
<1>2. \A p \in Proc : pc[p] \in {"lease", "idle"}
  BY DEF Init
<1>3. \A p \in Proc : RowOf(p)
  BY <1>2 DEF RowOf, TargetPC
<1>4. \A w \in Worker : WorkerRow(w)
  BY <1>2 DEF WorkerRow, Seasoned, InCall, OncePC, ReturnPC, RefreshPC, Proc
<1> QED
  BY <1>1, <1>3, <1>4 DEF RowInv

(* The run row never goes back to VALIDATED, and a worker's refresh is      *)
(* refused, if at all, while it announces an attempt: for any workers,      *)
(* observers, crashes and requeues.                                         *)
THEOREM RowHolds == Spec => []RowInv
<1>1. TypeInv /\ StatusInv /\ RowInv /\ [Next]_vars => RowInv'
  BY RowStep
<1> QED
  BY <1>1, RowInit, StatusHolds, FrameCorrect, PTL DEF Spec

(* Without requeue_expired_leases a task once taken shows for ever: only a  *)
(* bulk requeue puts a task back to PENDING that nobody has tried.          *)
StartedInv ==
  /\ runStatus # "VALIDATED" => SomeTaken
  /\ \A p \in Proc : pc[p] \in TargetPC => SomeTaken

LEMMA StartedStays ==
  ASSUME TypeInv, RowInv, [Next]_vars, ~BulkRequeue, SomeTaken
  PROVE  SomeTaken'
<1>1. PICK t \in Task : status[t] # "PENDING" \/ attempts[t] > 0
  BY DEF SomeTaken
<1>2. CASE attempts[t] > 0
  BY <1>2, TasksMove DEF SomeTaken
<1>3. CASE status[t] # "PENDING" /\ status'[t] = "PENDING"
  <2>1. PICK w \in Worker : Record(w) /\ held[w] = t
    BY <1>3, TasksMove
  <2>2. attempts[t] > 0
    BY <2>1 DEF Record, RowInv, WorkerRow, InCall, OncePC
  <2> QED
    BY <1>2, <2>2
<1>4. CASE status'[t] # "PENDING"
  BY <1>4 DEF SomeTaken
<1> QED
  BY <1>1, <1>2, <1>3, <1>4

LEMMA StartedStep ==
  ASSUME TypeInv, RowInv, StartedInv, [Next]_vars, ~BulkRequeue
  PROVE  StartedInv'
<1>1. CASE SomeTaken
  BY <1>1, StartedStays DEF StartedInv
<1>2. CASE ~SomeTaken
  <2>1. runStatus = "VALIDATED" /\ \A p \in Proc : pc[p] \notin TargetPC
    BY <1>2 DEF StartedInv
  <2>2. RunTarget(Task, status, attempts) = "VALIDATED"
    BY <1>2 DEF SomeTaken, RunTarget, Unsuccessful
  <2>3. ASSUME NEW p \in Proc, Refresh(p)
        PROVE  runStatus' = runStatus /\ pc'[p] \notin TargetPC
    <3>0. pc \in [Proc -> Place] /\ after[p] \in {"lease", "prepare", "ok", "raised", "idle"}
      BY DEF TypeInv, OnceInv, CallFrame
    <3>1. pc[p] = "r_list" => seen[p] = "VALIDATED"
      BY <2>1 DEF RowInv, RowOf
    <3>2. CASE RefreshListTasks(p)
      BY <2>2, <3>0, <3>1, <3>2
      DEF RefreshListTasks, ReturnFromRefresh, Goto, storeVars, TargetPC
    <3>3. CASE ~RefreshListTasks(p)
      BY <2>1, <2>3, <3>0, <3>3
      DEF Refresh, RefreshGetRun, RefreshHop, RefreshReread, RefreshWrite, RefreshFinish,
          UpdateRunFinishedAt, ReturnFromRefresh, Goto, storeVars, TargetPC
    <3> QED
      BY <3>2, <3>3
  <2>4. \A p \in Proc : pc'[p] \notin TargetPC
    BY <2>1, <2>3, OneProcessMoves DEF Idles, Outside, TargetPC, RefreshPC
  <2>5. runStatus' = runStatus
    BY <2>3, OnlyRefreshWrites
  <2> QED
    BY <2>1, <2>4, <2>5 DEF StartedInv
<1> QED
  BY <1>1, <1>2

(* Unless leases are requeued in bulk, the next refresh of whatever process *)
(* could read the run and its tasks and write what they call for: however   *)
(* stale the earlier writes, whoever crashed, whatever went unrecorded.     *)
THEOREM RefreshNeverStuck == ~BulkRequeue => (Spec => []AlwaysRefreshable)
<1> SUFFICES ASSUME ~BulkRequeue
             PROVE  Spec => []AlwaysRefreshable
  OBVIOUS
<1>1. Init => StartedInv
  BY DEF Init, OnceInit, StoreInit, StartedInv, TargetPC
<1>2. TypeInv /\ RowInv /\ StartedInv /\ [Next]_vars => StartedInv'
  BY StartedStep
<1>3. TypeInv /\ StatusInv /\ RowInv /\ StartedInv => AlwaysRefreshable
  <2>1. SUFFICES ASSUME TypeInv, StatusInv, RowInv, StartedInv
                 PROVE  AlwaysRefreshable
    OBVIOUS
  <2>2. Routable(runStatus, RunTarget(Task, status, attempts))
    BY <2>1, BorneOutIsRoutable
    DEF TypeInv, OnceInv, StoreInv, StatusInv, RunStatusJustified, RowInv, StartedInv
  <2> QED
    BY <2>2 DEF AlwaysRefreshable, Routable
<1> QED
  BY <1>1, <1>2, <1>3, RowHolds, StatusHolds, FrameCorrect, PTL DEF Spec

-----------------------------------------------------------------------------
(***************************************************************************)
(* One worker at a time.  Whatever step is taken, a worker acts or nothing *)
(* of its own changes.                                                     *)
(***************************************************************************)
Rests(v) ==
  Stays(v) /\ Idles(v) /\ succeeded'[v] = succeeded[v] /\ verdict'[v] = verdict[v]

LEMMA WorkerActs ==
  ASSUME TypeInv, [Next]_vars, NEW v \in Worker
  PROVE  DrainStep(v) \/ Crash(v) \/ Rests(v)
<1>0. /\ CallFrame /\ DrainFrame /\ pc \in [Proc -> Place] /\ Worker \subseteq Proc
      /\ Observer \subseteq Proc /\ v \in Proc /\ Observer \cap Worker = {}
      /\ after \in [Proc -> {"lease", "prepare", "ok", "raised", "idle"}]
      /\ seen \in [Proc -> RunStatus] /\ target \in [Proc -> RunStatus]
      /\ succeeded \in [Worker -> SUBSET Task]
  BY ObserverAssumption DEF TypeInv, OnceInv, CallFrame, RefreshTypeOK, DrainFrame, Proc
<1>1. ASSUME NEW w \in Worker, w # v, RunOnceStep(w), UNCHANGED drainVars
      PROVE  Rests(v)
  <2>1. Stays(v)
    BY <1>1, OthersStay DEF TypeInv
  <2>2. CASE RefreshStep(w)
    BY <1>0, <1>1, <2>1, <2>2
    DEF RefreshStep, Refresh, RefreshGetRun, ReadRun, RefreshListTasks, RefreshHop,
        RefreshReread, RefreshWrite, RefreshFinish, ReturnFromRefresh, Goto, frameVars,
        drainVars, Stays, Idles, Rests
  <2>3. CASE ~RefreshStep(w)
    <3>1. UNCHANGED <<seen, target>>
      BY <1>1, <2>3
      DEF RunOnceStep, Lease, LeaseNothing, BumpAttempts, MarkRunning, MarkRefused, Announce,
          CallRefresh, Prepare, HandlerEnds, Execute, ExecuteTimesOut, OomBudget, Record,
          RecordRefused, ArtifactFails, Close, frameVars
    <3> QED
      BY <1>1, <2>1, <3>1 DEF drainVars, Stays, Idles, Rests
  <2> QED
    BY <2>2, <2>3
<1>2. ASSUME NEW w \in Worker, w # v,
             \/ CountSuccess(w) \/ SwallowError(w) \/ QueueEmpty(w) \/ Report(w) \/ Crash(w)
      PROVE  Rests(v)
  <2>1. PICK place \in {"lease", "report", "done", "dead"} : Goto(w, place)
    BY <1>2 DEF CountSuccess, SwallowError, QueueEmpty, Report, Crash
  <2>2. ReturnFrame(w) \/ UNCHANGED <<frameVars, callVars>>
    BY <1>2 DEF CountSuccess, SwallowError, QueueEmpty, Report, Crash
  <2>3. Stays(v) /\ Idles(v)
    BY <1>0, <1>2, <2>1, <2>2
    DEF ReturnFrame, frameVars, callVars, CallFrame, Goto, Stays, Idles
  <2>4. succeeded'[v] = succeeded[v] /\ verdict'[v] = verdict[v]
    BY <1>0, <1>2
    DEF CountSuccess, SwallowError, QueueEmpty, Report, Crash, drainVars, DrainFrame
  <2> QED
    BY <2>3, <2>4 DEF Rests
<1>3. ASSUME NEW o \in Observer, ObserverStep(o)
      PROVE  Rests(v)
  <2>0. o # v /\ UNCHANGED drainVars /\ UNCHANGED callVars
    BY <1>0, <1>3 DEF ObserverStep, ObserverAsks, RefreshStep
  <2>1. CASE ObserverAsks(o)
    BY <1>0, <2>0, <2>1
    DEF ObserverAsks, CallRefresh, Goto, drainVars, callVars, Stays, Idles, Rests
  <2>2. CASE Refresh(o)
    BY <1>0, <2>0, <2>2
    DEF Refresh, RefreshGetRun, ReadRun, RefreshListTasks, RefreshHop, RefreshReread,
        RefreshWrite, RefreshFinish, ReturnFromRefresh, Goto, frameVars, callVars, drainVars,
        Stays, Idles, Rests
  <2> QED
    BY <1>3, <2>1, <2>2 DEF ObserverStep, RefreshStep
<1>4. ASSUME \/ \E w \in Worker : ZombieReturns(w) /\ UNCHANGED drainVars
             \/ \E t \in Task : LeaseExpires(t)
             \/ Requeue
             \/ UNCHANGED vars
      PROVE  Rests(v)
  BY <1>4
  DEF ZombieReturns, LeaseExpires, Requeue, vars, onceVars, frameVars, callVars, drainVars,
      Stays, Idles, Rests
<1>5. ASSUME NEW w \in Worker, DrainStep(w) \/ Crash(w)
      PROVE  DrainStep(v) \/ Crash(v) \/ Rests(v)
  BY <1>1, <1>2, <1>5 DEF DrainStep
<1> QED
  BY <1>3, <1>4, <1>5 DEF Next
=============================================================================
