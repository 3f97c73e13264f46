----------------------- MODULE ConcurrentDrainProofs -----------------------
(***************************************************************************)
(* What holds of ConcurrentDrain for every set of tasks, children and      *)
(* devices, every ceiling, budget and handler: the types, one thread per   *)
(* handler although tasks are taken back from the dead, run statuses that  *)
(* the tasks bear out, and that no task is left behind.  What a step of    *)
(* run_once does is the matter of RunOnceProofs.                           *)
(***************************************************************************)
EXTENDS ConcurrentDrain, RunOnceProofs

(* The types of the parent and of what it shares with its children.  The    *)
(* snapshot of the reaping loop is empty outside the loop.                  *)
PoolTypes ==
  /\ \A p \in Proc : pc[p] \in ChildPC /\ after[p] # "idle"
  /\ place \in ParentPlace
  /\ ceiling \in 1..MaxConcurrent
  /\ device \in [Worker -> Device \cup {NoDevice}]
  /\ unchecked \subseteq InFlight
  /\ place # "reap" => unchecked = {}
  /\ report \in [child : Worker \cup {NoWorker}, says : Tidings]
  /\ place = "join" => report.child \in Worker
  /\ counted \in Nat
  /\ message \in [Worker -> Tidings]
  /\ deaths \in 0..DeathBound
  /\ unlogged \in 0..deaths
  /\ strayed \subseteq Task
  /\ orphans \subseteq Worker

TypeInv == OnceInv /\ PoolTypes

(* A child that has leased a task is its owner until it lets go of it: the  *)
(* lease of a live child does not run out, and a reclaim is for the dead.   *)
OwnedInv ==
  /\ \A w \in Worker : pc[w] \in {"bump", "mark"} =>
       status[held[w]] = "LEASED" /\ owner[held[w]] = w /\ ~expired[held[w]]
  /\ \A w \in Worker : Underway(w) => owner[held[w]] = w

(* The places of a child whose process is not running run_once.             *)
Out == {"off", "exiting", "gone"}

(* The parent keeps track of every child that may still own a task, but for *)
(* those it lost to an exception: one that has reported and left owns       *)
(* nothing but what strayed.  Exceptions that lose a child end the loop, so *)
(* that one is lost at most before the teardown ends.                       *)
TrackInv ==
  /\ \A w \in Worker : pc[w] \notin Out => w \in InFlight \cup orphans /\ message[w] = "none"
  /\ \A w \in Worker, t \in Task : owner[t] = w =>
       \/ t \in strayed \/ w \in orphans
       \/ w \in InFlight /\ pc[w] \notin {"off", "exiting"} /\ message[w] = "none"
  /\ \A t, u \in Task : owner[t] \in Worker /\ owner[t] = owner[u] => t = u
  /\ \A w \in Worker : pc[w] = "lease" => \A t \in Task : owner[t] # w
  /\ place = "join" => pc[report.child] \in Out /\ report.child \notin InFlight
  /\ place \in {"report", "clean", "degraded", "failed"} => InFlight = {}
  /\ place \notin {"teardown", "failed"} => orphans = {}
  /\ place = "teardown" => orphans = {} \/ \E w \in Worker : orphans = {w}

-----------------------------------------------------------------------------
(***************************************************************************)
(* A step, by what it changes.                                             *)
(***************************************************************************)
(* The parent's steps that touch neither the store nor a process.           *)
ParentAlone ==
  /\ \/ StopAdmitting \/ QueueStaysEmpty \/ ReapingEnds \/ Interrupted \/ TornDown \/ Conclude
     \/ TeardownAborted
     \/ \E w \in Worker : Receive(w) \/ InterruptedAtGet(w) \/ (Reap(w) /\ pc[w] # "gone")
  /\ UNCHANGED <<onceVars, deaths, unlogged, strayed>>

(* A dead child is forgotten and its task taken back.                       *)
TakesBack(w) ==
  /\ w \in InFlight /\ pc[w] = "gone" /\ place \in {"reap", "teardown"}
  /\ Goto(w, "off")
  /\ ReclaimDeadWorker(w, MaxOomRetries)
  /\ device' = [device EXCEPT ![w] = NoDevice]
  /\ unchecked' = unchecked \ {w}
  /\ ceiling' \in {ceiling, Lowered}
  /\ UNCHANGED <<frameVars, callVars, zombies, place, report, counted, message, historyVars>>

LEMMA Steps ==
  ASSUME TypeInv, [Next]_vars
  PROVE  \/ \E w \in Worker : RunOnceStep(w) /\ UNCHANGED poolVars
         \/ \E w \in Worker : PutResult(w) \/ Exit(w) \/ Die(w) \/ TakesBack(w)
         \/ \E w \in Worker, d \in Device : Spawn(w, d)
         \/ \E w \in Worker : InterruptedAtStart(w) \/ InterruptedAtReclaim(w)
         \/ ParentAlone
         \/ JoinReported
         \/ \E w \in Worker : ZombieReturns(w) /\ UNCHANGED poolVars
         \/ \E t \in Task : LeaseExpires(t)
         \/ UNCHANGED vars
<1>0. unchecked \subseteq InFlight /\ (place # "reap" => unchecked = {})
  BY DEF TypeInv, PoolTypes
<1>1. ASSUME \/ StopAdmitting \/ QueueStaysEmpty \/ ReapingEnds \/ Interrupted \/ TornDown
             \/ Conclude \/ TeardownAborted
             \/ \E w \in Worker : Receive(w) \/ InterruptedAtGet(w) \/ (Reap(w) /\ pc[w] # "gone")
      PROVE  ParentAlone
  BY <1>1
  DEF ParentAlone, StopAdmitting, QueueStaysEmpty, ReapingEnds, Interrupted, TornDown,
      Conclude, TeardownAborted, InterruptedAtGet, Receive, Reap, onceVars, childVars, historyVars
<1>2. ASSUME NEW w \in Worker, Reap(w), pc[w] = "gone"
      PROVE  TakesBack(w)
  BY <1>0, <1>2 DEF Reap, TakesBack, Goto
<1>3. ASSUME NEW w \in Worker, TearDown(w)
      PROVE  TakesBack(w)
  BY <1>0, <1>3 DEF TearDown, TakesBack, Goto
<1> QED
  BY <1>1, <1>2, <1>3, Zenon DEF Next, ParentStep, Exception, ChildStep

(* Whatever step is taken, the store sees one of its operations or nothing. *)
LEMMA StoreEffect ==
  ASSUME TypeInv, [Next]_vars
  PROVE  StoreStep
<1>1. ASSUME NEW w \in Worker, RunOnceStep(w)
      PROVE  StoreStep
  BY <1>1, OnceStoreEffect DEF TypeInv
<1>2. ASSUME NEW w \in Worker, TakesBack(w)
      PROVE  StoreStep
  BY <1>2, RunOnceAssumption DEF TakesBack, StoreStep
<1>3. ASSUME NEW t \in Task, LeaseExpires(t)
      PROVE  StoreStep
  BY <1>3 DEF LeaseExpires, StoreStep
<1>4. ASSUME UNCHANGED storeVars
      PROVE  StoreStep
  BY <1>4 DEF StoreStep
<1> QED
  BY <1>1, <1>2, <1>3, <1>4, Steps
  DEF PutResult, Exit, Die, Spawn, InterruptedAtStart, InterruptedAtReclaim, ParentAlone,
      JoinReported, ZombieReturns, onceVars, vars

-----------------------------------------------------------------------------
(***************************************************************************)
(* Types.                                                                  *)
(***************************************************************************)
LEMMA FramesKept ==
  ASSUME TypeInv, [Next]_vars
  PROVE  CallFrame'
<1>0. /\ OnceInv /\ CallFrame /\ RefreshTypeOK
      /\ attempt \in [Worker -> Nat] /\ outcome \in [Worker -> Outcome]
      /\ zombies \in [Worker -> SUBSET Task]
  BY DEF TypeInv, OnceInv, CallFrame
<1>1. ASSUME NEW w \in Worker, RunOnceStep(w)
      PROVE  CallFrame'
  BY <1>0, <1>1, OnceKeepsFrames
<1>2. ASSUME NEW w \in Worker, NEW p \in {"off", "lease", "exiting", "gone"}, Goto(w, p),
             ReturnFrame(w) \/ UNCHANGED <<frameVars, callVars>>,
             zombies' \in [Worker -> SUBSET Task]
      PROVE  CallFrame'
  <2>1. p \notin InCall /\ p # "r_get" /\ p \in OncePC \cup {"off", "exiting", "gone"}
    BY DEF InCall, OncePC, ReturnPC, RefreshPC
  <2>2. CASE ReturnFrame(w)
    BY <1>0, <1>2, <2>1, <2>2, ReturnedFrame, WorkerMove
  <2>3. CASE UNCHANGED <<frameVars, callVars>>
    BY <1>0, <1>2, <2>1, <2>3, WorkerMove DEF frameVars, callVars, RefreshTypeOK
  <2> QED
    BY <1>2, <2>2, <2>3
<1>3. ASSUME NEW w \in Worker, PutResult(w) \/ Exit(w) \/ Die(w) \/ TakesBack(w)
      PROVE  CallFrame'
  <2>1. zombies' \in [Worker -> SUBSET Task]
    BY <1>0, <1>3 DEF PutResult, Exit, Die, TakesBack
  <2> QED
    BY <1>2, <1>3, <2>1 DEF PutResult, Exit, Die, TakesBack
<1>4. ASSUME NEW w \in Worker, NEW d \in Device, Spawn(w, d)
      PROVE  CallFrame'
  BY <1>0, <1>2, <1>4 DEF Spawn
<1>4a. ASSUME NEW w \in Worker, InterruptedAtStart(w) \/ InterruptedAtReclaim(w)
       PROVE  CallFrame'
  BY <1>0, <1>2, <1>4a DEF InterruptedAtStart, InterruptedAtReclaim, Goto
<1>5. ASSUME JoinReported
      PROVE  CallFrame'
  <2>1. report.child \in Worker /\ Goto(report.child, "off")
    BY <1>5 DEF JoinReported, Step, TypeInv, PoolTypes, Goto
  <2> QED
    BY <1>0, <1>2, <1>5, <2>1 DEF JoinReported
<1>6. ASSUME UNCHANGED <<pc, frameVars, callVars>>, zombies' \in [Worker -> SUBSET Task]
      PROVE  CallFrame'
  BY <1>0, <1>6 DEF CallFrame, RefreshTypeOK, frameVars, callVars
<1>7. ASSUME NEW w \in Worker, ZombieReturns(w)
      PROVE  CallFrame'
  BY <1>0, <1>6, <1>7 DEF ZombieReturns
<1> QED
  BY <1>0, <1>1, <1>3, <1>4, <1>4a, <1>5, <1>6, <1>7, Steps
  DEF ParentAlone, LeaseExpires, onceVars, childVars, vars

(* A move of one child keeps every process at a place of this drain.        *)
LEMMA ChildMove ==
  ASSUME TypeInv, NEW w \in Worker, NEW p \in ChildPC, Goto(w, p),
         UNCHANGED after \/ \E a \in {"lease", "prepare", "ok", "raised"} :
                              after' = [after EXCEPT ![w] = a]
  PROVE  \A q \in Proc : pc'[q] \in ChildPC /\ after'[q] # "idle"
BY DEF TypeInv, OnceInv, CallFrame, PoolTypes, Goto, Proc

LEMMA PlacesKept ==
  ASSUME TypeInv, [Next]_vars
  PROVE  \A p \in Proc : pc'[p] \in ChildPC /\ after'[p] # "idle"
<1>0. OnceInv /\ \A p \in Proc : pc[p] \in ChildPC /\ after[p] # "idle"
  BY DEF TypeInv, PoolTypes
<1>1. ASSUME NEW w \in Worker, RunOnceStep(w)
      PROVE  \A p \in Proc : pc'[p] \in ChildPC /\ after'[p] # "idle"
  <2>1. PICK p \in OncePC \cup RefreshPC : Goto(w, p)
    BY <1>0, <1>1, OnceGoes
  <2>2. \/ UNCHANGED after
        \/ \E a \in {"lease", "prepare", "ok", "raised"} : after' = [after EXCEPT ![w] = a]
    <3>1. CASE RefreshStep(w)
      BY <3>1, RefreshGoes DEF RefreshStep, Proc
    <3>2. CASE ~RefreshStep(w)
      BY <1>1, <3>2
      DEF RunOnceStep, Lease, LeaseNothing, BumpAttempts, MarkRunning, MarkRefused, Announce,
          CallRefresh, Prepare, HandlerEnds, Execute, ExecuteTimesOut, OomBudget, Record,
          RecordRefused, ArtifactFails, Close, frameVars
    <3> QED
      BY <3>1, <3>2
  <2> QED
    BY <2>1, <2>2, ChildMove DEF ChildPC
<1>2. ASSUME NEW w \in Worker, NEW p \in {"off", "lease", "exiting", "gone"}, Goto(w, p),
             ReturnFrame(w) \/ UNCHANGED frameVars
      PROVE  \A q \in Proc : pc'[q] \in ChildPC /\ after'[q] # "idle"
  BY <1>2, ChildMove DEF ChildPC, OncePC, ReturnFrame, frameVars
<1>3. ASSUME JoinReported
      PROVE  \A p \in Proc : pc'[p] \in ChildPC /\ after'[p] # "idle"
  <2>1. report.child \in Worker /\ Goto(report.child, "off")
    BY <1>3 DEF JoinReported, Step, TypeInv, PoolTypes, Goto
  <2> QED
    BY <1>2, <1>3, <2>1 DEF JoinReported
<1>4. ASSUME NEW w \in Worker, InterruptedAtStart(w) \/ InterruptedAtReclaim(w)
      PROVE  \A p \in Proc : pc'[p] \in ChildPC /\ after'[p] # "idle"
  BY <1>2, <1>4 DEF InterruptedAtStart, InterruptedAtReclaim, Goto
<1> QED
  BY <1>0, <1>1, <1>2, <1>3, <1>4, Steps
  DEF PutResult, Exit, Die, TakesBack, Spawn, ParentAlone, ZombieReturns, LeaseExpires,
      onceVars, childVars, frameVars, vars

LEMMA TidingsType ==
  ASSUME NEW w \in Worker
  PROVE  TidingsOf(w) \in Tidings \ {"none"}
BY DEF TidingsOf, Tidings

LEMMA PoolTypesKept ==
  ASSUME TypeInv, [Next]_vars
  PROVE  PoolTypes'
<1>0. /\ PoolTypes /\ \A p \in Proc : pc'[p] \in ChildPC /\ after'[p] # "idle"
      /\ MaxConcurrent \in Nat \ {0} /\ DeathBound \in Nat
      /\ Lowered \in 1..MaxConcurrent
  BY PlacesKept, PoolAssumption DEF TypeInv, PoolTypes, Lowered
<1>1. ASSUME UNCHANGED poolVars
      PROVE  PoolTypes'
  BY <1>0, <1>1 DEF PoolTypes, poolVars, parentVars, historyVars, InFlight
<1>2. ASSUME NEW w \in Worker, PutResult(w)
      PROVE  PoolTypes'
  BY <1>0, <1>2, TidingsType DEF PoolTypes, PutResult, parentVars, InFlight
<1>3. ASSUME NEW w \in Worker, Exit(w)
      PROVE  PoolTypes'
  BY <1>1, <1>3 DEF Exit
<1>4. ASSUME NEW w \in Worker, Die(w)
      PROVE  PoolTypes'
  BY <1>0, <1>4 DEF PoolTypes, Die, parentVars, InFlight
<1>5. ASSUME NEW w \in Worker, TakesBack(w)
      PROVE  PoolTypes'
  BY <1>0, <1>5 DEF PoolTypes, TakesBack, historyVars, InFlight
<1>6. ASSUME NEW w \in Worker, NEW d \in Device, Spawn(w, d)
      PROVE  PoolTypes'
  BY <1>0, <1>6, PoolAssumption DEF PoolTypes, Spawn, MaySpawn, historyVars, InFlight
<1>6a. ASSUME NEW w \in Worker, InterruptedAtStart(w)
       PROVE  PoolTypes'
  BY <1>0, <1>6a DEF PoolTypes, InterruptedAtStart, MaySpawn, ParentPlace, InFlight
<1>6b. ASSUME NEW w \in Worker, InterruptedAtReclaim(w)
       PROVE  PoolTypes'
  BY <1>0, <1>6b DEF PoolTypes, InterruptedAtReclaim, Step, ParentPlace, InFlight
<1>7. CASE JoinReported
  BY <1>0, <1>7 DEF PoolTypes, JoinReported, Step, NoReport, Tidings, ParentPlace, historyVars, InFlight
<1>8. CASE ParentAlone
  <2>1. UNCHANGED <<counted, deaths, unlogged, strayed>>
    BY <1>8
    DEF ParentAlone, StopAdmitting, QueueStaysEmpty, ReapingEnds, Interrupted, TornDown,
        Conclude, TeardownAborted, InterruptedAtGet, Receive, Reap, historyVars
  <2>2. CASE StopAdmitting \/ QueueStaysEmpty \/ ReapingEnds \/ Interrupted \/ TornDown \/ Conclude
    BY <1>0, <2>1, <2>2
    DEF PoolTypes, StopAdmitting, QueueStaysEmpty, ReapingEnds, Interrupted, TornDown,
        Conclude, Step, NoReport, Tidings, ParentPlace, historyVars, InFlight
  <2>3. ASSUME NEW w \in Worker, Receive(w) \/ InterruptedAtGet(w)
        PROVE  PoolTypes'
    BY <1>0, <2>1, <2>3
    DEF PoolTypes, Receive, InterruptedAtGet, Step, Tidings, ParentPlace, historyVars, InFlight
  <2>4. ASSUME NEW w \in Worker, Reap(w), pc[w] # "gone"
        PROVE  PoolTypes'
    BY <1>0, <2>1, <2>4 DEF PoolTypes, Reap, historyVars, InFlight
  <2>5. CASE TeardownAborted
    BY <1>0, <2>1, <2>5, PoolAssumption
    DEF PoolTypes, TeardownAborted, Step, ParentPlace, InFlight
  <2> QED
    BY <1>8, <2>2, <2>3, <2>4, <2>5 DEF ParentAlone
<1> QED
  BY <1>1, <1>2, <1>3, <1>4, <1>5, <1>6, <1>6a, <1>6b, <1>7, <1>8, Steps DEF LeaseExpires, vars

LEMMA TypeInvInit ==
  ASSUME Init
  PROVE  TypeInv
<1>1. StoreTypeOK /\ \A t \in Task : owner[t] = NoWorker /\ status[t] = "PENDING"
  BY DEF Init, OnceInit, StoreInit, StoreTypeOK, TaskStatus, RunStatus
<1>2. LogFinite
  <2>1. ASSUME NEW t \in Task, NEW kind \in EventKind
        PROVE  Logged(t, kind) = {}
    BY DEF Init, OnceInit, StoreInit, Logged
  <2> QED
    BY <2>1, FS_EmptySet DEF LogFinite
<1>3. CallFrame
  BY DEF Init, OnceInit, RefreshInit, CallFrame, RefreshTypeOK, RunStatus, Outcome, OncePC,
         RefreshPC, InCall, Place, ReturnPC, Proc
<1>4. PoolTypes
  BY PoolAssumption
  DEF Init, PoolTypes, ChildPC, ParentPlace, InFlight, NoReport, Tidings
<1> QED
  BY <1>1, <1>2, <1>3, <1>4 DEF TypeInv, OnceInv, StoreInv

(* The types and the frames are as declared in every state.                 *)
THEOREM FrameCorrect == Spec => []TypeInv
<1>1. TypeInv /\ [Next]_vars => TypeInv'
  BY StoreEffect, StoreKeepsTypes, FramesKept, PoolTypesKept DEF TypeInv, OnceInv
<1> QED
  BY <1>1, TypeInvInit, PTL DEF Spec

(* Every variable of the parent, its children and the store keeps its type; *)
(* in particular the ceiling stays between 1 and max_concurrent, and the    *)
(* reaping loop only ever looks at children the parent keeps track of.      *)
THEOREM TypeCorrect == Spec => []TypeOK
<1>1. ASSUME TypeInv
      PROVE  TypeOK
  <2>1. /\ pc \in [Proc -> ChildPC]
        /\ after \in [Proc -> {"lease", "prepare", "ok", "raised"}]
    BY <1>1 DEF TypeInv, OnceInv, CallFrame, PoolTypes
  <2> QED
    BY <1>1, <2>1 DEF TypeInv, OnceInv, StoreInv, CallFrame, PoolTypes, TypeOK, OnceTypeOK
<1> QED
  BY <1>1, FrameCorrect, PTL

-----------------------------------------------------------------------------
(***************************************************************************)
(* Custody.  What is new here is the parent: it makes a RUNNING task       *)
(* PENDING, and only OwnedInv says that nobody is running it then.         *)
(***************************************************************************)
(* A step by which no child comes to a task, and none loses its own.        *)
LEMMA HandsKept ==
  ASSUME OwnedInv,
         \A v \in Worker : pc'[v] \in {"bump", "mark"} =>
           /\ pc[v] \in {"bump", "mark"} /\ held'[v] = held[v]
           /\ status'[held[v]] = status[held[v]] /\ owner'[held[v]] = owner[held[v]]
           /\ expired'[held[v]] = expired[held[v]],
         \A v \in Worker : Underway(v)' =>
           Underway(v) /\ held'[v] = held[v] /\ owner'[held[v]] = owner[held[v]]
  PROVE  OwnedInv'
BY DEF OwnedInv

(* A child moves and the leases stay as they are.                           *)
LEMMA MoveKeepsHands ==
  ASSUME TypeInv, OwnedInv, NEW w \in Worker, NEW dest, Goto(w, dest),
         UNCHANGED leaseVars,
         \A v \in Worker \ {w} : held'[v] = held[v] /\ after'[v] = after[v],
         \/ dest \in {"bump", "mark"} /\ pc[w] \in {"bump", "mark"} /\ held'[w] = held[w]
         \/ dest \notin {"bump", "mark"} /\ ~Underway(w)'
         \/ dest \notin {"bump", "mark"} /\ Underway(w) /\ held'[w] = held[w]
  PROVE  OwnedInv'
<1>0. pc \in [Proc -> Place] /\ Worker \subseteq Proc
  BY DEF TypeInv, OnceInv, CallFrame, Proc
<1>1. \A v \in Worker \ {w} : pc'[v] = pc[v] /\ (Underway(v)' <=> Underway(v))
  BY <1>0 DEF Underway, Goto
<1>2. pc'[w] = dest
  BY <1>0 DEF Goto
<1>3. ~(dest \in {"bump", "mark"} /\ Underway(w)')
  BY <1>2 DEF Underway, RefreshPC
<1>4. \A v \in Worker : pc'[v] \in {"bump", "mark"} =>
        pc[v] \in {"bump", "mark"} /\ held'[v] = held[v]
  BY <1>1, <1>2
<1>5. \A v \in Worker : Underway(v)' => Underway(v) /\ held'[v] = held[v]
  BY <1>1, <1>3
<1> QED
  BY <1>4, <1>5, HandsKept DEF leaseVars

(* A task is leased that no child has in hand.                              *)
LEMMA LeaseKeepsHands ==
  ASSUME TypeInv, OwnedInv, CustodyInv, NEW w \in Worker, Lease(w)
  PROVE  OwnedInv'
<1>0. /\ pc \in [Proc -> Place] /\ Worker \subseteq Proc
      /\ held \in [Worker -> Task \cup {NoTask}]
      /\ status \in [Task -> TaskStatus] /\ owner \in [Task -> Worker \cup {NoWorker}]
      /\ expired \in [Task -> BOOLEAN]
      /\ \A v \in Worker : pc[v] \in {"bump", "mark"} => held[v] \in Task
  BY DEF TypeInv, OnceInv, CallFrame, StoreInv, StoreTypeOK, Proc, InCall, OncePC, ReturnPC
<1>1. PICK t \in Task : /\ LeaseNextPendingTask(w, t)
                        /\ held' = [held EXCEPT ![w] = t]
  BY DEF Lease
<1>2. /\ pc[w] = "lease" /\ pc' = [pc EXCEPT ![w] = "bump"] /\ after' = after
  BY DEF Lease, Goto, frameVars
<1>3. /\ Leaseable(t)
      /\ status' = [status EXCEPT ![t] = "LEASED"]
      /\ owner' = [owner EXCEPT ![t] = w]
      /\ expired' = [expired EXCEPT ![t] = FALSE]
  BY <1>1 DEF LeaseNextPendingTask
<1>4. \A v \in Worker : pc[v] \in {"bump", "mark"} \/ Underway(v) => held[v] \in Task \ {t}
  BY <1>0, <1>3 DEF OwnedInv, CustodyInv, Leaseable, LeaseRanOut
<1>5. \A v \in Worker \ {w} : pc'[v] = pc[v] /\ held'[v] = held[v] /\ (Underway(v)' <=> Underway(v))
  BY <1>0, <1>1, <1>2 DEF Underway
<1>6. pc'[w] = "bump" /\ held'[w] = t /\ ~Underway(w)'
  BY <1>0, <1>1, <1>2 DEF Underway, RefreshPC
<1>7. ASSUME NEW v \in Worker, pc'[v] \in {"bump", "mark"}
      PROVE  status'[held'[v]] = "LEASED" /\ owner'[held'[v]] = v /\ ~expired'[held'[v]]
  BY <1>0, <1>3, <1>4, <1>5, <1>6, <1>7 DEF OwnedInv
<1>8. ASSUME NEW v \in Worker, Underway(v)'
      PROVE  owner'[held'[v]] = v
  BY <1>0, <1>3, <1>4, <1>5, <1>6, <1>8 DEF OwnedInv
<1> QED
  BY <1>7, <1>8 DEF OwnedInv

LEMMA MarkKeepsHands ==
  ASSUME TypeInv, OwnedInv, NEW w \in Worker, MarkRunning(w)
  PROVE  OwnedInv'
<1>0. /\ pc \in [Proc -> Place] /\ Worker \subseteq Proc
      /\ status \in [Task -> TaskStatus]
  BY DEF TypeInv, OnceInv, CallFrame, StoreInv, StoreTypeOK, Proc
<1>1. /\ pc[w] = "mark" /\ pc' = [pc EXCEPT ![w] = "announce"]
      /\ status' = [status EXCEPT ![held[w]] = "RUNNING"]
      /\ UNCHANGED <<owner, expired, held, after>>
  BY DEF MarkRunning, MarkTaskRunning, Goto, frameVars, callVars
<1>2. \A v \in Worker \ {w} : pc'[v] = pc[v] /\ (Underway(v)' <=> Underway(v))
  BY <1>0, <1>1 DEF Underway
<1>3. ASSUME NEW v \in Worker, pc'[v] \in {"bump", "mark"}
      PROVE  status'[held'[v]] = "LEASED" /\ owner'[held'[v]] = v /\ ~expired'[held'[v]]
  <2>1. v # w /\ pc[v] \in {"bump", "mark"}
    BY <1>0, <1>1, <1>3
  <2>2. held[v] # held[w]
    BY <1>1, <2>1 DEF OwnedInv
  <2> QED
    BY <1>0, <1>1, <2>1, <2>2 DEF OwnedInv
<1>4. ASSUME NEW v \in Worker, Underway(v)'
      PROVE  owner'[held'[v]] = v
  BY <1>1, <1>2, <1>4 DEF OwnedInv
<1> QED
  BY <1>3, <1>4 DEF OwnedInv

LEMMA RecordKeepsHands ==
  ASSUME TypeInv, OwnedInv, NEW w \in Worker, Record(w)
  PROVE  OwnedInv'
<1>0. /\ pc \in [Proc -> Place] /\ Worker \subseteq Proc
      /\ status \in [Task -> TaskStatus] /\ owner \in [Task -> Worker \cup {NoWorker}]
      /\ expired \in [Task -> BOOLEAN]
  BY DEF TypeInv, OnceInv, CallFrame, StoreInv, StoreTypeOK, Proc
<1>1. /\ pc[w] = "record" /\ pc' = [pc EXCEPT ![w] = "close"]
      /\ status' = [status EXCEPT ![held[w]] = Verdict(w)]
      /\ owner' = [owner EXCEPT ![held[w]] = NoWorker]
      /\ expired' = [expired EXCEPT ![held[w]] = FALSE]
      /\ UNCHANGED <<held, after>>
  BY DEF Record, UpdateTaskStatus, Goto, frameVars, callVars
<1>2. \A v \in Worker \ {w} : pc'[v] = pc[v] /\ (Underway(v)' <=> Underway(v))
  BY <1>0, <1>1 DEF Underway
<1>3. pc'[w] = "close" /\ ~Underway(w)' /\ owner[held[w]] = w
  BY <1>0, <1>1 DEF Underway, RefreshPC, OwnedInv
<1>4. \A v \in Worker \ {w} : pc[v] \in {"bump", "mark"} \/ Underway(v) => held[v] # held[w]
  BY <1>3 DEF OwnedInv
<1>5. \A v \in Worker : pc'[v] \in {"bump", "mark"} =>
        v # w /\ pc[v] \in {"bump", "mark"} /\ held[v] # held[w]
  BY <1>2, <1>3, <1>4
<1>6. \A v \in Worker : Underway(v)' => v # w /\ Underway(v) /\ held[v] # held[w]
  BY <1>2, <1>3, <1>4
<1> HIDE DEF Verdict
<1>7. \A v \in Worker : held[v] # held[w] =>
        status'[held[v]] = status[held[v]] /\ owner'[held[v]] = owner[held[v]]
        /\ expired'[held[v]] = expired[held[v]]
  BY <1>0, <1>1
<1> QED
  BY <1>1, <1>5, <1>6, <1>7, HandsKept

LEMMA OnceKeepsHands ==
  ASSUME TypeInv, OwnedInv, CustodyInv, NEW w \in Worker, RunOnceStep(w)
  PROVE  OwnedInv'
<1>0. /\ pc \in [Proc -> Place] /\ Worker \subseteq Proc
      /\ after \in [Proc -> {"lease", "prepare", "ok", "raised", "idle"}]
      /\ OnceInv /\ (pc[w] \in RefreshPC => after[w] \in {"prepare", "ok", "raised"})
  BY DEF TypeInv, OnceInv, CallFrame, Proc
<1>1. CASE Lease(w) \/ MarkRunning(w) \/ Record(w) \/ RecordRefused(w)
  BY <1>0, <1>1, LeaseKeepsHands, MarkKeepsHands, RecordKeepsHands, RecordNeverRefused
<1>2. CASE BumpAttempts(w)
  BY <1>2, MoveKeepsHands DEF BumpAttempts, IncrementTaskAttempts, frameVars
<1>3. CASE LeaseNothing(w) \/ MarkRefused(w) \/ ArtifactFails(w)
  <2>1. \E dest \in {"empty", "raised"} : Goto(w, dest)
    BY <1>3 DEF LeaseNothing, MarkRefused, ArtifactFails
  <2>2. UNCHANGED <<leaseVars, held, after>>
    BY <1>3
    DEF LeaseNothing, MarkRefused, ArtifactFails, storeVars, leaseVars, frameVars, callVars
  <2>3. ~Underway(w)'
    BY <1>0, <2>1 DEF Underway, Goto, RefreshPC
  <2> QED
    BY <2>1, <2>2, <2>3, MoveKeepsHands
<1>4. CASE Announce(w)
  BY <1>4, MoveKeepsHands DEF Announce, AppendEvent, CallRefresh, Underway, callVars, TypeInv,
     OnceInv, CallFrame, Proc
<1>5. CASE RefreshStep(w)
  <2>1. /\ UNCHANGED <<leaseVars, held, after>> /\ pc[w] \in RefreshPC
        /\ \E dest \in RefreshPC \cup {"r_error", after[w]} : Goto(w, dest)
    BY <1>5, RefreshGoes DEF RefreshStep, callVars, Proc
  <2>2. PICK dest \in RefreshPC \cup {"r_error", after[w]} : Goto(w, dest)
    BY <2>1
  <2>3. dest \notin {"bump", "mark"} /\ (Underway(w)' => Underway(w))
    BY <1>0, <2>1, <2>2 DEF Underway, Goto, RefreshPC
  <2> QED
    BY <2>1, <2>2, <2>3, MoveKeepsHands
<1>6. CASE Prepare(w) \/ HandlerEnds(w) \/ OomBudget(w)
  <2>1. \E dest \in {"raised", "execute", "oom_count", "record"} : Goto(w, dest)
    BY <1>6 DEF Prepare, HandlerEnds, Execute, ExecuteTimesOut, OomBudget
  <2>2. UNCHANGED <<leaseVars, held, after>> /\ Underway(w)
    BY <1>6
    DEF Prepare, HandlerEnds, Execute, ExecuteTimesOut, OomBudget, Underway, storeVars,
        leaseVars, frameVars, callVars
  <2> QED
    BY <2>1, <2>2, MoveKeepsHands
<1>7. CASE Close(w)
  <2>1. /\ Goto(w, "r_get") /\ UNCHANGED <<leaseVars, held>>
        /\ \E a \in {"ok", "raised"} : after' = [after EXCEPT ![w] = a]
    BY <1>7 DEF Close, AppendEvent, CallRefresh, callVars
  <2>2. ~Underway(w)'
    BY <1>0, <2>1 DEF Underway, Goto, RefreshPC
  <2>3. \A v \in Worker \ {w} : after'[v] = after[v]
    BY <1>0, <2>1
  <2> QED
    BY <2>1, <2>2, <2>3, MoveKeepsHands
<1> QED
  BY <1>1, <1>2, <1>3, <1>4, <1>5, <1>6, <1>7 DEF RunOnceStep

(* A child comes, goes or dies while the store looks on.                    *)
LEMMA ChildMoves ==
  ASSUME TypeInv, NEW w \in Worker, PutResult(w) \/ Exit(w) \/ Die(w)
  PROVE  /\ \E dest \in {"exiting", "gone"} : Goto(w, dest)
         /\ UNCHANGED storeVars
         /\ \A v \in Worker \ {w} : /\ held'[v] = held[v] /\ after'[v] = after[v]
                                    /\ outcome'[v] = outcome[v] /\ zombies'[v] = zombies[v]
         /\ zombies'[w] \in {zombies[w], {}}
<1>1. ReturnFrame(w) \/ UNCHANGED <<frameVars, callVars>>
  BY DEF PutResult, Exit, Die
<1>2. \A v \in Worker \ {w} : /\ held'[v] = held[v] /\ after'[v] = after[v]
                              /\ outcome'[v] = outcome[v]
  BY <1>1 DEF ReturnFrame, frameVars, callVars, TypeInv, OnceInv, CallFrame, Proc
<1>3. zombies' \in {zombies, [zombies EXCEPT ![w] = {}]}
  BY DEF PutResult, Exit, Die
<1>4. UNCHANGED storeVars /\ \E dest \in {"exiting", "gone"} : Goto(w, dest)
  BY DEF PutResult, Exit, Die
<1> QED
  BY <1>2, <1>3, <1>4 DEF TypeInv, OnceInv, CallFrame

(* What the parent takes back is in nobody's hand.                          *)
LEMMA TakenBackFromNobody ==
  ASSUME TypeInv, OwnedInv, CustodyInv, NEW w \in Worker, TakesBack(w)
  PROVE  OwnedInv' /\ CustodyInv'
<1>0. /\ pc \in [Proc -> Place] /\ Worker \subseteq Proc
      /\ status \in [Task -> TaskStatus] /\ owner \in [Task -> Worker \cup {NoWorker}]
      /\ expired \in [Task -> BOOLEAN]
      /\ \A v \in Worker : pc[v] \in {"bump", "mark"} => held[v] \in Task
  BY DEF TypeInv, OnceInv, CallFrame, StoreInv, StoreTypeOK, Proc, InCall, OncePC
<1>1. /\ pc[w] = "gone" /\ pc' = [pc EXCEPT ![w] = "off"]
      /\ UNCHANGED <<held, after, outcome, zombies>>
  BY DEF TakesBack, Goto, frameVars, callVars
<1>2. \A v \in Worker : (Underway(v)' <=> Underway(v)) /\ (pc'[v] \in {"bump", "mark"} => pc'[v] = pc[v])
  BY <1>0, <1>1 DEF Underway, RefreshPC
<1>3. \A v \in Worker : pc[v] \in {"bump", "mark"} \/ Underway(v) => owner[held[v]] # w
  BY <1>1 DEF OwnedInv, Underway, RefreshPC
<1>4. \A t \in Task : owner[t] # w \/ status[t] \notin {"LEASED", "RUNNING"} =>
        status'[t] = status[t] /\ owner'[t] = owner[t] /\ expired'[t] = expired[t]
  BY <1>0 DEF TakesBack, ReclaimDeadWorker, OwnsTask, storeVars, leaseVars
<1>5. OwnedInv'
  <2>1. \A v \in Worker : Underway(v) => held[v] \in Task
    BY DEF CustodyInv
  <2> QED
    BY <1>0, <1>1, <1>2, <1>3, <1>4, <2>1, HandsKept
<1>6. \A v \in Worker : Underway(v)' => held'[v] \in Task /\ status'[held'[v]] = "RUNNING"
  BY <1>1, <1>2, <1>3, <1>4 DEF CustodyInv
<1>7. \A u, v \in Worker : Underway(u)' /\ Underway(v)' /\ held'[u] = held'[v] => u = v
  BY <1>1, <1>2 DEF CustodyInv
<1>8. ASSUME NEW v \in Worker, NEW s \in zombies'[v]
      PROVE  \/ status'[s] = "TIMED_OUT"
             \/ pc'[v] = "record" /\ outcome'[v] = "timeout" /\ held'[v] = s
  <2>1. s \in Task /\ s \in zombies[v]
    BY <1>1, <1>8 DEF TypeInv, OnceInv, CallFrame
  <2>2. CASE status[s] = "TIMED_OUT"
    BY <1>4, <2>1, <2>2
  <2>3. CASE pc[v] = "record" /\ outcome[v] = "timeout" /\ held[v] = s
    BY <1>0, <1>1, <2>3
  <2> QED
    BY <2>1, <2>2, <2>3 DEF CustodyInv
<1> QED
  BY <1>1, <1>5, <1>6, <1>7, <1>8 DEF CustodyInv

LEMMA CustodyStep ==
  ASSUME TypeInv, OwnedInv, CustodyInv, [Next]_vars
  PROVE  OwnedInv' /\ CustodyInv'
<1>0. /\ OnceInv /\ pc \in [Proc -> Place] /\ Worker \subseteq Proc
      /\ zombies \in [Worker -> SUBSET Task]
  BY DEF TypeInv, OnceInv, CallFrame, Proc
<1>1. ASSUME NEW w \in Worker, RunOnceStep(w)
      PROVE  OwnedInv' /\ CustodyInv'
  BY <1>0, <1>1, OnceKeepsHands, OnceKeepsCustody
<1>2. ASSUME NEW w \in Worker, NEW dest \in {"lease", "exiting", "gone", "off"}, Goto(w, dest),
             UNCHANGED storeVars,
             \A v \in Worker \ {w} : /\ held'[v] = held[v] /\ after'[v] = after[v]
                                     /\ outcome'[v] = outcome[v] /\ zombies'[v] = zombies[v],
             zombies'[w] \in {zombies[w], {}},
             zombies'[w] = {} \/ pc[w] # "record"
      PROVE  OwnedInv' /\ CustodyInv'
  <2>1. ~Underway(w)' /\ \A v \in Worker \ {w} : Underway(v)' => Underway(v)
    BY <1>0, <1>2 DEF Underway, Goto, RefreshPC
  <2>2. Quiet
    BY <1>0, <1>2, <2>1 DEF Quiet, Goto, storeVars, leaseVars
  <2>3. UNCHANGED leaseVars
    BY <1>2 DEF storeVars, leaseVars
  <2> QED
    BY <1>0, <1>2, <2>1, <2>2, <2>3, QuietKeepsCustody, MoveKeepsHands
<1>3. ASSUME NEW w \in Worker, PutResult(w) \/ Exit(w) \/ Die(w)
      PROVE  OwnedInv' /\ CustodyInv'
  <2>1. zombies'[w] = {} \/ pc[w] # "record"
    BY <1>0, <1>3 DEF PutResult, Exit, Die, ReturnPC
  <2> QED
    BY <1>2, <1>3, <2>1, ChildMoves
<1>4. ASSUME NEW w \in Worker, NEW d \in Device, Spawn(w, d)
      PROVE  OwnedInv' /\ CustodyInv'
  <2>1. pc[w] = "off"
    BY <1>4 DEF Spawn, MaySpawn, NobodyRefersTo
  <2> QED
    BY <1>2, <1>4, <2>1 DEF Spawn, frameVars, callVars
<1>4a. ASSUME NEW w \in Worker, InterruptedAtStart(w) \/ InterruptedAtReclaim(w)
       PROVE  OwnedInv' /\ CustodyInv'
  <2>1. pc[w] \in {"off", "gone"} /\ \E dest \in {"lease", "off"} : Goto(w, dest)
    BY <1>4a DEF InterruptedAtStart, InterruptedAtReclaim, MaySpawn, NobodyRefersTo, Goto
  <2> QED
    BY <1>2, <1>4a, <2>1 DEF InterruptedAtStart, InterruptedAtReclaim, frameVars, callVars
<1>5. CASE JoinReported
  <2>1. /\ report.child \in Worker /\ Goto(report.child, "off")
        /\ pc[report.child] # "record"
    BY <1>5 DEF JoinReported, Step, TypeInv, PoolTypes, Goto
  <2> QED
    BY <1>2, <1>5, <2>1 DEF JoinReported, frameVars, callVars
<1>6. ASSUME UNCHANGED <<status, owner, pc, frameVars, callVars>>,
             \A v \in Worker : zombies'[v] \subseteq zombies[v],
             \A v \in Worker : pc[v] \in {"bump", "mark"} => expired'[held[v]] = expired[held[v]]
      PROVE  OwnedInv' /\ CustodyInv'
  <2>1. \A v \in Worker : Underway(v)' <=> Underway(v)
    BY <1>6 DEF Underway, frameVars
  <2>2. Quiet
    BY <1>6, <2>1 DEF Quiet, callVars
  <2> QED
    BY <1>0, <1>6, <2>1, <2>2, QuietKeepsCustody, HandsKept DEF callVars
<1>7. ASSUME NEW t \in Task, LeaseExpires(t)
      PROVE  OwnedInv' /\ CustodyInv'
  <2>1. \A v \in Worker : pc[v] \in {"bump", "mark"} => held[v] \in Task \ {t}
    BY <1>7, StoreAssumption
    DEF LeaseExpires, OwnedInv, OnceInv, TypeInv, CallFrame, InCall, OncePC
  <2>2. \A v \in Worker : pc[v] \in {"bump", "mark"} => expired'[held[v]] = expired[held[v]]
    BY <1>7, <2>1 DEF LeaseExpires, LeaseDeadlinePasses, TypeInv, OnceInv, StoreInv, StoreTypeOK
  <2> QED
    BY <1>6, <1>7, <2>2 DEF LeaseExpires, LeaseDeadlinePasses, childVars
<1>8. ASSUME NEW w \in Worker, ZombieReturns(w)
      PROVE  OwnedInv' /\ CustodyInv'
  <2>1. \A v \in Worker : zombies'[v] \subseteq zombies[v]
    BY <1>0, <1>8 DEF ZombieReturns
  <2> QED
    BY <1>6, <1>8, <2>1 DEF ZombieReturns, storeVars, leaseVars
<1>9. CASE ParentAlone \/ UNCHANGED vars
  BY <1>6, <1>9 DEF ParentAlone, vars, onceVars, storeVars, leaseVars
<1> QED
  BY <1>1, <1>3, <1>4, <1>4a, <1>5, <1>7, <1>8, <1>9, TakenBackFromNobody, Steps

LEMMA CustodyInit ==
  ASSUME Init
  PROVE  OwnedInv /\ CustodyInv
BY DEF Init, OnceInit, OwnedInv, CustodyInv, Underway, RefreshPC, Proc

(* Each task under way is RUNNING, owned by the one child that runs it, and *)
(* the abandoned threads belong to TIMED_OUT tasks.                         *)
THEOREM CustodyHolds == Spec => [](OwnedInv /\ CustodyInv)
<1>1. TypeInv /\ (OwnedInv /\ CustodyInv) /\ [Next]_vars => (OwnedInv /\ CustodyInv)'
  BY CustodyStep
<1> QED
  BY <1>1, CustodyInit, FrameCorrect, PTL DEF Spec

(* No two threads ever run the handler of the same task, whatever children  *)
(* die and whatever the parent takes back and hands out again.              *)
THEOREM NoDoubleExecution == Spec => []SingleExecutor
<1>1. OwnedInv /\ CustodyInv => SingleExecutor
  BY CustodyMeansSingle
<1> QED
  BY <1>1, CustodyHolds, PTL

-----------------------------------------------------------------------------
(***************************************************************************)
(* The run's status.                                                       *)
(***************************************************************************)
LEMMA StatusStep ==
  ASSUME TypeInv, StatusInv, [Next]_vars
  PROVE  StatusInv'
<1>0. OnceInv /\ StoreInv /\ VerdictsStand /\ pc \in [Proc -> Place] /\ Worker \subseteq Proc
  BY StoreEffect, StoreKeepsVerdicts DEF TypeInv, OnceInv, CallFrame, Proc
<1>1. ASSUME NEW w \in Worker, RunOnceStep(w)
      PROVE  StatusInv'
  BY <1>0, <1>1, OnceKeepsStatus
<1>2. ASSUME NEW w \in Worker, NEW dest, Goto(w, dest), UNCHANGED runVars,
             dest \notin TargetPC \cup {"r_finish"},
             \A p \in Proc : p # w => target'[p] = target[p]
      PROVE  StatusInv'
  BY <1>0, <1>2, ElsewhereKeepsStatus DEF Goto
<1>3. ASSUME NEW w \in Worker, PutResult(w) \/ Exit(w) \/ Die(w) \/ TakesBack(w)
      PROVE  StatusInv'
  <2>1. \E dest \in {"exiting", "gone", "off"} : Goto(w, dest)
    BY <1>3 DEF PutResult, Exit, Die, TakesBack
  <2>2. UNCHANGED runVars
    BY <1>3 DEF PutResult, Exit, Die, TakesBack, ReclaimDeadWorker, storeVars, runVars
  <2>3. \A p \in Proc : p # w => target'[p] = target[p]
    BY <1>3
    DEF PutResult, Exit, Die, TakesBack, ReturnFrame, frameVars, TypeInv, OnceInv, CallFrame,
        RefreshTypeOK
  <2> QED
    BY <1>2, <2>1, <2>2, <2>3 DEF TargetPC
<1>4. ASSUME NEW w \in Worker, NEW d \in Device, Spawn(w, d)
      PROVE  StatusInv'
  BY <1>2, <1>4 DEF Spawn, TargetPC, storeVars, runVars, frameVars
<1>4a. ASSUME NEW w \in Worker, InterruptedAtStart(w) \/ InterruptedAtReclaim(w)
       PROVE  StatusInv'
  BY <1>2, <1>4a
  DEF InterruptedAtStart, InterruptedAtReclaim, Goto, TargetPC, storeVars, runVars, frameVars
<1>5. CASE JoinReported
  <2>1. report.child \in Worker /\ Goto(report.child, "off")
    BY <1>5 DEF JoinReported, Step, TypeInv, PoolTypes, Goto
  <2> QED
    BY <1>2, <1>5, <2>1 DEF JoinReported, TargetPC, storeVars, runVars, frameVars
<1>6. ASSUME UNCHANGED <<runVars, pc, target>>
      PROVE  StatusInv'
  BY <1>0, <1>6, ElsewhereKeepsStatus
<1>7. ASSUME \/ ParentAlone
             \/ \E w \in Worker : ZombieReturns(w)
             \/ \E t \in Task : LeaseExpires(t)
             \/ UNCHANGED vars
      PROVE  StatusInv'
  BY <1>6, <1>7
  DEF ParentAlone, ZombieReturns, LeaseExpires, LeaseDeadlinePasses, childVars, vars, onceVars,
      storeVars, runVars, frameVars
<1> QED
  BY <1>1, <1>3, <1>4, <1>4a, <1>5, <1>7, Steps

LEMMA StatusInit ==
  ASSUME Init
  PROVE  StatusInv
BY DEF Init, OnceInit, StoreInit, StatusInv, RunStatusJustified, Justifies, TargetPC, Proc

(* A final run status is borne out by the tasks, although each child        *)
(* refreshes it on its own, dies in the middle of that, and the parent      *)
(* moves tasks without asking for a refresh.                                *)
THEOREM RunStatusIsJustified == Spec => []RunStatusJustified
<1>1. TypeInv /\ StatusInv /\ [Next]_vars => StatusInv'
  BY StatusStep
<1>2. StatusInv => RunStatusJustified
  BY DEF StatusInv
<1> QED
  BY <1>1, <1>2, StatusInit, FrameCorrect, PTL DEF Spec

-----------------------------------------------------------------------------
(***************************************************************************)
(* No task is left behind.                                                 *)
(***************************************************************************)
(* A child comes to own a task by leasing it, and in no other way.          *)
LEMMA OnceOwner ==
  ASSUME TypeInv, NEW w \in Worker, RunOnceStep(w), ~Lease(w)
  PROVE  \A t \in Task : owner'[t] \in {owner[t], NoWorker}
<1>0. owner \in [Task -> Worker \cup {NoWorker}]
  BY DEF TypeInv, OnceInv, StoreInv, StoreTypeOK
<1>1. CASE RefreshStep(w)
  BY <1>1, RefreshGoes DEF RefreshStep, leaseVars, Proc
<1>2. CASE Record(w)
  BY <1>0, <1>2 DEF Record, UpdateTaskStatus
<1>3. CASE ~RefreshStep(w) /\ ~Record(w)
  BY <1>3
  DEF RunOnceStep, LeaseNothing, BumpAttempts, IncrementTaskAttempts, MarkRunning,
      MarkTaskRunning, MarkRefused, Announce, AppendEvent, Prepare, HandlerEnds, Execute,
      ExecuteTimesOut, OomBudget, RecordRefused, ArtifactFails, Close, leaseVars, storeVars
<1> QED
  BY <1>1, <1>2, <1>3

(* A step of run_once is taken by a child that is running.                  *)
LEMMA OnceStarts ==
  ASSUME NEW w \in Worker, RunOnceStep(w)
  PROVE  pc[w] \notin Out
<1>1. CASE RefreshStep(w)
  BY <1>1, RefreshGoes DEF RefreshStep, Proc, Out, RefreshPC
<1>2. CASE ~RefreshStep(w)
  BY <1>2
  DEF RunOnceStep, Lease, LeaseNothing, BumpAttempts, MarkRunning, MarkRefused, Announce,
      Prepare, HandlerEnds, Execute, ExecuteTimesOut, OomBudget, Record, RecordRefused,
      ArtifactFails, Close, Out
<1> QED
  BY <1>1, <1>2

LEMMA OnceKeepsTrack ==
  ASSUME TypeInv, TrackInv, NEW w \in Worker, RunOnceStep(w), UNCHANGED poolVars
  PROVE  TrackInv'
<1>0. /\ pc \in [Proc -> Place] /\ Worker \subseteq Proc
      /\ owner \in [Task -> Worker \cup {NoWorker}] /\ NoWorker \notin Worker
  BY StoreAssumption DEF TypeInv, OnceInv, CallFrame, StoreInv, StoreTypeOK, Proc
<1>1. PICK p \in (OncePC \ {"lease"}) \cup RefreshPC : Goto(w, p)
  BY OnceGoes DEF TypeInv
<1>2. pc'[w] \notin Out \cup {"lease"} /\ \A v \in Worker \ {w} : pc'[v] = pc[v]
  BY <1>0, <1>1 DEF Goto, Out, OncePC, ReturnPC, RefreshPC
<1>3. /\ pc[w] \notin Out /\ w \in InFlight \cup orphans /\ message[w] = "none"
  BY OnceStarts DEF TrackInv
<1>4. UNCHANGED <<place, device, report, message, strayed, orphans, InFlight>>
  BY DEF poolVars, parentVars, historyVars, InFlight
<1>5. \/ \A t \in Task : owner'[t] \in {owner[t], NoWorker}
      \/ \E t \in Task : /\ owner' = [owner EXCEPT ![t] = w]
                         /\ \A u \in Task : owner[u] # w
  BY OnceOwner DEF Lease, LeaseNextPendingTask, TrackInv
<1>6. \A v \in Worker : pc'[v] \notin Out => v \in InFlight' \cup orphans' /\ message'[v] = "none"
  BY <1>2, <1>3, <1>4 DEF TrackInv
<1>7. ASSUME NEW v \in Worker, NEW t \in Task, owner'[t] = v
      PROVE  \/ t \in strayed' \/ v \in orphans'
             \/ v \in InFlight' /\ pc'[v] \notin {"off", "exiting"} /\ message'[v] = "none"
  <2>1. CASE v = w
    BY <1>2, <1>3, <1>4, <2>1 DEF Out
  <2>2. CASE v # w
    <3>1. owner[t] = v
      BY <1>0, <1>5, <1>7, <2>2
    <3> QED
      BY <1>2, <1>4, <2>2, <3>1 DEF TrackInv
  <2> QED
    BY <2>1, <2>2
<1>8. \A t, u \in Task : owner'[t] \in Worker /\ owner'[t] = owner'[u] => t = u
  BY <1>0, <1>5 DEF TrackInv
<1>9. \A v \in Worker : pc'[v] = "lease" => \A t \in Task : owner'[t] # v
  BY <1>0, <1>2, <1>5 DEF TrackInv
<1>10. place' = "join" => pc'[report'.child] \in Out /\ report'.child \notin InFlight'
  <2>1. place = "join" => report.child \in Worker
    BY DEF TypeInv, PoolTypes
  <2> QED
    BY <1>2, <1>3, <1>4, <2>1 DEF TrackInv
<1>11. place' \in {"report", "clean", "degraded", "failed"} => InFlight' = {}
  BY <1>4 DEF TrackInv
<1>12. /\ place' \notin {"teardown", "failed"} => orphans' = {}
       /\ place' = "teardown" => orphans' = {} \/ \E v \in Worker : orphans' = {v}
  BY <1>4 DEF TrackInv
<1> QED
  BY <1>6, <1>7, <1>8, <1>9, <1>10, <1>11, <1>12 DEF TrackInv

(* A child leaves: what it still owned is accounted for.                    *)
LEMMA LeavingKeepsTrack ==
  ASSUME TypeInv, TrackInv, NEW w \in Worker, PutResult(w) \/ Exit(w) \/ Die(w)
  PROVE  TrackInv'
<1>0. /\ pc \in [Proc -> Place] /\ Worker \subseteq Proc
      /\ message \in [Worker -> Tidings]
      /\ \A t \in Task : owner[t] = w => OwnsTask(w, t)
  BY StoreAssumption
  DEF TypeInv, OnceInv, CallFrame, StoreInv, PoolTypes, OwnsTask, Proc
<1>1. PICK p \in {"exiting", "gone"} : Goto(w, p)
  BY ChildMoves
<1>2. pc'[w] = p /\ \A v \in Worker \ {w} : pc'[v] = pc[v]
  BY <1>0, <1>1 DEF Goto
<1>3. UNCHANGED <<owner, place, device, report, orphans, InFlight>>
  BY DEF PutResult, Exit, Die, storeVars, poolVars, parentVars, historyVars, InFlight
<1>4. /\ \A v \in Worker \ {w} : message'[v] = message[v]
      /\ strayed \subseteq strayed'
  BY <1>0 DEF PutResult, Exit, Die, poolVars, historyVars
<1>5. ASSUME NEW t \in Task, owner[t] = w
      PROVE  \/ t \in strayed' \/ w \in orphans
             \/ w \in InFlight /\ pc'[w] = "gone" /\ message'[w] = "none"
  <2>1. CASE PutResult(w)
    BY <1>0, <1>5, <2>1 DEF PutResult
  <2>2. CASE Exit(w)
    BY <1>4, <1>5, <2>2 DEF Exit, TrackInv
  <2>3. CASE Die(w)
    BY <1>0, <1>4, <1>5, <2>3 DEF Die, TrackInv, Goto
  <2> QED
    BY <2>1, <2>2, <2>3
<1>6. \A v \in Worker : pc'[v] \notin Out => v \in InFlight' \cup orphans' /\ message'[v] = "none"
  BY <1>2, <1>3, <1>4 DEF TrackInv, Out
<1>7. ASSUME NEW v \in Worker, NEW t \in Task, owner'[t] = v
      PROVE  \/ t \in strayed' \/ v \in orphans'
             \/ v \in InFlight' /\ pc'[v] \notin {"off", "exiting"} /\ message'[v] = "none"
  <2>1. CASE v = w
    BY <1>3, <1>5, <1>7, <2>1
  <2>2. CASE v # w
    BY <1>2, <1>3, <1>4, <1>7, <2>2 DEF TrackInv
  <2> QED
    BY <2>1, <2>2
<1>8. \A v \in Worker : pc'[v] = "lease" => \A t \in Task : owner'[t] # v
  BY <1>2, <1>3 DEF TrackInv
<1>9. place' = "join" => pc'[report'.child] \in Out /\ report'.child \notin InFlight'
  <2>1. place = "join" => report.child \in Worker
    BY DEF TypeInv, PoolTypes
  <2> QED
    BY <1>2, <1>3, <2>1 DEF TrackInv, Out
<1> QED
  BY <1>3, <1>6, <1>7, <1>8, <1>9 DEF TrackInv

(* The one task of a dead child is the one the parent takes back.           *)
LEMMA TakingBackKeepsTrack ==
  ASSUME TypeInv, TrackInv, NEW w \in Worker, TakesBack(w)
  PROVE  TrackInv'
<1>0. /\ pc \in [Proc -> Place] /\ Worker \subseteq Proc
      /\ owner \in [Task -> Worker \cup {NoWorker}] /\ NoWorker \notin Worker
      /\ device \in [Worker -> Device \cup {NoDevice}]
      /\ \A t \in Task : owner[t] = w => OwnsTask(w, t)
  BY StoreAssumption
  DEF TypeInv, OnceInv, CallFrame, StoreInv, StoreTypeOK, PoolTypes, OwnsTask, Proc
<1>1. /\ pc'[w] = "off" /\ \A v \in Worker \ {w} : pc'[v] = pc[v]
      /\ InFlight' = InFlight \ {w} /\ place \in {"reap", "teardown"}
      /\ UNCHANGED <<place, message, strayed, orphans>>
  BY <1>0 DEF TakesBack, Goto, InFlight, historyVars
<1>2. \A t \in Task : owner'[t] = IF owner[t] = w THEN NoWorker ELSE owner[t]
  <2>1. CASE \A t \in Task : ~OwnsTask(w, t)
    BY <1>0, <2>1 DEF TakesBack, ReclaimDeadWorker, storeVars
  <2>2. ASSUME NEW u \in Task, OwnsTask(w, u), owner' = [owner EXCEPT ![u] = NoWorker]
        PROVE  \A t \in Task : owner'[t] = IF owner[t] = w THEN NoWorker ELSE owner[t]
    BY <1>0, <2>2 DEF OwnsTask, TrackInv
  <2> QED
    BY <2>1, <2>2 DEF TakesBack, ReclaimDeadWorker
<1>3. \A v \in Worker : pc'[v] \notin Out => v \in InFlight' \cup orphans' /\ message'[v] = "none"
  BY <1>1 DEF TrackInv, Out
<1>4. \A v \in Worker, t \in Task : owner'[t] = v =>
        \/ t \in strayed' \/ v \in orphans'
        \/ v \in InFlight' /\ pc'[v] \notin {"off", "exiting"} /\ message'[v] = "none"
  BY <1>0, <1>1, <1>2 DEF TrackInv
<1>5. \A t, u \in Task : owner'[t] \in Worker /\ owner'[t] = owner'[u] => t = u
  BY <1>0, <1>2 DEF TrackInv
<1>6. \A v \in Worker : pc'[v] = "lease" => \A t \in Task : owner'[t] # v
  BY <1>0, <1>1, <1>2 DEF TrackInv
<1> QED
  BY <1>1, <1>3, <1>4, <1>5, <1>6 DEF TrackInv

(* A new child has an id that nothing refers to, whether or not the parent  *)
(* gets to enter it in in_flight.                                           *)
LEMMA StartingKeepsTrack ==
  ASSUME TypeInv, TrackInv, NEW w \in Worker,
         InterruptedAtStart(w) \/ \E d \in Device : Spawn(w, d)
  PROVE  TrackInv'
<1>0. /\ pc \in [Proc -> Place] /\ Worker \subseteq Proc
      /\ device \in [Worker -> Device \cup {NoDevice}] /\ \A d \in Device : d # NoDevice
  BY PoolAssumption DEF TypeInv, OnceInv, CallFrame, PoolTypes, Proc
<1>1. /\ place = "admit" /\ orphans = {}
      /\ message[w] = "none" /\ \A t \in Task : owner[t] # w
  BY DEF Spawn, InterruptedAtStart, MaySpawn, NobodyRefersTo, TrackInv
<1>2. /\ pc'[w] = "lease" /\ \A v \in Worker \ {w} : pc'[v] = pc[v]
      /\ UNCHANGED <<owner, message, strayed>>
      /\ \/ InFlight' = InFlight \cup {w} /\ orphans' = {} /\ place' = "admit"
         \/ InFlight' = InFlight /\ orphans' = {w} /\ place' = "teardown"
  BY <1>0, <1>1 DEF Spawn, InterruptedAtStart, Goto, InFlight, storeVars, historyVars
<1>3. \A v \in Worker : pc'[v] \notin Out => v \in InFlight' \cup orphans' /\ message'[v] = "none"
  BY <1>1, <1>2 DEF TrackInv
<1>4. \A v \in Worker, t \in Task : owner'[t] = v =>
        \/ t \in strayed' \/ v \in orphans'
        \/ v \in InFlight' /\ pc'[v] \notin {"off", "exiting"} /\ message'[v] = "none"
  BY <1>1, <1>2 DEF TrackInv
<1>5. \A v \in Worker : pc'[v] = "lease" => \A t \in Task : owner'[t] # v
  BY <1>1, <1>2 DEF TrackInv
<1> QED
  BY <1>1, <1>2, <1>3, <1>4, <1>5 DEF TrackInv

(* A dead child whose entry is gone and whose task is not taken back.       *)
LEMMA LosingKeepsTrack ==
  ASSUME TypeInv, TrackInv, NEW w \in Worker, InterruptedAtReclaim(w)
  PROVE  TrackInv'
<1>0. /\ pc \in [Proc -> Place] /\ Worker \subseteq Proc
      /\ device \in [Worker -> Device \cup {NoDevice}]
  BY DEF TypeInv, OnceInv, CallFrame, PoolTypes, Proc
<1>1. /\ pc[w] = "gone" /\ pc'[w] = "off" /\ \A v \in Worker \ {w} : pc'[v] = pc[v]
      /\ InFlight' = InFlight \ {w} /\ orphans = {} /\ orphans' = {w} /\ place' = "teardown"
      /\ UNCHANGED <<owner, message, strayed>>
  BY <1>0 DEF InterruptedAtReclaim, Step, TrackInv, InFlight, storeVars
<1>2. \A v \in Worker : pc'[v] \notin Out => v \in InFlight' \cup orphans' /\ message'[v] = "none"
  BY <1>1 DEF TrackInv, Out
<1>3. \A v \in Worker, t \in Task : owner'[t] = v =>
        \/ t \in strayed' \/ v \in orphans'
        \/ v \in InFlight' /\ pc'[v] \notin {"off", "exiting"} /\ message'[v] = "none"
  BY <1>1 DEF TrackInv
<1>4. \A v \in Worker : pc'[v] = "lease" => \A t \in Task : owner'[t] # v
  BY <1>1 DEF TrackInv
<1> QED
  BY <1>1, <1>2, <1>3, <1>4 DEF TrackInv

(* A child whose report was heeded and that left owned nothing any more.    *)
LEMMA JoiningKeepsTrack ==
  ASSUME TypeInv, TrackInv, JoinReported
  PROVE  TrackInv'
<1> DEFINE c == report.child
<1>0. /\ pc \in [Proc -> Place] /\ Worker \subseteq Proc
      /\ c \in Worker /\ c \notin InFlight
  BY DEF TypeInv, OnceInv, CallFrame, PoolTypes, Proc, JoinReported, Step, TrackInv
<1>1. /\ pc'[c] = "off" /\ \A v \in Worker \ {c} : pc'[v] = pc[v]
      /\ place' = "admit" /\ orphans = {}
      /\ UNCHANGED <<owner, message, strayed, orphans, InFlight>>
  BY <1>0 DEF JoinReported, Step, InFlight, storeVars, historyVars, TrackInv
<1>2. \A v \in Worker : pc'[v] \notin Out => v \in InFlight' \cup orphans' /\ message'[v] = "none"
  BY <1>1 DEF TrackInv, Out
<1>3. \A v \in Worker, t \in Task : owner'[t] = v =>
        \/ t \in strayed' \/ v \in orphans'
        \/ v \in InFlight' /\ pc'[v] \notin {"off", "exiting"} /\ message'[v] = "none"
  BY <1>0, <1>1 DEF TrackInv
<1>4. \A v \in Worker : pc'[v] = "lease" => \A t \in Task : owner'[t] # v
  BY <1>1 DEF TrackInv
<1> QED
  BY <1>1, <1>2, <1>3, <1>4 DEF TrackInv

(* The parent goes on without touching a child.                             *)
LEMMA ParentAloneKeepsTrack ==
  ASSUME TypeInv, TrackInv, ParentAlone
  PROVE  TrackInv'
<1>0. /\ message \in [Worker -> Tidings]
      /\ device \in [Worker -> Device \cup {NoDevice}]
  BY DEF TypeInv, PoolTypes
<1>1. UNCHANGED <<pc, owner, strayed>>
  BY DEF ParentAlone, onceVars, storeVars
<1>2. ASSUME UNCHANGED <<InFlight, orphans>>,
             \A w \in Worker : message'[w] \in {message[w], "none"}, place' # "join",
             place' \in {"report", "clean", "degraded", "failed"} => InFlight = {},
             place' \notin {"teardown", "failed"} => orphans = {},
             place' = "teardown" => orphans = {} \/ \E w \in Worker : orphans = {w}
      PROVE  TrackInv'
  BY <1>1, <1>2 DEF TrackInv
<1>3. CASE StopAdmitting \/ QueueStaysEmpty \/ ReapingEnds \/ Interrupted \/ TornDown \/ Conclude
  <2>1. UNCHANGED <<InFlight, orphans, message>>
    BY <1>3
    DEF StopAdmitting, QueueStaysEmpty, ReapingEnds, Interrupted, TornDown, Conclude, InFlight,
        historyVars
  <2>2. /\ place' # "join"
        /\ place' \in {"report", "clean", "degraded", "failed"} => InFlight = {}
        /\ place' # "failed" => orphans = {}
    BY <1>3
    DEF StopAdmitting, QueueStaysEmpty, ReapingEnds, Interrupted, TornDown, Conclude, Step,
        TrackInv
  <2> QED
    BY <1>2, <2>1, <2>2
<1>4. ASSUME NEW w \in Worker, Reap(w), pc[w] # "gone"
      PROVE  TrackInv'
  BY <1>2, <1>4 DEF Reap, InFlight, TrackInv, historyVars
<1>5. ASSUME NEW w \in Worker, Receive(w)
      PROVE  TrackInv'
  <2>1. /\ message[w] # "none" /\ pc[w] \in Out /\ orphans = {}
        /\ \A t \in Task : owner[t] = w => t \in strayed
    BY <1>5 DEF Receive, Step, TrackInv
  <2>2. /\ InFlight' = InFlight \ {w} /\ place' = "join" /\ report'.child = w
        /\ \A v \in Worker \ {w} : message'[v] = message[v]
        /\ orphans' = orphans
    BY <1>0, <1>5 DEF Receive, Step, InFlight, historyVars
  <2>3. \A v \in Worker : pc[v] \notin Out => v \in InFlight' /\ message'[v] = "none"
    BY <2>1, <2>2 DEF TrackInv
  <2>4. \A v \in Worker, t \in Task : owner[t] = v =>
          \/ t \in strayed
          \/ v \in InFlight' /\ pc[v] \notin {"off", "exiting"} /\ message'[v] = "none"
    BY <2>1, <2>2 DEF TrackInv
  <2> QED
    BY <1>1, <2>1, <2>2, <2>3, <2>4 DEF TrackInv
<1>6. ASSUME NEW w \in Worker, InterruptedAtGet(w)
      PROVE  TrackInv'
  <2>1. /\ UNCHANGED <<InFlight, orphans>> /\ place' = "teardown" /\ orphans = {}
        /\ \A v \in Worker : message'[v] \in {message[v], "none"}
    BY <1>0, <1>6 DEF InterruptedAtGet, Step, InFlight, historyVars, TrackInv
  <2> QED
    BY <1>2, <2>1
<1>7. CASE TeardownAborted
  <2>1. /\ InFlight' = {} /\ orphans' = orphans \cup InFlight /\ place' = "failed"
        /\ UNCHANGED message
    BY <1>7, PoolAssumption DEF TeardownAborted, Step, InFlight
  <2> QED
    BY <1>1, <2>1 DEF TrackInv
<1> QED
  BY <1>3, <1>4, <1>5, <1>6, <1>7 DEF ParentAlone

LEMMA TrackStep ==
  ASSUME TypeInv, TrackInv, [Next]_vars
  PROVE  TrackInv'
<1>1. ASSUME UNCHANGED <<owner, pc, poolVars>>
      PROVE  TrackInv'
  BY <1>1 DEF TrackInv, InFlight, poolVars, parentVars, historyVars
<1>2. ASSUME \/ \E w \in Worker : ZombieReturns(w) /\ UNCHANGED poolVars
             \/ \E t \in Task : LeaseExpires(t)
             \/ UNCHANGED vars
      PROVE  TrackInv'
  BY <1>1, <1>2
  DEF ZombieReturns, LeaseExpires, LeaseDeadlinePasses, childVars, vars, onceVars, storeVars
<1> QED
  BY <1>2, OnceKeepsTrack, LeavingKeepsTrack, TakingBackKeepsTrack, StartingKeepsTrack,
     LosingKeepsTrack, JoiningKeepsTrack, ParentAloneKeepsTrack, Steps

LEMMA TrackInit ==
  ASSUME Init
  PROVE  TrackInv
BY StoreAssumption DEF Init, OnceInit, StoreInit, TrackInv, Out, InFlight, Proc

(* When the parent has returned, no task is LEASED or RUNNING but those     *)
(* that run_once let go of without a verdict, wherever children died and    *)
(* whether their report, their death or an interrupt was noticed first;     *)
(* and after an exception those of the child it had in hand, or of the      *)
(* children an exception in the teardown kept it from.                      *)
THEOREM NothingIsLeftBehind == Spec => []NothingLeftBehind
<1>1. TypeInv /\ TrackInv /\ [Next]_vars => TrackInv'
  BY TrackStep
<1>2. ASSUME TypeInv, TrackInv
      PROVE  NothingLeftBehind
  <2>1. ASSUME place = "teardown"
        PROVE  Cardinality(orphans) <= 1
    <3>1. CASE orphans = {}
      BY <3>1, FS_EmptySet
    <3>2. ASSUME NEW w \in Worker, orphans = {w}
          PROVE  Cardinality(orphans) <= 1
      <4>1. Cardinality(orphans) = 1
        BY <3>2, FS_Singleton
      <4> QED
        BY <4>1
    <3> QED
      BY <1>2, <2>1, <3>1, <3>2 DEF TrackInv
  <2>2. ASSUME NEW t \in Task, status[t] \in {"LEASED", "RUNNING"},
               place \in {"clean", "degraded", "failed"}
        PROVE  t \in strayed \/ (place = "failed" /\ owner[t] \in orphans)
    <3>1. owner[t] \in Worker
      BY <1>2, <2>2 DEF TypeInv, OnceInv, StoreInv, StoreTypeOK
    <3>2. InFlight = {} /\ (place # "failed" => orphans = {})
      BY <1>2, <2>2 DEF TrackInv
    <3>3. t \in strayed \/ owner[t] \in orphans \/ owner[t] \in InFlight
      BY <1>2, <3>1 DEF TrackInv
    <3> QED
      BY <2>2, <3>2, <3>3
  <2> QED
    BY <2>1, <2>2 DEF NothingLeftBehind
<1> QED
  BY <1>1, <1>2, TrackInit, FrameCorrect, PTL DEF Spec

-----------------------------------------------------------------------------
(***************************************************************************)
(* The children implement TaskCustody, the parent taking back what they    *)
(* lose, under the mapping of ConcurrentDrain.                             *)
(***************************************************************************)
LEMMA MoveIsAllowed == CustodyMove => [Custody!Next]_Custody!custodyVars
<1>1. ASSUME NEW w \in Worker, NEW t \in Task, Begins(w, t)
      PROVE  Custody!Next
  BY <1>1 DEF Begins, Phases, Runners, Custody!Next, Custody!Begin
<1>2. ASSUME NEW w \in Worker, NEW t \in Task, Parts(w, t, "open")
      PROVE  Custody!Next
  BY <1>2 DEF Parts, Phases, Runners, Custody!Next, Custody!GiveBack
<1>3. ASSUME NEW w \in Worker, NEW t \in Task,
             NEW p \in {"SUCCEEDED", "FAILED", "TIMED_OUT", "DEGENERATE"}, Parts(w, t, p)
      PROVE  Custody!Next
  BY <1>3 DEF Parts, Phases, Runners, Custody!Next, Custody!Settle, Custody!Verdicts
<1>4. ASSUME NEW w \in Worker, NEW t \in Task, Loses(w, t)
      PROVE  Custody!Next
  BY <1>4 DEF Loses, Phases, Runners, Custody!Next, Custody!Lose
<1> QED
  BY <1>1, <1>2, <1>3, <1>4 DEF CustodyMove, Phases, Runners, Custody!custodyVars

(* The parent takes back a task that is nobody's.                           *)
LEMMA TakingBackIsAllowed ==
  ASSUME TypeInv, OwnedInv, CustodyInv, NEW w \in Worker, TakesBack(w)
  PROVE  [Custody!Next]_Custody!custodyVars
<1>0. /\ CustodyInv' /\ RunnersRight /\ RunnersRight' /\ NoWorker \notin Worker
      /\ pc \in [Proc -> Place] /\ Worker \subseteq Proc /\ status \in [Task -> TaskStatus]
  BY TakenBackFromNobody, RunnersAreRight, StoreAssumption
  DEF TypeInv, OnceInv, CallFrame, StoreInv, StoreTypeOK, Proc
<1>1. /\ pc[w] = "gone" /\ pc' = [pc EXCEPT ![w] = "off"] /\ UNCHANGED <<held, after>>
  BY DEF TakesBack, Goto, frameVars, callVars
<1>2. \A t \in Task : \A v \in Worker : Runs(v, t)' <=> Runs(v, t)
  BY <1>0, <1>1 DEF Runs, Underway, RefreshPC
<1>3. CASE UNCHANGED status
  BY <1>0, <1>2, <1>3, GoingOnIsAMove, MoveIsAllowed DEF PhaseOf
<1>4. ASSUME NEW t \in Task, OwnsTask(w, t), NEW s \in {"FAILED", "PENDING"},
             status' = [status EXCEPT ![t] = s]
      PROVE  Custody!Next
  <2>1. \A v \in Worker : ~Runs(v, t)
    BY <1>1, <1>4 DEF OwnsTask, Runs, OwnedInv, Underway, RefreshPC
  <2>2. RunnerOf(t) = NoWorker
    BY <1>0, <2>1 DEF RunnersRight
  <2>3. \A u \in Task : RunnerOf(u)' = RunnerOf(u)
    BY <1>0, <1>2 DEF RunnersRight
  <2>4. PhaseOf(t) \in {"open", "underway"}
    BY <1>4 DEF OwnsTask, PhaseOf
  <2>5. PICK p \in {"open", "FAILED"} : p = IF s = "PENDING" THEN "open" ELSE "FAILED"
    OBVIOUS
  <2>6. Phases' = [Phases EXCEPT ![t] = p]
    BY <1>0, <1>4, <2>5 DEF Phases, PhaseOf
  <2>7. Custody!TakeBack(t)
    BY <2>2, <2>3, <2>4, <2>6 DEF Custody!TakeBack, Phases
  <2> QED
    BY <2>7 DEF Custody!Next
<1>5. \/ UNCHANGED status
      \/ \E t \in Task : /\ OwnsTask(w, t)
                         /\ \E s \in {"FAILED", "PENDING"} : status' = [status EXCEPT ![t] = s]
  BY DEF TakesBack, ReclaimDeadWorker, storeVars
<1> QED
  BY <1>3, <1>4, <1>5

LEMMA StepIsAllowed ==
  ASSUME TypeInv, OwnedInv, CustodyInv, [Next]_vars
  PROVE  [Custody!Next]_Custody!custodyVars
<1>0. /\ OnceInv /\ CustodyInv' /\ pc \in [Proc -> Place] /\ Worker \subseteq Proc
  BY CustodyStep DEF TypeInv, OnceInv, CallFrame, Proc
<1>1. ASSUME NEW w \in Worker, RunOnceStep(w)
      PROVE  [Custody!Next]_Custody!custodyVars
  BY <1>0, <1>1, OnceIsAMove, MoveIsAllowed
<1>2. ASSUME NEW w \in Worker, NEW dest \in {"lease", "exiting", "gone", "off"}, Goto(w, dest),
             UNCHANGED storeVars,
             \A v \in Worker \ {w} : held'[v] = held[v] /\ after'[v] = after[v]
      PROVE  [Custody!Next]_Custody!custodyVars
  <2>1. \A t \in Task : ~Runs(w, t)'
    BY <1>0, <1>2 DEF Runs, Underway, Goto, RefreshPC
  <2>2. \A t \in Task : PhaseOf(t)' = PhaseOf(t)
    BY <1>2 DEF storeVars, leaseVars, PhaseOf
  <2> QED
    BY <1>0, <1>2, <2>1, <2>2, MovingAlone, StoppingIsAMove, MoveIsAllowed
<1>3. ASSUME NEW w \in Worker, PutResult(w) \/ Exit(w) \/ Die(w)
      PROVE  [Custody!Next]_Custody!custodyVars
  BY <1>2, <1>3, ChildMoves
<1>4. ASSUME NEW w \in Worker, NEW d \in Device, Spawn(w, d)
      PROVE  [Custody!Next]_Custody!custodyVars
  BY <1>2, <1>4 DEF Spawn, frameVars, callVars
<1>4a. ASSUME NEW w \in Worker, InterruptedAtStart(w) \/ InterruptedAtReclaim(w)
       PROVE  [Custody!Next]_Custody!custodyVars
  BY <1>2, <1>4a DEF InterruptedAtStart, InterruptedAtReclaim, Goto, frameVars, callVars
<1>5. CASE JoinReported
  <2>1. report.child \in Worker /\ Goto(report.child, "off")
    BY <1>5 DEF JoinReported, Step, TypeInv, PoolTypes, Goto
  <2> QED
    BY <1>2, <1>5, <2>1 DEF JoinReported, frameVars, callVars
<1>6. ASSUME UNCHANGED <<status, pc, frameVars, held>>
      PROVE  [Custody!Next]_Custody!custodyVars
  <2>1. \A t \in Task : \A v \in Worker : Runs(v, t)' <=> Runs(v, t)
    BY <1>6 DEF Runs, Underway, frameVars
  <2> QED
    BY <1>0, <1>6, <2>1, GoingOnIsAMove, MoveIsAllowed DEF PhaseOf
<1>7. ASSUME \/ ParentAlone
             \/ \E w \in Worker : ZombieReturns(w)
             \/ \E t \in Task : LeaseExpires(t)
             \/ UNCHANGED vars
      PROVE  [Custody!Next]_Custody!custodyVars
  BY <1>6, <1>7
  DEF ParentAlone, ZombieReturns, LeaseExpires, LeaseDeadlinePasses, childVars, vars, onceVars,
      storeVars, callVars
<1> QED
  BY <1>1, <1>3, <1>4, <1>4a, <1>5, <1>7, TakingBackIsAllowed, Steps

LEMMA CustodyBegins ==
  ASSUME Init
  PROVE  Custody!Init
<1>1. \A t \in Task : PhaseOf(t) = "open"
  BY DEF Init, OnceInit, StoreInit, PhaseOf
<1>2. \A w \in Worker : ~Underway(w)
  BY DEF Init, Underway, RefreshPC, Proc
<1>3. \A t \in Task : RunnerOf(t) = NoWorker
  BY <1>2 DEF RunnerOf
<1> QED
  BY <1>1, <1>3 DEF Custody!Init

(* Every behaviour of the pool is one of TaskCustody with somebody to take  *)
(* back: what the parent reclaims is nobody's at that moment, although      *)
(* nothing in the store tells a dead owner from a slow one.                 *)
THEOREM ChildrenImplementCustody == Spec => ImplementsCustody
<1>1. TypeInv /\ (OwnedInv /\ CustodyInv) /\ [Next]_vars => [Custody!Next]_Custody!custodyVars
  BY StepIsAllowed
<1> QED
  BY <1>1, CustodyBegins, CustodyHolds, FrameCorrect, PTL
  DEF Spec, ImplementsCustody, Custody!Spec
=============================================================================
