-------------------------- MODULE PoolCountsProofs --------------------------
(***************************************************************************)
(* What the concurrent drain counts, for every pool: the successes the     *)
(* parent adds up, none too many and none too few, and how often a task is *)
(* started; and, on the way, what the pool leaves of the run row.          *)
(***************************************************************************)
EXTENDS ConcurrentDrainProofs

(***************************************************************************)
(* Successes.  A child lays claim to a success from recording it to        *)
(* reporting it; every success that is claimed, reported, read or counted  *)
(* has a task of its own.                                                  *)
(***************************************************************************)
HasClaim(w) ==
  \/ pc[w] = "close" /\ outcome[w] = "ok"
  \/ pc[w] = "ok"
  \/ pc[w] \in RefreshPC /\ after[w] = "ok"

Claiming == {w \in Worker : HasClaim(w)}

Reporting == {w \in Worker : message[w] = "succeeded"}

BeingRead == IF report.says = "succeeded" THEN 1 ELSE 0

Successes == {t \in Task : status[t] = "SUCCEEDED"}

TallyInv ==
  /\ IsFiniteSet(Successes) /\ IsFiniteSet(Claiming) /\ IsFiniteSet(Reporting)
  /\ counted + Cardinality(Reporting) + Cardinality(Claiming) + BeingRead
       <= Cardinality(Successes)

(* Whatever the store does, at most one more task has succeeded after it.   *)
LEMMA OneSuccessAtMost ==
  ASSUME StoreInv, StoreStep
  PROVE  \E t : Successes' \subseteq Successes \cup {t}
<1> USE DEF Successes, StoreInv, StoreTypeOK
<1>1. ASSUME NEW w \in Worker, NEW t \in Task, LeaseNextPendingTask(w, t)
      PROVE  Successes' \subseteq Successes
  BY <1>1 DEF LeaseNextPendingTask
<1>2. ASSUME NEW t \in Task, MarkTaskRunning(t)
      PROVE  Successes' \subseteq Successes
  BY <1>2 DEF MarkTaskRunning
<1>3. ASSUME NEW t \in Task, NEW s \in Recorded, UpdateTaskStatus(t, s)
      PROVE  Successes' \subseteq Successes \cup {t}
  BY <1>3 DEF UpdateTaskStatus
<1>4. ASSUME RequeueExpiredLeases
      PROVE  Successes' \subseteq Successes
  BY <1>4 DEF RequeueExpiredLeases
<1>5. ASSUME UNCHANGED status
      PROVE  Successes' \subseteq Successes
  BY <1>5
<1>6. ASSUME NEW w \in Worker, NEW budget \in Nat, ReclaimDeadWorker(w, budget)
      PROVE  Successes' \subseteq Successes
  BY <1>6 DEF ReclaimDeadWorker, storeVars
<1> QED
  BY <1>1, <1>2, <1>3, <1>4, <1>5, <1>6
  DEF StoreStep, AppendEvent, IncrementTaskAttempts, LeaseDeadlinePasses, UpdateRunStatus,
      UpdateRunFinishedAt, storeVars, leaseVars

(* No success is taken back.                                                *)
LEMMA SuccessesStand ==
  ASSUME TypeInv, TallyInv, [Next]_vars
  PROVE  /\ IsFiniteSet(Successes') /\ Successes \subseteq Successes'
         /\ Cardinality(Successes) <= Cardinality(Successes')
<1>1. PICK t : Successes' \subseteq Successes \cup {t}
  BY StoreEffect, OneSuccessAtMost DEF TypeInv, OnceInv
<1>2. IsFiniteSet(Successes')
  BY <1>1, FS_AddElement, FS_Subset DEF TallyInv
<1>3. Successes \subseteq Successes'
  BY StoreEffect, StoreKeepsVerdicts
  DEF TypeInv, OnceInv, VerdictsStand, Successes, TerminalTask, TaskStatus, InProgress
<1> QED
  BY <1>2, <1>3, FS_Subset

(* Only recording a success makes a claim.                                  *)
LEMMA OnlyRecordingClaims ==
  ASSUME TypeInv, NEW w \in Worker, RunOnceStep(w)
  PROVE  Claiming' \subseteq Claiming \cup
                     (IF Record(w) /\ outcome[w] = "ok" THEN {w} ELSE {})
<1>0. /\ pc \in [Proc -> Place] /\ Worker \subseteq Proc /\ OnceInv
      /\ after \in [Proc -> {"lease", "prepare", "ok", "raised", "idle"}]
      /\ outcome \in [Worker -> Outcome]
  BY DEF TypeInv, OnceInv, CallFrame, Proc
<1>1. CASE RefreshStep(w)
  <2>1. UNCHANGED <<outcome, after>> /\ pc[w] \in RefreshPC
    BY <1>1, RefreshGoes DEF RefreshStep, callVars, Proc
  <2>2. PICK dest \in RefreshPC \cup {"r_error", after[w]} : Goto(w, dest)
    BY <1>1, RefreshGoes DEF RefreshStep, Proc
  <2>3. after[w] \in {"prepare", "ok", "raised"}
    BY <2>1 DEF TypeInv, OnceInv, CallFrame
  <2>4. HasClaim(w)' => HasClaim(w)
    BY <1>0, <2>1, <2>2, <2>3 DEF HasClaim, Goto, RefreshPC
  <2>5. \A v \in Worker \ {w} : HasClaim(v)' => HasClaim(v)
    BY <1>0, <2>1, <2>2 DEF HasClaim, Goto
  <2> QED
    BY <2>4, <2>5 DEF Claiming
<1>2. CASE Close(w)
  <2>1. /\ pc[w] = "close" /\ Goto(w, "r_get") /\ UNCHANGED outcome
        /\ after' = [after EXCEPT ![w] = IF outcome[w] = "ok" THEN "ok" ELSE "raised"]
    BY <1>2 DEF Close, CallRefresh, callVars
  <2>2. \A v \in Worker : HasClaim(v)' => HasClaim(v)
    BY <1>0, <2>1 DEF HasClaim, Goto
  <2> QED
    BY <2>2 DEF Claiming
<1>3. CASE Announce(w)
  <2>1. Goto(w, "r_get") /\ UNCHANGED outcome /\ after' = [after EXCEPT ![w] = "prepare"]
    BY <1>3 DEF Announce, CallRefresh, callVars
  <2>2. \A v \in Worker : HasClaim(v)' => HasClaim(v)
    BY <1>0, <2>1 DEF HasClaim, Goto
  <2> QED
    BY <2>2 DEF Claiming
<1>4. CASE Record(w)
  <2>1. Goto(w, "close") /\ UNCHANGED <<outcome, after>>
    BY <1>4 DEF Record, callVars, frameVars
  <2>2. \A v \in Worker : HasClaim(v)' => HasClaim(v) \/ (v = w /\ outcome[w] = "ok")
    BY <1>0, <2>1 DEF HasClaim, Goto, RefreshPC
  <2> QED
    BY <1>4, <2>2 DEF Claiming
<1>5. CASE ~RefreshStep(w) /\ ~Close(w) /\ ~Announce(w) /\ ~Record(w)
  <2>1. PICK dest \in OncePC \ {"close", "ok"} : Goto(w, dest)
    BY <1>5
    DEF RunOnceStep, Lease, LeaseNothing, BumpAttempts, MarkRunning, MarkRefused, Prepare,
        HandlerEnds, Execute, ExecuteTimesOut, OomBudget, RecordRefused, ArtifactFails,
        OncePC, ReturnPC
  <2>2. \A v \in Worker \ {w} : outcome'[v] = outcome[v] /\ after'[v] = after[v]
    <3>1. UNCHANGED after /\ (UNCHANGED outcome \/ \E o : outcome' = [outcome EXCEPT ![w] = o])
      BY <1>5
      DEF RunOnceStep, Lease, LeaseNothing, BumpAttempts, MarkRunning, MarkRefused, Prepare,
          HandlerEnds, Execute, ExecuteTimesOut, OomBudget, RecordRefused, ArtifactFails,
          callVars, frameVars
    <3> QED
      BY <1>0, <3>1
  <2>3. ~HasClaim(w)'
    BY <1>0, <2>1 DEF HasClaim, Goto, OncePC, ReturnPC, RefreshPC
  <2>4. \A v \in Worker \ {w} : HasClaim(v)' => HasClaim(v)
    BY <1>0, <2>1, <2>2 DEF HasClaim, Goto
  <2> QED
    BY <2>3, <2>4 DEF Claiming
<1> QED
  BY <1>1, <1>2, <1>3, <1>4, <1>5

(* A step that makes no claim and no report adds up if the parent does.     *)
LEMMA NothingNewKeepsTally ==
  ASSUME TypeInv, TallyInv, [Next]_vars, Claiming' \subseteq Claiming,
         Reporting' \subseteq Reporting, counted' \in Nat,
         counted' + BeingRead' <= counted + BeingRead
  PROVE  TallyInv'
<1>1. /\ IsFiniteSet(Claiming') /\ Cardinality(Claiming') <= Cardinality(Claiming)
      /\ IsFiniteSet(Reporting') /\ Cardinality(Reporting') <= Cardinality(Reporting)
  BY FS_Subset DEF TallyInv
<1>2. /\ {Cardinality(Claiming), Cardinality(Claiming'), Cardinality(Reporting),
          Cardinality(Reporting'), Cardinality(Successes), Cardinality(Successes')} \subseteq Nat
      /\ {BeingRead, BeingRead'} \subseteq {0, 1}
  BY <1>1, SuccessesStand, FS_CardinalityType DEF TallyInv, BeingRead
<1> QED
  BY <1>1, <1>2, SuccessesStand DEF TallyInv, TypeInv, PoolTypes

LEMMA RecordKeepsTally ==
  ASSUME TypeInv, CustodyInv, TallyInv, [Next]_vars, NEW w \in Worker, Record(w),
         outcome[w] = "ok", UNCHANGED poolVars
  PROVE  TallyInv'
<1>1. PICK t \in Task : t = held[w] /\ status[t] = "RUNNING"
  BY DEF Record, CustodyInv, Underway
<1>2. status'[t] = "SUCCEEDED"
  BY <1>1 DEF Record, UpdateTaskStatus, Verdict, TypeInv, OnceInv, StoreInv, StoreTypeOK
<1>3. t \notin Successes /\ t \in Successes'
  BY <1>1, <1>2 DEF Successes
<1>4. Cardinality(Successes \cup {t}) = Cardinality(Successes) + 1
  BY <1>3, FS_AddElement DEF TallyInv
<1>5. Cardinality(Successes) + 1 <= Cardinality(Successes')
  <2>1. Successes \cup {t} \subseteq Successes'
    BY <1>3, SuccessesStand
  <2> QED
    BY <1>4, <2>1, SuccessesStand, FS_Subset
<1>6. Claiming' \subseteq Claiming \cup {w}
  BY OnlyRecordingClaims DEF RunOnceStep
<1>7. IsFiniteSet(Claiming') /\ Cardinality(Claiming') <= Cardinality(Claiming) + 1
  <2>1. /\ IsFiniteSet(Claiming \cup {w})
        /\ Cardinality(Claiming \cup {w}) \in {Cardinality(Claiming), Cardinality(Claiming) + 1}
    BY FS_AddElement DEF TallyInv
  <2>2. IsFiniteSet(Claiming') /\ Cardinality(Claiming') <= Cardinality(Claiming \cup {w})
    BY <1>6, <2>1, FS_Subset
  <2>3. {Cardinality(Claiming), Cardinality(Claiming')} \subseteq Nat
    BY <2>2, FS_CardinalityType DEF TallyInv
  <2> QED
    BY <2>1, <2>2, <2>3
<1>8. /\ {Cardinality(Claiming), Cardinality(Claiming'), Cardinality(Reporting),
          Cardinality(Successes), Cardinality(Successes')} \subseteq Nat
      /\ BeingRead \in {0, 1}
  BY <1>7, SuccessesStand, FS_CardinalityType DEF TallyInv, BeingRead
<1>9. UNCHANGED <<counted, Reporting, BeingRead>>
  BY DEF poolVars, parentVars, Reporting, BeingRead
<1> QED
  BY <1>5, <1>7, <1>8, <1>9, SuccessesStand DEF TallyInv, TypeInv, PoolTypes

(* Its claim becomes a report.                                              *)
LEMMA ReportingKeepsTally ==
  ASSUME TypeInv, TallyInv, [Next]_vars, NEW w \in Worker, PutResult(w)
  PROVE  TallyInv'
<1>0. /\ pc \in [Proc -> Place] /\ Worker \subseteq Proc /\ counted \in Nat
      /\ message \in [Worker -> Tidings]
  BY DEF TypeInv, OnceInv, CallFrame, PoolTypes, Proc
<1>1. UNCHANGED <<counted, BeingRead>> /\ message' = [message EXCEPT ![w] = TidingsOf(w)]
  BY DEF PutResult, parentVars, BeingRead
<1>2. Goto(w, "exiting")
  BY DEF PutResult
<1>3. Claiming' \subseteq Claiming \ {w}
  <2>1. ~HasClaim(w)'
    BY <1>0, <1>2 DEF HasClaim, Goto, RefreshPC
  <2>2. \A v \in Worker \ {w} : HasClaim(v)' => HasClaim(v)
    BY <1>0, <1>2, ChildMoves DEF HasClaim, Goto
  <2> QED
    BY <2>1, <2>2 DEF Claiming
<1>4. CASE pc[w] # "ok"
  <2>1. TidingsOf(w) # "succeeded"
    BY <1>4 DEF TidingsOf
  <2>2. Reporting' \subseteq Reporting
    BY <1>0, <1>1, <2>1 DEF Reporting
  <2> QED
    BY <1>0, <1>1, <1>3, <2>2, NothingNewKeepsTally DEF BeingRead
<1>5. CASE pc[w] = "ok"
  <2>1. w \in Claiming
    BY <1>5 DEF Claiming, HasClaim
  <2>2. Reporting' \subseteq Reporting \cup {w}
    BY <1>0, <1>1 DEF Reporting
  <2>3. /\ IsFiniteSet(Claiming \ {w}) /\ IsFiniteSet(Reporting \cup {w})
        /\ Cardinality(Claiming \ {w}) = Cardinality(Claiming) - 1
        /\ Cardinality(Reporting \cup {w}) \in {Cardinality(Reporting), Cardinality(Reporting) + 1}
    BY <2>1, FS_RemoveElement, FS_AddElement DEF TallyInv
  <2>4. /\ IsFiniteSet(Claiming') /\ Cardinality(Claiming') <= Cardinality(Claiming \ {w})
        /\ IsFiniteSet(Reporting') /\ Cardinality(Reporting') <= Cardinality(Reporting \cup {w})
    BY <1>3, <2>2, <2>3, FS_Subset
  <2>5. /\ {Cardinality(Claiming), Cardinality(Claiming'), Cardinality(Reporting),
            Cardinality(Reporting'), Cardinality(Successes), Cardinality(Successes')} \subseteq Nat
        /\ BeingRead \in {0, 1}
    BY <2>4, SuccessesStand, FS_CardinalityType DEF TallyInv, BeingRead
  <2>6. Cardinality(Claiming') + Cardinality(Reporting')
          <= Cardinality(Claiming) + Cardinality(Reporting)
    BY <2>3, <2>4, <2>5
  <2> QED
    BY <1>0, <1>1, <2>4, <2>5, <2>6, SuccessesStand DEF TallyInv
<1> QED
  BY <1>4, <1>5

(* A report the parent has in hand is not in the queue any more.            *)
LEMMA ReceivingKeepsTally ==
  ASSUME TypeInv, TallyInv, [Next]_vars, NEW w \in Worker, Receive(w)
  PROVE  TallyInv'
<1>0. counted \in Nat /\ message \in [Worker -> Tidings]
  BY DEF TypeInv, PoolTypes
<1>1. /\ UNCHANGED counted /\ message' = [message EXCEPT ![w] = "none"]
      /\ report' = [child |-> w, says |-> message[w]]
  BY DEF Receive
<1>2. Claiming' = Claiming
  BY DEF Receive, Claiming, HasClaim, childVars, frameVars, callVars
<1>3. Reporting' = Reporting \ {w}
  BY <1>0, <1>1 DEF Reporting
<1>4. CASE message[w] # "succeeded"
  <2>1. BeingRead' = 0
    BY <1>1, <1>4 DEF BeingRead
  <2> QED
    BY <1>0, <1>1, <1>2, <1>3, <2>1, NothingNewKeepsTally DEF BeingRead
<1>5. CASE message[w] = "succeeded"
  <2>1. w \in Reporting
    BY <1>5 DEF Reporting
  <2>2. IsFiniteSet(Reporting') /\ Cardinality(Reporting') = Cardinality(Reporting) - 1
    BY <1>3, <2>1, FS_RemoveElement DEF TallyInv
  <2>3. /\ {Cardinality(Claiming), Cardinality(Reporting), Cardinality(Reporting'),
            Cardinality(Successes), Cardinality(Successes')} \subseteq Nat
        /\ BeingRead \in {0, 1} /\ BeingRead' \in {0, 1}
    BY <2>2, SuccessesStand, FS_CardinalityType DEF TallyInv, BeingRead
  <2> QED
    BY <1>0, <1>1, <1>2, <2>2, <2>3, SuccessesStand DEF TallyInv
<1> QED
  BY <1>4, <1>5

LEMMA TallyStep ==
  ASSUME TypeInv, CustodyInv, TallyInv, [Next]_vars
  PROVE  TallyInv'
<1>0. /\ pc \in [Proc -> Place] /\ Worker \subseteq Proc /\ counted \in Nat
  BY DEF TypeInv, OnceInv, CallFrame, PoolTypes, Proc
<1>1. ASSUME NEW w \in Worker, RunOnceStep(w), UNCHANGED poolVars
      PROVE  TallyInv'
  <2>1. UNCHANGED <<counted, Reporting, BeingRead>>
    BY <1>1 DEF poolVars, parentVars, Reporting, BeingRead
  <2>2. CASE Record(w) /\ outcome[w] = "ok"
    BY <1>1, <2>2, RecordKeepsTally
  <2>3. CASE ~(Record(w) /\ outcome[w] = "ok")
    <3>1. Claiming' \subseteq Claiming
      BY <1>1, <2>3, OnlyRecordingClaims
    <3> QED
      BY <1>0, <2>1, <3>1, NothingNewKeepsTally DEF BeingRead
  <2> QED
    BY <2>2, <2>3
<1>2. ASSUME NEW w \in Worker, NEW dest \in {"lease", "exiting", "gone", "off"}, Goto(w, dest),
             \A v \in Worker \ {w} : outcome'[v] = outcome[v] /\ after'[v] = after[v]
      PROVE  Claiming' \subseteq Claiming
  <2>1. ~HasClaim(w)'
    BY <1>0, <1>2 DEF HasClaim, Goto, RefreshPC
  <2>2. \A v \in Worker \ {w} : HasClaim(v)' => HasClaim(v)
    BY <1>0, <1>2 DEF HasClaim, Goto
  <2> QED
    BY <2>1, <2>2 DEF Claiming
<1>3. ASSUME NEW w \in Worker, Exit(w) \/ Die(w)
      PROVE  TallyInv'
  <2>1. UNCHANGED <<counted, Reporting, BeingRead>>
    BY <1>3 DEF Exit, Die, poolVars, parentVars, Reporting, BeingRead
  <2>2. Claiming' \subseteq Claiming
    BY <1>2, <1>3, ChildMoves
  <2> QED
    BY <1>0, <2>1, <2>2, NothingNewKeepsTally DEF BeingRead
<1>4. ASSUME NEW w \in Worker,
             \/ TakesBack(w) \/ \E d \in Device : Spawn(w, d)
             \/ InterruptedAtStart(w) \/ InterruptedAtReclaim(w)
      PROVE  TallyInv'
  <2>1. UNCHANGED <<counted, Reporting, BeingRead>>
    BY <1>4 DEF TakesBack, Spawn, InterruptedAtStart, InterruptedAtReclaim, Reporting, BeingRead
  <2>2. Claiming' \subseteq Claiming
    BY <1>2, <1>4
    DEF TakesBack, Spawn, InterruptedAtStart, InterruptedAtReclaim, Goto, frameVars, callVars
  <2> QED
    BY <1>0, <2>1, <2>2, NothingNewKeepsTally DEF BeingRead
<1>5. CASE JoinReported
  <2>1. report.child \in Worker /\ Goto(report.child, "off")
    BY <1>5 DEF JoinReported, Step, TypeInv, PoolTypes, Goto
  <2>2. Claiming' \subseteq Claiming
    BY <1>2, <1>5, <2>1 DEF JoinReported, frameVars, callVars
  <2>3. /\ Reporting' = Reporting
        /\ counted' = counted + BeingRead /\ BeingRead' = 0
    BY <1>5 DEF JoinReported, NoReport, Reporting, BeingRead
  <2> QED
    BY <1>0, <2>2, <2>3, NothingNewKeepsTally DEF BeingRead
<1>6. ASSUME UNCHANGED <<pc, frameVars, callVars, counted, message>>, BeingRead' <= BeingRead
      PROVE  TallyInv'
  <2>1. Claiming' = Claiming /\ Reporting' = Reporting
    BY <1>6 DEF Claiming, HasClaim, Reporting, frameVars, callVars
  <2> QED
    BY <1>0, <1>6, <2>1, NothingNewKeepsTally DEF BeingRead
<1>7. CASE ParentAlone
  <2>1. CASE \E w \in Worker : Receive(w)
    BY <2>1, ReceivingKeepsTally
  <2>2. CASE Interrupted
    <3>1. BeingRead' = 0
      BY <2>2 DEF Interrupted, NoReport, BeingRead
    <3> QED
      BY <1>6, <2>2, <3>1 DEF Interrupted, childVars, BeingRead
  <2>3. ASSUME NEW w \in Worker, InterruptedAtGet(w)
        PROVE  TallyInv'
    <3>1. UNCHANGED <<counted, BeingRead, Claiming>> /\ Reporting' \subseteq Reporting
      BY <2>3
      DEF InterruptedAtGet, TypeInv, PoolTypes, childVars, frameVars, callVars, Claiming,
          HasClaim, Reporting, BeingRead
    <3> QED
      BY <1>0, <3>1, NothingNewKeepsTally DEF BeingRead
  <2>4. CASE ~Interrupted /\ \A w \in Worker : ~Receive(w) /\ ~InterruptedAtGet(w)
    <3>1. UNCHANGED <<pc, frameVars, callVars, counted, message, report>>
      BY <1>7, <2>4
      DEF ParentAlone, StopAdmitting, QueueStaysEmpty, ReapingEnds, TornDown, Conclude,
          TeardownAborted, Reap, childVars
    <3> QED
      BY <1>6, <3>1 DEF BeingRead
  <2> QED
    BY <2>1, <2>2, <2>3, <2>4
<1>8. ASSUME \/ \E w \in Worker : ZombieReturns(w) /\ UNCHANGED poolVars
             \/ \E t \in Task : LeaseExpires(t)
             \/ UNCHANGED vars
      PROVE  TallyInv'
  <2>1. UNCHANGED <<pc, frameVars, callVars, counted, message, report>>
    BY <1>8
    DEF ZombieReturns, LeaseExpires, childVars, poolVars, parentVars, vars, onceVars
  <2> QED
    BY <1>6, <2>1 DEF BeingRead
<1> QED
  BY <1>1, <1>3, <1>4, <1>5, <1>7, <1>8, ReportingKeepsTally, Steps

LEMMA TallyInit ==
  ASSUME Init
  PROVE  TallyInv
<1>1. Successes = {} /\ Claiming = {} /\ Reporting = {} /\ BeingRead = 0 /\ counted = 0
  BY DEF Init, OnceInit, StoreInit, Successes, Claiming, HasClaim, Reporting, BeingRead,
         NoReport, RefreshPC, Proc
<1> QED
  BY <1>1, FS_EmptySet DEF TallyInv

(* No success is counted twice or without being on record: not when a child *)
(* is taken for dead although its report has arrived, nor when its task is  *)
(* run again by another, with any number of deaths.                         *)
THEOREM NoSuccessIsInvented == Spec => []NoSuccessInvented
<1>1. TypeInv /\ CustodyInv /\ TallyInv /\ [Next]_vars => TallyInv'
  BY TallyStep
<1>2. ASSUME TypeInv, TallyInv
      PROVE  NoSuccessInvented
  <2> DEFINE onTheirWay == {w \in Worker : pc[w] = "ok" \/ (pc[w] \in RefreshPC /\ after[w] = "ok")}
  <2>1. onTheirWay \subseteq Claiming
    BY DEF Claiming, HasClaim
  <2>2. IsFiniteSet(onTheirWay) /\ Cardinality(onTheirWay) <= Cardinality(Claiming)
    BY <1>2, <2>1, FS_Subset DEF TallyInv
  <2>3. /\ {Cardinality(onTheirWay), Cardinality(Claiming), Cardinality(Reporting),
            Cardinality(Successes)} \subseteq Nat
        /\ BeingRead \in {0, 1} /\ counted \in Nat
    BY <1>2, <2>2, FS_CardinalityType DEF TallyInv, TypeInv, PoolTypes, BeingRead
  <2>4. counted + (Cardinality(Reporting) + Cardinality(onTheirWay) + BeingRead)
          <= Cardinality(Successes)
    <3> HIDE DEF onTheirWay
    <3> QED
      BY <1>2, <2>2, <2>3 DEF TallyInv
  <2> QED
    BY <2>4 DEF NoSuccessInvented, SuccessesOnTheirWay, Reporting, BeingRead, Successes
<1> QED
  BY <1>1, <1>2, TallyInit, FrameCorrect, CustodyHolds, PTL DEF Spec

-----------------------------------------------------------------------------
(***************************************************************************)
(* Starts.  A task is started again for one of four reasons: its attempt   *)
(* was below the limit, its OOM requeue is logged or about to be, its      *)
(* lease was reclaimed, or the child that requeued it died before it could *)
(* log that.  The first two are told by the number of the attempt; the     *)
(* starts with any other number are in excess, and there is at most one    *)
(* more of them than there were reclaims and unlogged deaths.              *)
(***************************************************************************)
Started(t) == Logged(t, "task_running")

(* A child that has requeued its task and not yet logged it.                *)
Requeuing(w) == pc[w] = "close" /\ outcome[w] = "oom"

Owed(t) == {attempt[w] : w \in {v \in Worker : Requeuing(v) /\ held[v] = t}}

Requeues(t) == Logged(t, "task_oom_requeued") \cup Owed(t)

Retried(t) == 1..(MaxAttempts[t] - 1)

Excess(t) == Started(t) \ (Retried(t) \cup Requeues(t))

Reclaims(t) == Cardinality(Logged(t, "lease_reclaimed"))

Losses(t) == Reclaims(t) + unlogged

AtMost(S, n) == IsFiniteSet(S) /\ Cardinality(S) <= n

OomLimit == MaxOomRetries + MaxConcurrent - 1

(* The children that may be at work: those in flight and those the parent   *)
(* lost, which run on.                                                      *)
AtWork == InFlight \cup orphans

(* The budgets.  A child that found the OOM budget unspent leaves room for  *)
(* its own requeue: whoever else may still have one to log is at work.      *)
BudgetInv ==
  /\ AtMost(AtWork, MaxConcurrent)
  /\ \A t \in Task : AtMost(Requeues(t), OomLimit)
  /\ \A w \in Worker, t \in Task : pc[w] = "record" /\ outcome[w] = "oom" /\ held[w] = t =>
       AtMost(Requeues(t), OomLimit - 1)
  /\ \A t \in Task : Reclaims(t) <= MaxOomRetries
  /\ \A t \in Task : Logged(t, "lease_reclaimed") \subseteq 0..(Reclaims(t) - 1)
  /\ \A w \in Worker : pc[w] = "mark" \/ Underway(w) => attempt[w] # 0

(* The attempt a child has announced and not settled.                       *)
Current(w) == IF pc[w] = "announce" THEN {} ELSE {attempt[w]}

StartsInv ==
  /\ \A t \in Task : \E n : AtMost(Excess(t) \ {n}, Losses(t))
  /\ \A t \in Task : status[t] \in {"PENDING", "LEASED"} => AtMost(Excess(t), Losses(t))
  /\ \A w \in Worker, t \in Task : Underway(w) /\ held[w] = t =>
       AtMost(Excess(t) \ Current(w), Losses(t))

LEMMA AtMostSubset ==
  ASSUME NEW S, NEW T, T \subseteq S, NEW m \in Int, NEW n \in Int, m <= n, AtMost(S, m)
  PROVE  AtMost(T, n)
<1>1. IsFiniteSet(T) /\ Cardinality(T) <= Cardinality(S)
  BY FS_Subset DEF AtMost
<1>2. Cardinality(S) \in Nat /\ Cardinality(T) \in Nat
  BY <1>1, FS_CardinalityType DEF AtMost
<1> QED
  BY <1>1, <1>2 DEF AtMost

LEMMA AtMostAdd ==
  ASSUME NEW S, NEW x, NEW n \in Int, AtMost(S, n)
  PROVE  AtMost(S \cup {x}, n + 1)
<1>1. /\ IsFiniteSet(S \cup {x}) /\ Cardinality(S) \in Nat
      /\ Cardinality(S \cup {x}) \in {Cardinality(S), Cardinality(S) + 1}
  BY FS_AddElement, FS_CardinalityType DEF AtMost
<1> QED
  BY <1>1 DEF AtMost

LEMMA AtMostUnion ==
  ASSUME NEW S, NEW T, NEW m \in Int, NEW n \in Int, AtMost(S, m), AtMost(T, n)
  PROVE  AtMost(S \cup T, m + n)
<1>1. /\ IsFiniteSet(S \cup T)
      /\ Cardinality(S \cup T) = Cardinality(S) + Cardinality(T) - Cardinality(S \cap T)
  BY FS_Union DEF AtMost
<1>2. IsFiniteSet(S \cap T)
  BY FS_Subset DEF AtMost
<1>3. {Cardinality(S), Cardinality(T), Cardinality(S \cap T)} \subseteq Nat
  BY <1>2, FS_CardinalityType DEF AtMost
<1> QED
  BY <1>1, <1>3 DEF AtMost

(* Outside run_once children only come and go, and only a death can come    *)
(* between a requeue and its event.                                         *)
Departs(v) == pc'[v] \in {"lease", "exiting", "gone", "off"}

LEMMA OutsideTheCall ==
  ASSUME TypeInv, [Next]_vars, \A w \in Worker : ~RunOnceStep(w)
  PROVE  /\ \A v \in Worker : Stays(v) \/ (Departs(v) /\ (Requeuing(v) => Die(v)))
         /\ UNCHANGED events \/ \E w \in Worker : TakesBack(w)
         /\ UNCHANGED unlogged \/ \E w \in Worker : Die(w)
<1>0. /\ pc \in [Proc -> Place] /\ Worker \subseteq Proc /\ CallFrame
  BY DEF TypeInv, OnceInv, CallFrame, Proc
<1>1. ASSUME NEW w \in Worker, NEW dest \in {"lease", "exiting", "gone", "off"}, Goto(w, dest),
             ReturnFrame(w) \/ UNCHANGED <<frameVars, callVars>>, Requeuing(w) => Die(w)
      PROVE  \A v \in Worker : Stays(v) \/ (Departs(v) /\ (Requeuing(v) => Die(v)))
  <2>1. \A v \in Worker \ {w} : Stays(v)
    BY <1>0, <1>1 DEF ReturnFrame, frameVars, callVars, CallFrame, Goto, Stays
  <2>2. Departs(w)
    BY <1>0, <1>1 DEF Goto, Departs
  <2> QED
    BY <1>1, <2>1, <2>2
<1>2. ASSUME NEW w \in Worker, PutResult(w) \/ Exit(w)
      PROVE  /\ \A v \in Worker : Stays(v) \/ (Departs(v) /\ (Requeuing(v) => Die(v)))
             /\ UNCHANGED <<events, unlogged>>
  <2>1. ~Requeuing(w)
    BY <1>2 DEF PutResult, Exit, Requeuing, ReturnPC
  <2> QED
    BY <1>1, <1>2, <2>1 DEF PutResult, Exit, poolVars, historyVars, storeVars
<1>3. ASSUME NEW w \in Worker, Die(w)
      PROVE  /\ \A v \in Worker : Stays(v) \/ (Departs(v) /\ (Requeuing(v) => Die(v)))
             /\ UNCHANGED events
  BY <1>1, <1>3 DEF Die, storeVars
<1>4. ASSUME NEW w \in Worker, TakesBack(w)
      PROVE  /\ \A v \in Worker : Stays(v) \/ (Departs(v) /\ (Requeuing(v) => Die(v)))
             /\ UNCHANGED unlogged
  BY <1>1, <1>4 DEF TakesBack, Requeuing, historyVars
<1>5. ASSUME NEW w \in Worker, NEW d \in Device, Spawn(w, d)
      PROVE  /\ \A v \in Worker : Stays(v) \/ (Departs(v) /\ (Requeuing(v) => Die(v)))
             /\ UNCHANGED <<events, unlogged>>
  <2>1. ~Requeuing(w)
    BY <1>5 DEF Spawn, MaySpawn, NobodyRefersTo, Requeuing
  <2> QED
    BY <1>1, <1>5, <2>1 DEF Spawn, historyVars, storeVars
<1>5a. ASSUME NEW w \in Worker, InterruptedAtStart(w) \/ InterruptedAtReclaim(w)
       PROVE  /\ \A v \in Worker : Stays(v) \/ (Departs(v) /\ (Requeuing(v) => Die(v)))
              /\ UNCHANGED <<events, unlogged>>
  <2>1. ~Requeuing(w)
    BY <1>5a DEF InterruptedAtStart, InterruptedAtReclaim, MaySpawn, NobodyRefersTo, Requeuing
  <2> QED
    BY <1>1, <1>5a, <2>1 DEF InterruptedAtStart, InterruptedAtReclaim, Goto, storeVars
<1>6. ASSUME JoinReported
      PROVE  /\ \A v \in Worker : Stays(v) \/ (Departs(v) /\ (Requeuing(v) => Die(v)))
             /\ UNCHANGED <<events, unlogged>>
  <2>1. /\ report.child \in Worker /\ Goto(report.child, "off") /\ ~Requeuing(report.child)
    BY <1>6 DEF JoinReported, Step, TypeInv, PoolTypes, Goto, Requeuing
  <2> QED
    BY <1>1, <1>6, <2>1 DEF JoinReported, historyVars, storeVars
<1>7. ASSUME \/ ParentAlone
             \/ \E w \in Worker : ZombieReturns(w) /\ UNCHANGED poolVars
             \/ \E t \in Task : LeaseExpires(t)
             \/ UNCHANGED vars
      PROVE  (\A v \in Worker : Stays(v)) /\ UNCHANGED <<events, unlogged>>
  BY <1>7
  DEF ParentAlone, ZombieReturns, LeaseExpires, LeaseDeadlinePasses, childVars, poolVars,
      historyVars, vars, onceVars, storeVars, frameVars, callVars, Stays
<1> QED
  BY <1>2, <1>3, <1>4, <1>5, <1>5a, <1>6, <1>7, Steps

(* What run_once does to the counts: Announce adds a start, and recording   *)
(* an OOM a requeue; when it is logged it changes sides.                    *)
LEMMA CountsOfTheCall ==
  ASSUME TypeInv, NEW w \in Worker, RunOnceStep(w), NEW t \in Task
  PROVE  /\ Logged(t, "lease_reclaimed")' = Logged(t, "lease_reclaimed")
         /\ Started(t)' = IF Announce(w) /\ held[w] = t THEN Started(t) \cup {attempt[w]}
                          ELSE Started(t)
         /\ Requeues(t)' = IF Record(w) /\ outcome[w] = "oom" /\ held[w] = t
                           THEN Requeues(t) \cup {attempt[w]} ELSE Requeues(t)
<1>0. /\ pc \in [Proc -> Place] /\ w \in Proc /\ StoreTypeOK /\ OnceInv
      /\ pc[w] \in InCall => held[w] \in Task
      /\ \A v \in Worker \ {w} : Stays(v)
  BY OthersStay DEF TypeInv, OnceInv, StoreInv, CallFrame, Proc
<1> DEFINE othersOwed == {attempt[v] : v \in {u \in Worker \ {w} : Requeuing(u) /\ held[u] = t}}
<1>1. Owed(t) = othersOwed \cup (IF Requeuing(w) /\ held[w] = t THEN {attempt[w]} ELSE {})
  BY DEF Owed
<1>2. Owed(t)' = othersOwed \cup (IF Requeuing(w)' /\ held'[w] = t THEN {attempt'[w]} ELSE {})
  BY <1>0 DEF Owed, Stays, Requeuing
<1> HIDE DEF othersOwed
<1>3. CASE Announce(w)
  <2>1. /\ AppendEvent(held[w], "task_running", attempt[w]) /\ held[w] \in Task
        /\ pc[w] = "announce" /\ pc'[w] = "r_get"
    BY <1>0, <1>3 DEF Announce, CallRefresh, Goto, InCall, OncePC
  <2>2. \A k : Logged(t, k)' = IF t = held[w] /\ k = "task_running"
                               THEN Logged(t, k) \cup {attempt[w]} ELSE Logged(t, k)
    BY <1>0, <2>1, LogGrows
  <2>3. Owed(t)' = Owed(t)
    BY <1>1, <1>2, <2>1 DEF Requeuing
  <2>4. ~Record(w)
    BY <2>1 DEF Record
  <2> QED
    BY <1>3, <2>2, <2>3, <2>4 DEF Started, Requeues
<1>4. CASE Close(w)
  <2>1. /\ AppendEvent(held[w], VerdictEvent(w), attempt[w]) /\ held[w] \in Task
        /\ pc[w] = "close" /\ pc'[w] = "r_get"
    BY <1>0, <1>4 DEF Close, CallRefresh, Goto, InCall, OncePC
  <2>2. \A k : Logged(t, k)' = IF t = held[w] /\ k = VerdictEvent(w)
                               THEN Logged(t, k) \cup {attempt[w]} ELSE Logged(t, k)
    BY <1>0, <2>1, LogGrows
  <2>3. /\ VerdictEvent(w) \notin {"lease_reclaimed", "task_running"}
        /\ VerdictEvent(w) = "task_oom_requeued" <=> outcome[w] = "oom"
    BY DEF VerdictEvent
  <2>4. Owed(t)' = othersOwed
    BY <1>2, <2>1 DEF Requeuing
  <2>5. Owed(t) = othersOwed \cup (IF outcome[w] = "oom" /\ held[w] = t THEN {attempt[w]} ELSE {})
    BY <1>1, <2>1 DEF Requeuing
  <2>6. ~Record(w) /\ ~Announce(w)
    BY <2>1 DEF Record, Announce
  <2> QED
    BY <2>2, <2>3, <2>4, <2>5, <2>6 DEF Started, Requeues
<1>5. CASE ~Announce(w) /\ ~Close(w)
  <2>1. /\ Logged(t, "lease_reclaimed")' = Logged(t, "lease_reclaimed")
        /\ Logged(t, "task_oom_requeued")' = Logged(t, "task_oom_requeued")
        /\ Started(t)' = Started(t)
    BY <1>0, <1>5, OnceKeepsLog DEF KeepsLog, Watched, ClosingKind, Started
  <2>2. CASE Record(w)
    <3>1. /\ pc[w] = "record" /\ pc'[w] = "close" /\ UNCHANGED callVars
      BY <1>0, <2>2 DEF Record, Goto
    <3> QED
      BY <1>1, <1>2, <1>5, <2>1, <2>2, <3>1 DEF Requeuing, Requeues, callVars
  <2>3. CASE ~Record(w)
    <3>1. ~Requeuing(w)
      BY <1>0, <1>5, <2>3, RefreshCalm, RefreshGoes
      DEF RunOnceStep, Lease, LeaseNothing, BumpAttempts, MarkRunning, MarkRefused, RefreshStep,
          Prepare, HandlerEnds, Execute, ExecuteTimesOut, OomBudget, RecordRefused,
          ArtifactFails, Requeuing, RefreshPC, Proc
    <3>2. ~Requeuing(w)'
      BY <1>0, <2>3, <3>1, OnceKeepsClosing DEF KeepsClosing, Requeuing
    <3> QED
      BY <1>1, <1>2, <1>5, <2>1, <2>3, <3>1, <3>2 DEF Requeues
  <2> QED
    BY <2>2, <2>3
<1> QED
  BY <1>3, <1>4, <1>5

(* The log, when the parent takes a task back.                              *)
LEMMA ReclaimLogged ==
  ASSUME TypeInv, NEW w \in Worker, TakesBack(w), NEW t \in Task
  PROVE  /\ \A k \in Watched \ {"lease_reclaimed"} : Logged(t, k)' = Logged(t, k)
         /\ \/ /\ Logged(t, "lease_reclaimed")' = Logged(t, "lease_reclaimed")
               /\ status'[t] \in {status[t], "FAILED"}
            \/ /\ Logged(t, "lease_reclaimed")' = Logged(t, "lease_reclaimed") \cup {Reclaims(t)}
               /\ Reclaims(t) < MaxOomRetries
<1>0. StoreTypeOK /\ IsFiniteSet(Logged(t, "lease_reclaimed"))
  BY DEF TypeInv, OnceInv, StoreInv, LogFinite, EventKind
<1>1. CASE events'[t] = events[t] /\ status'[t] = status[t]
  BY <1>1 DEF Logged
<1>2. ASSUME NEW kind \in {"task_abandoned", "lease_reclaimed"},
             events' = WithEvent(t, kind, Reclaims(t))
      PROVE  /\ \A k \in Watched \ {"lease_reclaimed"} : Logged(t, k)' = Logged(t, k)
             /\ Logged(t, "lease_reclaimed")' =
                  IF kind = "lease_reclaimed" THEN Logged(t, "lease_reclaimed") \cup {Reclaims(t)}
                  ELSE Logged(t, "lease_reclaimed")
  <2>1. events'[t] = events[t] \cup {<<kind, Reclaims(t)>>}
    BY <1>0, <1>2 DEF WithEvent, StoreTypeOK
  <2>2. ASSUME NEW k, k # kind
        PROVE  Logged(t, k)' = Logged(t, k)
    <3>1. {x \in events'[t] : x[1] = k} = {x \in events[t] : x[1] = k}
      BY <2>1, <2>2
    <3> QED
      BY <3>1 DEF Logged
  <2>3. Logged(t, kind)' = Logged(t, kind) \cup {Reclaims(t)}
    <3>1. <<kind, Reclaims(t)>>[1] = kind /\ <<kind, Reclaims(t)>>[2] = Reclaims(t)
      OBVIOUS
    <3>2. {x \in events'[t] : x[1] = kind}
            = {x \in events[t] : x[1] = kind} \cup {<<kind, Reclaims(t)>>}
      BY <2>1, <3>1, Zenon
    <3>3. {e[2] : e \in {x \in events'[t] : x[1] = kind}}
            = {e[2] : e \in {x \in events[t] : x[1] = kind}} \cup {Reclaims(t)}
      BY <3>1, <3>2
    <3> QED
      BY <3>3 DEF Logged
  <2>4. "task_abandoned" \notin Watched
    BY DEF Watched, ClosingKind
  <2> QED
    BY <2>2, <2>3, <2>4
<1>3. \/ events'[t] = events[t] /\ status'[t] = status[t]
      \/ /\ status'[t] = IF ReclaimsSpent(t, MaxOomRetries) THEN "FAILED" ELSE "PENDING"
         /\ events' = WithEvent(t, IF ReclaimsSpent(t, MaxOomRetries) THEN "task_abandoned"
                                   ELSE "lease_reclaimed", Reclaims(t))
  <2>1. CASE UNCHANGED storeVars
    BY <2>1 DEF storeVars
  <2>2. ASSUME NEW u \in Task, ReclaimOf(u, MaxOomRetries)
        PROVE  \/ events'[t] = events[t] /\ status'[t] = status[t]
               \/ /\ status'[t] = IF ReclaimsSpent(t, MaxOomRetries) THEN "FAILED" ELSE "PENDING"
                  /\ events' = WithEvent(t, IF ReclaimsSpent(t, MaxOomRetries) THEN "task_abandoned"
                                            ELSE "lease_reclaimed", Reclaims(t))
    <3>1. CASE u = t
      BY <1>0, <2>2, <3>1 DEF ReclaimOf, Reclaims, StoreTypeOK
    <3>2. CASE u # t
      BY <1>0, <2>2, <3>2 DEF ReclaimOf, WithEvent, StoreTypeOK
    <3> QED
      BY <3>1, <3>2
  <2> QED
    BY <2>1, <2>2 DEF TakesBack, ReclaimDeadWorker, ReclaimOf
<1>4. Reclaims(t) \in Nat /\ MaxOomRetries \in Nat
  BY <1>0, RunOnceAssumption, FS_CardinalityType DEF Reclaims
<1>5. CASE ReclaimsSpent(t, MaxOomRetries)
  BY <1>1, <1>2, <1>3, <1>5
<1>6. CASE ~ReclaimsSpent(t, MaxOomRetries)
  BY <1>1, <1>2, <1>3, <1>4, <1>6 DEF ReclaimsSpent, Reclaims
<1> QED
  BY <1>5, <1>6

(* What all the other steps do: nothing is started, and nothing is owed     *)
(* that was not; a death may leave one requeue unlogged.                    *)
LEMMA CountsOutside ==
  ASSUME TypeInv, [Next]_vars, \A w \in Worker : ~RunOnceStep(w), NEW t \in Task
  PROVE  /\ Started(t)' = Started(t)
         /\ Requeues(t)' \subseteq Requeues(t)
         /\ \/ Requeues(t)' = Requeues(t) /\ unlogged' >= unlogged
            \/ \E n : Requeues(t) \subseteq Requeues(t)' \cup {n} /\ unlogged' = unlogged + 1
<1>0. /\ unlogged \in Nat
      /\ \A v \in Worker : Stays(v) \/ (Departs(v) /\ (Requeuing(v) => Die(v)))
  BY OutsideTheCall DEF TypeInv, PoolTypes
<1>1. \A k \in {"task_running", "task_oom_requeued"} : Logged(t, k)' = Logged(t, k)
  <2>1. CASE UNCHANGED events
    BY <2>1 DEF Logged
  <2>2. CASE \E w \in Worker : TakesBack(w)
    BY <2>2, ReclaimLogged DEF Watched, ClosingKind
  <2> QED
    BY <2>1, <2>2, OutsideTheCall
<1>2. Owed(t)' \subseteq Owed(t)
  <2>1. \A v \in Worker : Requeuing(v)' => Stays(v)
    BY <1>0 DEF Departs, Requeuing
  <2> QED
    BY <2>1 DEF Owed, Stays, Requeuing
<1>3. CASE \A v \in Worker : ~(Die(v) /\ Requeuing(v))
  <2>1. \A v \in Worker : Requeuing(v) => Stays(v)
    BY <1>0, <1>3
  <2>2. Owed(t) \subseteq Owed(t)'
    BY <2>1 DEF Owed, Stays, Requeuing
  <2>3. unlogged' = unlogged
    BY <1>3, OutsideTheCall DEF Die, Requeuing
  <2> QED
    BY <1>0, <1>1, <1>2, <2>2, <2>3 DEF Started, Requeues
<1>4. ASSUME NEW w \in Worker, Die(w), Requeuing(w)
      PROVE  \E n : Requeues(t) \subseteq Requeues(t)' \cup {n} /\ unlogged' = unlogged + 1
  <2>1. pc'[w] = "gone" /\ \A v \in Worker \ {w} : pc'[v] = pc[v]
    BY <1>4 DEF Die, Goto, TypeInv, OnceInv, CallFrame, Proc
  <2>2. \A v \in Worker \ {w} : Requeuing(v) => Stays(v)
    BY <1>0, <2>1 DEF Departs, Requeuing
  <2>3. Owed(t) \subseteq Owed(t)' \cup {attempt[w]}
    BY <2>2 DEF Owed, Stays, Requeuing
  <2>4. unlogged' = unlogged + 1
    BY <1>4 DEF Die, Requeuing
  <2> QED
    BY <1>1, <2>3, <2>4 DEF Requeues
<1> QED
  BY <1>1, <1>2, <1>3, <1>4 DEF Started, Requeues

(* Whoever is told to record an OOM has room for it.                        *)
LEMMA RoomForOne ==
  ASSUME TypeInv, TrackInv, BudgetInv, NEW w \in Worker, OomBudget(w), outcome'[w] = "oom",
         NEW t \in Task, held[w] = t
  PROVE  AtMost(Requeues(t), OomLimit - 1)
<1>0. /\ MaxOomRetries \in Nat /\ MaxConcurrent \in Nat \ {0} /\ pc[w] = "oom_count"
      /\ outcome \in [Worker -> Outcome]
  BY RunOnceAssumption, PoolAssumption DEF OomBudget, TypeInv, OnceInv, CallFrame
<1>1. AtMost(Logged(t, "task_oom_requeued"), MaxOomRetries - 1)
  <2>1. IsFiniteSet(Logged(t, "task_oom_requeued"))
    BY DEF TypeInv, OnceInv, StoreInv, LogFinite, EventKind, ClosingKind
  <2>2. ~(Cardinality(Logged(t, "task_oom_requeued")) >= MaxOomRetries)
    BY <1>0 DEF OomBudget
  <2> QED
    BY <1>0, <2>1, <2>2, FS_CardinalityType DEF AtMost
<1>2. PICK C : C = {v \in Worker : Requeuing(v) /\ held[v] = t}
  OBVIOUS
<1>3. PICK m \in Nat : m = MaxConcurrent - 1
  BY <1>0
<1>4. AtMost(C, m)
  <2>1. C \subseteq AtWork \ {w} /\ w \in AtWork
    BY <1>0, <1>2 DEF TrackInv, Requeuing, Out, AtWork
  <2>2. AtMost(AtWork \ {w}, m)
    <3>1. IsFiniteSet(AtWork) /\ Cardinality(AtWork) <= MaxConcurrent
      BY DEF BudgetInv, AtMost
    <3>2. /\ IsFiniteSet(AtWork \ {w}) /\ Cardinality(AtWork \ {w}) = Cardinality(AtWork) - 1
          /\ Cardinality(AtWork) \in Nat
      BY <2>1, <3>1, FS_RemoveElement, FS_CardinalityType
    <3>3. PICK c \in Nat : c = Cardinality(AtWork)
      BY <3>2
    <3> QED
      BY <1>0, <1>3, <3>1, <3>2, <3>3 DEF AtMost
  <2> QED
    BY <2>1, <2>2, AtMostSubset
<1>5. AtMost(Owed(t), m)
  <2> DEFINE f == [v \in C |-> attempt[v]]
  <2>1. Owed(t) = {f[v] : v \in C}
    BY <1>2 DEF Owed
  <2>2. f \in Surjection(C, Owed(t))
    BY <2>1 DEF Surjection
  <2>3. IsFiniteSet(C)
    BY <1>4 DEF AtMost
  <2> HIDE DEF f
  <2>4. IsFiniteSet(Owed(t)) /\ Cardinality(Owed(t)) <= Cardinality(C)
    BY <2>2, <2>3, FS_Surjection
  <2>5. Cardinality(C) \in Nat /\ Cardinality(Owed(t)) \in Nat
    BY <2>3, <2>4, FS_CardinalityType
  <2> QED
    BY <1>4, <2>4, <2>5 DEF AtMost
<1>6. AtMost(Requeues(t), (MaxOomRetries - 1) + m)
  BY <1>0, <1>1, <1>5, AtMostUnion DEF Requeues
<1>7. (MaxOomRetries - 1) + m = OomLimit - 1
  BY <1>0, <1>3 DEF OomLimit
<1> QED
  BY <1>6, <1>7

LEMMA AtWorkStep ==
  ASSUME TypeInv, TrackInv, BudgetInv, [Next]_vars
  PROVE  AtMost(AtWork, MaxConcurrent)'
<1>0. /\ MaxConcurrent \in Nat /\ AtMost(AtWork, MaxConcurrent)
      /\ device \in [Worker -> Device \cup {NoDevice}] /\ ceiling \in 1..MaxConcurrent
      /\ unchecked \subseteq InFlight
  BY PoolAssumption DEF BudgetInv, TypeInv, PoolTypes
<1>1. ASSUME NEW w \in Worker, InterruptedAtStart(w) \/ \E d \in Device : Spawn(w, d)
      PROVE  AtMost(AtWork, MaxConcurrent)'
  <2>1. /\ Cardinality(InFlight) < ceiling /\ AtWork = InFlight
        /\ AtWork' \subseteq AtWork \cup {w}
    BY <1>0, <1>1
    DEF Spawn, InterruptedAtStart, MaySpawn, TrackInv, AtWork, InFlight, historyVars
  <2>2. PICK m \in Int : m = MaxConcurrent - 1
    BY <1>0
  <2>3. AtMost(AtWork, m)
    BY <1>0, <2>1, <2>2, FS_CardinalityType DEF AtMost
  <2>4. AtMost(AtWork \cup {w}, MaxConcurrent)
    <3>1. AtMost(AtWork \cup {w}, m + 1)
      BY <2>3, AtMostAdd
    <3>2. m + 1 = MaxConcurrent
      BY <1>0, <2>2
    <3> QED
      BY <3>1, <3>2
  <2>5. AtMost(AtWork', MaxConcurrent)
    BY <1>0, <2>1, <2>4, AtMostSubset
  <2> QED
    BY <2>5 DEF AtMost
<1>2. CASE \A w \in Worker : ~InterruptedAtStart(w) /\ \A d \in Device : ~Spawn(w, d)
  <2>1. ASSUME \/ TeardownAborted \/ \E w \in Worker : InterruptedAtReclaim(w)
        PROVE  AtWork' \subseteq AtWork
    BY <1>0, <2>1, PoolAssumption DEF TeardownAborted, InterruptedAtReclaim, AtWork, InFlight
  <2>2. ASSUME ~TeardownAborted, \A w \in Worker : ~InterruptedAtReclaim(w)
        PROVE  InFlight' \subseteq InFlight /\ orphans' = orphans
    BY <1>0, <1>2, <2>2, Steps
    DEF InFlight, PutResult, Exit, Die, TakesBack, ParentAlone, StopAdmitting, QueueStaysEmpty,
        ReapingEnds, Interrupted, TornDown, Conclude, Receive, InterruptedAtGet, Reap,
        JoinReported, LeaseExpires, poolVars, parentVars, historyVars, vars
  <2>3. AtWork' \subseteq AtWork
    BY <2>1, <2>2 DEF AtWork
  <2>4. AtMost(AtWork', MaxConcurrent)
    BY <1>0, <2>3, AtMostSubset
  <2> QED
    BY <2>4 DEF AtMost
<1> QED
  BY <1>1, <1>2

(* Reclaims are numbered, so each of them counts.                           *)
LEMMA ReclaimsCount ==
  ASSUME TypeInv, BudgetInv, [Next]_vars, NEW t \in Task
  PROVE  /\ Reclaims(t)' <= MaxOomRetries /\ Reclaims(t)' \in Nat
         /\ Logged(t, "lease_reclaimed")' \subseteq 0..(Reclaims(t)' - 1)
         /\ \/ Reclaims(t)' = Reclaims(t)
            \/ Reclaims(t)' = Reclaims(t) + 1 /\ \A w \in Worker : ~RunOnceStep(w)
         /\ \A w \in Worker : TakesBack(w) =>
              Reclaims(t)' = Reclaims(t) + 1 \/ status'[t] \in {status[t], "FAILED"}
<1> DEFINE L == Logged(t, "lease_reclaimed")
           G == /\ Reclaims(t)' <= MaxOomRetries /\ Reclaims(t)' \in Nat
                /\ L' \subseteq 0..(Reclaims(t)' - 1)
<1>0. /\ MaxOomRetries \in Nat /\ Reclaims(t) <= MaxOomRetries
      /\ L \subseteq 0..(Reclaims(t) - 1) /\ IsFiniteSet(L) /\ Reclaims(t) \in Nat
  BY RunOnceAssumption, FS_CardinalityType
  DEF BudgetInv, TypeInv, OnceInv, StoreInv, LogFinite, EventKind, Reclaims
<1>1. ASSUME L' = L
      PROVE  G /\ Reclaims(t)' = Reclaims(t)
  <2>1. Reclaims(t)' = Reclaims(t)
    BY <1>1 DEF Reclaims
  <2> QED
    BY <1>0, <1>1, <2>1
<1>2. ASSUME L' = L \cup {Reclaims(t)}, Reclaims(t) < MaxOomRetries
      PROVE  G /\ Reclaims(t)' = Reclaims(t) + 1
  <2>1. PICK r \in Nat : r = Reclaims(t)
    BY <1>0
  <2>2. r \notin L
    BY <1>0, <2>1
  <2>3. Cardinality(L \cup {r}) = r + 1
    BY <1>0, <2>1, <2>2, FS_AddElement DEF Reclaims
  <2>4. Reclaims(t)' = r + 1
    BY <1>2, <2>1, <2>3 DEF Reclaims
  <2>5. L' \subseteq 0..r
    BY <1>0, <1>2, <2>1
  <2> QED
    BY <1>0, <1>2, <2>1, <2>4, <2>5
<1>3. \A w \in Worker : TakesBack(w) =>
        \/ L' = L /\ status'[t] \in {status[t], "FAILED"}
        \/ L' = L \cup {Reclaims(t)} /\ Reclaims(t) < MaxOomRetries
  BY ReclaimLogged
<1>4. \A w \in Worker : TakesBack(w) =>
        Reclaims(t)' = Reclaims(t) + 1 \/ status'[t] \in {status[t], "FAILED"}
  BY <1>2, <1>3
<1>5. CASE L' = L
  BY <1>1, <1>4, <1>5
<1>6. CASE L' # L
  <2>1. \A w \in Worker : ~RunOnceStep(w)
    BY <1>6, CountsOfTheCall
  <2>2. PICK w \in Worker : TakesBack(w)
    BY <1>6, <2>1, OutsideTheCall DEF Logged
  <2> QED
    BY <1>2, <1>3, <1>4, <1>6, <2>1, <2>2
<1> QED
  BY <1>5, <1>6

(* An attempt that is underway was counted.                                 *)
LEMMA AttemptsCounted ==
  ASSUME TypeInv, BudgetInv, [Next]_vars
  PROVE  \A v \in Worker : pc'[v] = "mark" \/ Underway(v)' => attempt'[v] # 0
<1>0. /\ pc \in [Proc -> Place] /\ Worker \subseteq Proc /\ attempts \in [Task -> Nat] /\ OnceInv
      /\ attempt \in [Worker -> Nat] /\ \A v \in Worker : pc[v] \in InCall => held[v] \in Task
      /\ after \in [Proc -> {"lease", "prepare", "ok", "raised", "idle"}]
  BY DEF TypeInv, OnceInv, CallFrame, StoreInv, StoreTypeOK, Proc
<1>1. ASSUME NEW v \in Worker, Stays(v), pc'[v] = "mark" \/ Underway(v)'
      PROVE  attempt'[v] # 0
  BY <1>1 DEF BudgetInv, Stays, Underway
<1>2. ASSUME NEW w \in Worker, RunOnceStep(w), pc'[w] = "mark" \/ Underway(w)'
      PROVE  attempt'[w] # 0
  <2>1. CASE BumpAttempts(w)
    <3>1. held[w] \in Task
      BY <1>0, <2>1 DEF BumpAttempts, InCall, OncePC
    <3> QED
      BY <1>0, <2>1, <3>1 DEF BumpAttempts
  <2>2. CASE Announce(w)
    <3>1. Underway(w) /\ attempt' = attempt
      BY <2>2 DEF Announce, Underway, callVars
    <3> QED
      BY <3>1 DEF BudgetInv
  <2>3. CASE Close(w)
    <3>1. pc'[w] = "r_get" /\ after'[w] # "prepare"
      BY <1>0, <2>3 DEF Close, CallRefresh, Goto
    <3> QED
      BY <1>2, <3>1 DEF Underway
  <2>4. CASE ~BumpAttempts(w) /\ ~Announce(w) /\ ~Close(w)
    <3>1. attempt'[w] = attempt[w] /\ Counting(w)
      BY <1>0, <1>2, <2>4, OnceKeepsAttempts DEF KeepsAttempts, Counting
    <3>2. pc[w] # "close"
      BY <1>0, <1>2, <2>4, RefreshGoes
      DEF RunOnceStep, Lease, LeaseNothing, BumpAttempts, MarkRunning, MarkRefused, RefreshStep,
          Prepare, HandlerEnds, Execute, ExecuteTimesOut, OomBudget, Record, RecordRefused,
          ArtifactFails, RefreshPC, Goto, Underway, Proc
    <3> QED
      BY <3>1, <3>2 DEF BudgetInv, Counting
  <2> QED
    BY <2>1, <2>2, <2>3, <2>4
<1>3. CASE \E w \in Worker : RunOnceStep(w)
  BY <1>0, <1>1, <1>2, <1>3, OthersStay
<1>4. CASE \A w \in Worker : ~RunOnceStep(w)
  <2>1. \A v \in Worker : Departs(v) => ~(pc'[v] = "mark" \/ Underway(v)')
    BY DEF Departs, Underway, RefreshPC
  <2> QED
    BY <1>1, <1>4, <2>1, OutsideTheCall
<1> QED
  BY <1>3, <1>4

LEMMA BudgetStep ==
  ASSUME TypeInv, TrackInv, CustodyInv, BudgetInv, [Next]_vars
  PROVE  BudgetInv'
<1>0. /\ OomLimit \in Int /\ pc \in [Proc -> Place] /\ Worker \subseteq Proc /\ OnceInv
      /\ outcome \in [Worker -> Outcome]
      /\ after \in [Proc -> {"lease", "prepare", "ok", "raised", "idle"}]
  BY RunOnceAssumption, PoolAssumption DEF OomLimit, TypeInv, OnceInv, CallFrame, Proc
<1>1. ASSUME NEW v \in Worker, NEW t \in Task, Stays(v), pc'[v] = "record", outcome'[v] = "oom",
             held'[v] = t, Requeues(t)' \subseteq Requeues(t)
      PROVE  AtMost(Requeues(t), OomLimit - 1)'
  <2>1. AtMost(Requeues(t), OomLimit - 1)
    BY <1>1 DEF BudgetInv, Stays
  <2>2. AtMost(Requeues(t)', OomLimit - 1)
    BY <1>0, <1>1, <2>1, AtMostSubset
  <2> QED
    BY <2>2 DEF AtMost, OomLimit
<1>2. ASSUME NEW t \in Task, Requeues(t)' \subseteq Requeues(t)
      PROVE  AtMost(Requeues(t), OomLimit)'
  <2>1. AtMost(Requeues(t)', OomLimit)
    BY <1>0, <1>2, AtMostSubset DEF BudgetInv
  <2> QED
    BY <2>1 DEF AtMost, OomLimit
<1>3. ASSUME NEW w \in Worker, RunOnceStep(w), NEW t \in Task
      PROVE  /\ AtMost(Requeues(t), OomLimit)'
             /\ \A v \in Worker : pc'[v] = "record" /\ outcome'[v] = "oom" /\ held'[v] = t =>
                  AtMost(Requeues(t), OomLimit - 1)'
  <2>0. \A v \in Worker \ {w} : Stays(v)
    BY <1>0, <1>3, OthersStay
  <2>1. CASE Record(w) /\ outcome[w] = "oom" /\ held[w] = t
    <3>1. pc[w] = "record" /\ pc'[w] = "close" /\ Requeues(t)' = Requeues(t) \cup {attempt[w]}
      BY <1>0, <1>3, <2>1, CountsOfTheCall DEF Record, Goto
    <3>2. AtMost(Requeues(t), OomLimit - 1)
      BY <2>1, <3>1 DEF BudgetInv
    <3>3. PICK m \in Int : m = OomLimit - 1
      BY <1>0
    <3>4. AtMost(Requeues(t) \cup {attempt[w]}, OomLimit)
      <4>1. AtMost(Requeues(t), m)
        BY <3>2, <3>3
      <4>2. AtMost(Requeues(t) \cup {attempt[w]}, m + 1)
        BY <4>1, AtMostAdd
      <4>3. m + 1 = OomLimit
        BY <1>0, <3>3
      <4> QED
        BY <4>2, <4>3
    <3>5. AtMost(Requeues(t), OomLimit)'
      BY <3>1, <3>4 DEF AtMost, OomLimit
    <3>6. \A v \in Worker : ~(pc'[v] = "record" /\ held'[v] = t)
      BY <2>0, <2>1, <3>1 DEF Stays, CustodyInv, Underway
    <3> QED
      BY <3>5, <3>6
  <2>2. CASE ~(Record(w) /\ outcome[w] = "oom" /\ held[w] = t)
    <3>1. Requeues(t)' = Requeues(t)
      BY <1>3, <2>2, CountsOfTheCall
    <3>2. ASSUME pc'[w] = "record", outcome'[w] = "oom", held'[w] = t
          PROVE  AtMost(Requeues(t), OomLimit - 1)'
      <4>1. OomBudget(w)
        <5>1. ~RefreshStep(w)
          BY <1>0, <3>2, RefreshGoes
          DEF RefreshStep, RefreshPC, Goto, TypeInv, OnceInv, CallFrame, Proc
        <5>2. ~HandlerEnds(w)
          <6>1. SUFFICES ASSUME HandlerEnds(w)
                         PROVE  FALSE
            OBVIOUS
          <6>2. CASE ExecuteTimesOut(w)
            BY <1>0, <3>2, <6>2 DEF ExecuteTimesOut
          <6>3. ASSUME NEW o \in HandlerOutcome, Execute(w, o)
                PROVE  FALSE
            <7>1. o = "oom" /\ MaxOomRetries # 0
              BY <1>0, <3>2, <6>3 DEF Execute
            <7>2. pc'[w] = "oom_count"
              BY <1>0, <6>3, <7>1, RunOnceAssumption DEF Execute, Goto
            <7> QED
              BY <3>2, <7>2
          <6> QED
            BY <6>1, <6>2, <6>3 DEF HandlerEnds
        <5>3. ~(Lease(w) \/ LeaseNothing(w) \/ BumpAttempts(w) \/ MarkRunning(w) \/ MarkRefused(w)
                \/ Announce(w) \/ Prepare(w) \/ Record(w) \/ RecordRefused(w) \/ ArtifactFails(w)
                \/ Close(w))
          BY <1>0, <3>2
          DEF Lease, LeaseNothing, BumpAttempts, MarkRunning, MarkRefused, Announce, CallRefresh,
              Prepare, Record, RecordRefused, ArtifactFails, Close, Goto
        <5> QED
          BY <1>3, <5>1, <5>2, <5>3 DEF RunOnceStep
      <4>2. held[w] = t
        BY <3>2, <4>1 DEF OomBudget
      <4>3. AtMost(Requeues(t), OomLimit - 1)
        BY <3>2, <4>1, <4>2, RoomForOne
      <4> QED
        BY <3>1, <4>3 DEF AtMost, OomLimit
    <3> QED
      BY <1>1, <1>2, <2>0, <3>1, <3>2
  <2> QED
    BY <2>1, <2>2
<1>4. ASSUME \A w \in Worker : ~RunOnceStep(w), NEW t \in Task
      PROVE  /\ AtMost(Requeues(t), OomLimit)'
             /\ \A v \in Worker : pc'[v] = "record" /\ outcome'[v] = "oom" /\ held'[v] = t =>
                  AtMost(Requeues(t), OomLimit - 1)'
  <2>1. Requeues(t)' \subseteq Requeues(t)
    BY <1>4, CountsOutside
  <2>2. \A v \in Worker : pc'[v] = "record" => Stays(v)
    BY <1>4, OutsideTheCall DEF Departs
  <2> QED
    BY <1>1, <1>2, <2>1, <2>2
<1> QED
  BY <1>3, <1>4, AtWorkStep, ReclaimsCount, AttemptsCounted DEF BudgetInv

(* What is within its bound stays so as long as every element it gains is   *)
(* allowed for.                                                             *)
LEMMA StillAtMost ==
  ASSUME NEW S, NEW T, NEW m \in Int, NEW n \in Int, AtMost(S, m),
         \/ T \subseteq S /\ m <= n
         \/ \E x : T \subseteq S \cup {x} /\ m + 1 <= n
  PROVE  AtMost(T, n)
<1>1. CASE T \subseteq S /\ m <= n
  BY <1>1, AtMostSubset
<1>2. ASSUME NEW x, T \subseteq S \cup {x}, m + 1 <= n
      PROVE  AtMost(T, n)
  <2>1. AtMost(S \cup {x}, m + 1)
    BY AtMostAdd
  <2>2. PICK k \in Int : k = m + 1
    OBVIOUS
  <2> QED
    BY <1>2, <2>1, <2>2, AtMostSubset
<1> QED
  BY <1>1, <1>2

(* Nothing that was lost is found again.                                    *)
LEMMA LossesGrow ==
  ASSUME TypeInv, BudgetInv, [Next]_vars, NEW t \in Task
  PROVE  /\ unlogged \in Nat /\ unlogged' \in Nat /\ unlogged' >= unlogged
         /\ Reclaims(t) \in Nat /\ Reclaims(t)' \in Nat /\ Reclaims(t)' >= Reclaims(t)
         /\ Losses(t) \in Nat /\ Losses(t)' \in Nat /\ Losses(t)' >= Losses(t)
<1>1. Reclaims(t) \in Nat
  BY FS_CardinalityType DEF TypeInv, OnceInv, StoreInv, LogFinite, EventKind, Reclaims
<1>2. Reclaims(t)' \in Nat /\ Reclaims(t)' >= Reclaims(t)
  BY <1>1, ReclaimsCount
<1>3. unlogged \in Nat /\ unlogged' \in Nat
  BY PoolTypesKept DEF TypeInv, PoolTypes
<1>4. unlogged' >= unlogged
  BY <1>3, Steps
  DEF PutResult, Exit, Die, TakesBack, Spawn, InterruptedAtStart, InterruptedAtReclaim,
      ParentAlone, JoinReported, LeaseExpires, poolVars, historyVars, vars
<1> QED
  BY <1>1, <1>2, <1>3, <1>4 DEF Losses

(* What happens to the starts in excess when the task is not started.       *)
LEMMA NoStart ==
  ASSUME TypeInv, BudgetInv, [Next]_vars, NEW t \in Task,
         \A w \in Worker : ~(Announce(w) /\ held[w] = t)
  PROVE  \A X : AtMost(Excess(t) \ X, Losses(t)) => AtMost(Excess(t)' \ X, Losses(t)')
<1>0. /\ unlogged \in Nat /\ unlogged' \in Nat /\ Reclaims(t) \in Nat /\ Reclaims(t)' \in Nat
      /\ Losses(t) \in Nat /\ Losses(t)' \in Nat
      /\ Losses(t)' >= Losses(t) /\ Reclaims(t)' >= Reclaims(t)
  BY LossesGrow
<1>1. CASE \E w \in Worker : RunOnceStep(w)
  <2>1. /\ Started(t)' = Started(t) /\ Requeues(t) \subseteq Requeues(t)'
    BY <1>1, CountsOfTheCall
  <2>2. Excess(t)' \subseteq Excess(t)
    BY <2>1 DEF Excess, Retried
  <2>3. \A X : Excess(t)' \ X \subseteq Excess(t) \ X
    BY <2>2
  <2> QED
    BY <1>0, <2>3, StillAtMost
<1>2. CASE \A w \in Worker : ~RunOnceStep(w)
  <2>1. /\ Started(t)' = Started(t)
        /\ \/ Requeues(t)' = Requeues(t) /\ unlogged' >= unlogged
           \/ \E n : Requeues(t) \subseteq Requeues(t)' \cup {n} /\ unlogged' = unlogged + 1
    BY <1>2, CountsOutside
  <2>2. \/ Excess(t)' \subseteq Excess(t) /\ Losses(t) <= Losses(t)'
        \/ \E n : Excess(t)' \subseteq Excess(t) \cup {n} /\ Losses(t) + 1 <= Losses(t)'
    BY <1>0, <2>1 DEF Losses, Excess, Retried
  <2>3. \A X : \/ Excess(t)' \ X \subseteq Excess(t) \ X /\ Losses(t) <= Losses(t)'
               \/ \E n : /\ Excess(t)' \ X \subseteq (Excess(t) \ X) \cup {n}
                         /\ Losses(t) + 1 <= Losses(t)'
    BY <2>2
  <2> QED
    BY <1>0, <2>3, StillAtMost
<1> QED
  BY <1>1, <1>2

(* A task is opened again by a verdict that says so, or by a reclaim.       *)
LEMMA Reopened ==
  ASSUME TypeInv, [Next]_vars, NEW t \in Task, status[t] \notin {"PENDING", "LEASED"},
         status'[t] \in {"PENDING", "LEASED"}
  PROVE  \/ \E w \in Worker : Record(w) /\ held[w] = t /\ Verdict(w) = "PENDING"
         \/ \E w \in Worker : TakesBack(w)
<1>0. status \in [Task -> TaskStatus] /\ OnceInv
  BY DEF TypeInv, OnceInv, StoreInv, StoreTypeOK
<1>1. ASSUME NEW w \in Worker, RunOnceStep(w)
      PROVE  Record(w) /\ held[w] = t /\ Verdict(w) = "PENDING"
  <2>1. CASE RefreshStep(w)
    BY <1>0, <2>1, RefreshCalm
  <2>2. CASE Lease(w)
    BY <1>0, <2>2 DEF Lease, LeaseNextPendingTask, Leaseable, LeaseRanOut
  <2>3. CASE MarkRunning(w)
    BY <1>0, <2>3 DEF MarkRunning, MarkTaskRunning
  <2>4. CASE Record(w)
    <3>1. status' = [status EXCEPT ![held[w]] = Verdict(w)] /\ Verdict(w) # "LEASED"
      BY <2>4 DEF Record, UpdateTaskStatus, Verdict
    <3> QED
      BY <1>0, <2>4, <3>1
  <2> QED
    BY <1>0, <1>1, <2>1, <2>2, <2>3, <2>4
    DEF RunOnceStep, LeaseNothing, BumpAttempts, IncrementTaskAttempts, MarkRefused, Announce,
        AppendEvent, Prepare, HandlerEnds, Execute, ExecuteTimesOut, OomBudget, RecordRefused,
        ArtifactFails, Close, storeVars, leaseVars
<1>2. CASE \A w \in Worker : ~RunOnceStep(w) /\ ~TakesBack(w)
  <2>1. UNCHANGED status
    BY <1>2, Steps
    DEF PutResult, Exit, Die, Spawn, InterruptedAtStart, InterruptedAtReclaim, ParentAlone,
        JoinReported, ZombieReturns, LeaseExpires, LeaseDeadlinePasses, storeVars, onceVars, vars
  <2> QED
    BY <2>1
<1> QED
  BY <1>1, <1>2

(* An attempt gets underway by being marked, and keeps its number.          *)
LEMMA Begun ==
  ASSUME TypeInv, [Next]_vars, NEW v \in Worker, Underway(v)'
  PROVE  \/ MarkRunning(v) /\ pc'[v] = "announce" /\ held'[v] = held[v]
         \/ /\ Underway(v) /\ held'[v] = held[v] /\ attempt'[v] = attempt[v]
            /\ pc'[v] = "announce" => pc[v] = "announce"
<1>0. OnceInv /\ pc \in [Proc -> Place] /\ Worker \subseteq Proc
  BY DEF TypeInv, OnceInv, CallFrame, Proc
<1>1. CASE Stays(v)
  BY <1>1 DEF Stays, Underway
<1>2. CASE RunOnceStep(v) /\ ~MarkRunning(v)
  <2>1. pc'[v] # "announce"
    <3>1. CASE RefreshStep(v)
      BY <1>0, <3>1, RefreshCalm
    <3>2. CASE ~RefreshStep(v)
      BY <1>0, <1>2, <3>2
      DEF RunOnceStep, Lease, LeaseNothing, BumpAttempts, MarkRefused, Announce, CallRefresh,
          Prepare, HandlerEnds, Execute, ExecuteTimesOut, OomBudget, Record, RecordRefused,
          ArtifactFails, Close, Goto
    <3> QED
      BY <3>1, <3>2
  <2>2. Runs(v, held'[v])
    <3>1. held'[v] \in Task
      BY FramesKept DEF CallFrame, Underway, InCall, OncePC, RefreshPC
    <3>2. PICK u \in Task : u = held'[v]
      BY <3>1
    <3>3. Runs(v, u)'
      BY <3>2 DEF Runs
    <3> QED
      BY <1>0, <1>2, <3>2, <3>3, OnlyMarkBegins
  <2>3. Underway(v) /\ held'[v] = held[v]
    BY <2>2 DEF Runs
  <2>4. attempt'[v] = attempt[v]
    BY <1>0, <1>2, <2>3
    DEF Underway, RunOnceStep, Lease, LeaseNothing, BumpAttempts, MarkRefused, Announce,
        RefreshStep, Prepare, HandlerEnds, Execute, ExecuteTimesOut, OomBudget, Record,
        RecordRefused, ArtifactFails, Close, callVars, RefreshPC
  <2> QED
    BY <2>1, <2>3, <2>4
<1>3. CASE MarkRunning(v)
  BY <1>0, <1>3 DEF MarkRunning, Goto, callVars
<1>4. ASSUME NEW w \in Worker, w # v, RunOnceStep(w)
      PROVE  Stays(v)
  BY <1>0, <1>4, OthersStay
<1>5. CASE \A w \in Worker : ~RunOnceStep(w)
  <2>1. ~Departs(v)
    BY DEF Departs, Underway, RefreshPC
  <2> QED
    BY <1>1, <1>5, <2>1, OutsideTheCall
<1> QED
  BY <1>1, <1>2, <1>3, <1>4, <1>5

(* Recording a verdict that opens the task again excuses its attempt: it is *)
(* a retry, or a requeue.                                                   *)
LEMMA OpeningExcuses ==
  ASSUME TypeInv, BudgetInv, StartsInv, [Next]_vars, NEW w \in Worker, NEW t \in Task,
         Record(w), held[w] = t, Verdict(w) = "PENDING"
  PROVE  AtMost(Excess(t)', Losses(t)')
<1>0. /\ pc[w] = "record" /\ RunOnceStep(w) /\ attempt[w] \in Nat /\ attempt[w] # 0
      /\ Losses(t) \in Nat /\ Losses(t)' \in Nat /\ Losses(t)' >= Losses(t)
      /\ MaxAttempts[t] \in Nat
  BY LossesGrow, RunOnceAssumption
  DEF Record, RunOnceStep, TypeInv, OnceInv, CallFrame, BudgetInv, Underway
<1>1. AtMost(Excess(t) \ {attempt[w]}, Losses(t))
  BY <1>0 DEF StartsInv, Underway, Current
<1>2. /\ Started(t)' = Started(t)
      /\ Requeues(t)' = IF outcome[w] = "oom" THEN Requeues(t) \cup {attempt[w]} ELSE Requeues(t)
  BY <1>0, CountsOfTheCall DEF Announce
<1>3. outcome[w] = "oom" \/ attempt[w] \in Retried(t)
  <2>1. outcome[w] = "oom" \/ attempt[w] < MaxAttempts[t]
    BY DEF Verdict, RetriesLeft
  <2> QED
    BY <1>0, <2>1 DEF Retried
<1>4. Excess(t)' \subseteq Excess(t) \ {attempt[w]}
  BY <1>2, <1>3 DEF Excess, Retried
<1> QED
  BY <1>0, <1>1, <1>4, AtMostSubset

(* A reclaim allows for one start.                                          *)
LEMMA ReclaimAllows ==
  ASSUME TypeInv, BudgetInv, StartsInv, [Next]_vars, NEW w \in Worker, TakesBack(w),
         NEW t \in Task, Reclaims(t)' = Reclaims(t) + 1
  PROVE  AtMost(Excess(t)', Losses(t)')
<1>0. /\ Losses(t) \in Nat /\ Losses(t)' \in Nat /\ unlogged \in Nat /\ Reclaims(t) \in Nat
  BY LossesGrow
<1>1. Losses(t)' = Losses(t) + 1 /\ ~Requeuing(w)
  BY <1>0 DEF TakesBack, historyVars, Losses, Requeuing
<1>2. \A v \in Worker : ~RunOnceStep(v)
  BY <1>0, ReclaimsCount
<1>3. Excess(t)' \subseteq Excess(t)
  BY <1>0, <1>2, CountsOutside DEF TakesBack, historyVars, Excess, Retried
<1>4. PICK n : AtMost(Excess(t) \ {n}, Losses(t))
  BY DEF StartsInv
<1>5. Excess(t)' \subseteq (Excess(t) \ {n}) \cup {n}
  BY <1>3
<1> QED
  BY <1>0, <1>1, <1>4, <1>5, StillAtMost

(* A start adds the attempt that is announced.                              *)
LEMMA AnnouncingStarts ==
  ASSUME TypeInv, BudgetInv, StartsInv, [Next]_vars, NEW w \in Worker, NEW t \in Task,
         Announce(w), held[w] = t
  PROVE  AtMost(Excess(t)' \ {attempt[w]}, Losses(t)')
<1>0. /\ pc[w] = "announce" /\ RunOnceStep(w)
      /\ Losses(t) \in Nat /\ Losses(t)' \in Nat /\ Losses(t)' >= Losses(t)
  BY LossesGrow DEF Announce, RunOnceStep
<1>1. AtMost(Excess(t) \ {}, Losses(t))
  BY <1>0 DEF StartsInv, Underway, Current
<1>2. Started(t)' = Started(t) \cup {attempt[w]} /\ Requeues(t)' = Requeues(t)
  BY <1>0, CountsOfTheCall DEF Record
<1>3. Excess(t)' \ {attempt[w]} \subseteq Excess(t) \ {}
  BY <1>2 DEF Excess, Retried
<1> QED
  BY <1>0, <1>1, <1>3, AtMostSubset

LEMMA StartsStep ==
  ASSUME TypeInv, CustodyInv, BudgetInv, StartsInv, [Next]_vars, NEW t \in Task
  PROVE  /\ \E n : AtMost(Excess(t)' \ {n}, Losses(t)')
         /\ status'[t] \in {"PENDING", "LEASED"} => AtMost(Excess(t)', Losses(t)')
         /\ \A v \in Worker : Underway(v)' /\ held'[v] = t =>
              AtMost(Excess(t)' \ Current(v)', Losses(t)')
<1>0. /\ Losses(t) \in Nat /\ Losses(t)' \in Nat
      /\ \A w \in Worker : Announce(w) /\ held[w] = t => Underway(w) /\ status[t] = "RUNNING"
  BY LossesGrow DEF Announce, Underway, CustodyInv
<1>1. \E n : AtMost(Excess(t)' \ {n}, Losses(t)')
  <2>1. CASE \E w \in Worker : Announce(w) /\ held[w] = t
    BY <2>1, AnnouncingStarts
  <2>2. CASE \A w \in Worker : ~(Announce(w) /\ held[w] = t)
    BY <2>2, NoStart DEF StartsInv
  <2> QED
    BY <2>1, <2>2
<1>2. ASSUME status[t] \in {"PENDING", "LEASED"}
      PROVE  AtMost(Excess(t)', Losses(t)')
  <2>1. AtMost(Excess(t) \ {}, Losses(t))
    BY <1>2 DEF StartsInv
  <2>2. AtMost(Excess(t)' \ {}, Losses(t)')
    BY <1>0, <1>2, <2>1, NoStart
  <2> QED
    BY <2>2
<1>3. ASSUME status'[t] \in {"PENDING", "LEASED"}, status[t] \notin {"PENDING", "LEASED"}
      PROVE  AtMost(Excess(t)', Losses(t)')
  <2>1. CASE \E w \in Worker : Record(w) /\ held[w] = t /\ Verdict(w) = "PENDING"
    BY <2>1, OpeningExcuses
  <2>2. ASSUME NEW w \in Worker, TakesBack(w)
        PROVE  AtMost(Excess(t)', Losses(t)')
    <3>1. Reclaims(t)' = Reclaims(t) + 1
      BY <1>3, <2>2, ReclaimsCount
    <3> QED
      BY <2>2, <3>1, ReclaimAllows
  <2> QED
    BY <1>3, <2>1, <2>2, Reopened
<1>4. ASSUME NEW v \in Worker, Underway(v)', held'[v] = t
      PROVE  AtMost(Excess(t)' \ Current(v)', Losses(t)')
  <2>1. CASE MarkRunning(v) /\ held'[v] = held[v]
    <3>1. status[t] = "LEASED"
      BY <1>4, <2>1 DEF MarkRunning, MarkTaskRunning, MayMark
    <3>2. AtMost(Excess(t)', Losses(t)')
      BY <1>2, <3>1
    <3> QED
      BY <1>0, <3>2, AtMostSubset
  <2>2. CASE /\ Underway(v) /\ held'[v] = held[v] /\ attempt'[v] = attempt[v]
             /\ pc'[v] = "announce" => pc[v] = "announce"
    <3>1. CASE Announce(v)
      <4>1. pc'[v] # "announce"
        BY <3>1 DEF Announce, CallRefresh, Goto, TypeInv, OnceInv, CallFrame, Proc
      <4> QED
        BY <1>4, <2>2, <3>1, <4>1, AnnouncingStarts DEF Current
    <3>2. CASE ~Announce(v)
      <4>1. \A w \in Worker : ~(Announce(w) /\ held[w] = t)
        BY <1>0, <1>4, <2>2, <3>2 DEF CustodyInv
      <4>2. AtMost(Excess(t) \ Current(v), Losses(t))
        BY <1>4, <2>2 DEF StartsInv
      <4>3. AtMost(Excess(t)' \ Current(v), Losses(t)')
        BY <4>1, <4>2, NoStart
      <4>4. Excess(t)' \ Current(v)' \subseteq Excess(t)' \ Current(v)
        BY <2>2 DEF Current
      <4> QED
        BY <1>0, <4>3, <4>4, AtMostSubset
    <3> QED
      BY <3>1, <3>2
  <2> QED
    BY <1>4, <2>1, <2>2, Begun
<1> QED
  BY <1>1, <1>2, <1>3, <1>4

LEMMA BudgetAndStartsInit ==
  ASSUME Init
  PROVE  BudgetInv /\ StartsInv
<1>0. /\ MaxOomRetries \in Nat /\ MaxConcurrent \in Nat \ {0}
      /\ IsFiniteSet({}) /\ Cardinality({}) = 0
  BY RunOnceAssumption, PoolAssumption, FS_EmptySet
<1>1. \A n \in Nat : AtMost({}, n)
  BY <1>0 DEF AtMost
<1>2. /\ \A w \in Worker : pc[w] = "off" /\ device[w] = NoDevice
      /\ \A t \in Task : \A k : Logged(t, k) = {}
      /\ unlogged = 0
  BY DEF Init, OnceInit, StoreInit, Logged, Proc
<1>3. AtWork = {} /\ \A t \in Task : Owed(t) = {}
  BY <1>2 DEF Init, AtWork, InFlight, Owed, Requeuing
<1>4. \A w \in Worker : ~Underway(w)
  BY <1>2 DEF Underway, RefreshPC
<1>5. \A t \in Task : /\ Started(t) = {} /\ Requeues(t) = {}
                      /\ Reclaims(t) = 0 /\ Losses(t) = 0
  BY <1>0, <1>2, <1>3 DEF Started, Requeues, Reclaims, Losses
<1>6. OomLimit \in Nat
  BY <1>0 DEF OomLimit
<1>7. BudgetInv
  <2>1. AtMost(AtWork, MaxConcurrent)
    BY <1>0, <1>1, <1>3
  <2>2. \A t \in Task : AtMost(Requeues(t), OomLimit) /\ Reclaims(t) <= MaxOomRetries
    BY <1>0, <1>1, <1>5, <1>6
  <2>3. \A t \in Task : Logged(t, "lease_reclaimed") \subseteq 0..(Reclaims(t) - 1)
    BY <1>2
  <2>4. \A w \in Worker : pc[w] \notin {"record", "mark"}
    BY <1>2
  <2> QED
    BY <1>4, <2>1, <2>2, <2>3, <2>4 DEF BudgetInv
<1>8. StartsInv
  <2>1. \A t \in Task : Excess(t) = {}
    BY <1>5 DEF Excess
  <2> QED
    BY <1>1, <1>4, <1>5, <2>1 DEF StartsInv
<1> QED
  BY <1>7, <1>8

LEMMA StartsAddUp ==
  ASSUME TypeInv, BudgetInv, StartsInv
  PROVE  StartsBounded
<1>1. SUFFICES ASSUME NEW t \in Task
               PROVE  Cardinality(Started(t))
                        <= MaxAttempts[t] + 2 * MaxOomRetries + (MaxConcurrent - 1) + unlogged
  BY DEF StartsBounded, Started
<1>2. PICK n : AtMost(Excess(t) \ {n}, Losses(t))
  BY DEF StartsInv
<1>3. PICK mo \in Nat : mo = MaxOomRetries
  BY RunOnceAssumption
<1>4. PICK mc \in Nat \ {0} : mc = MaxConcurrent
  BY PoolAssumption
<1>5. PICK ma \in Nat \ {0} : ma = MaxAttempts[t]
  BY RunOnceAssumption
<1>6. PICK r \in Nat : r = Reclaims(t) /\ r <= mo
  BY <1>3, FS_CardinalityType
  DEF TypeInv, OnceInv, StoreInv, LogFinite, EventKind, Reclaims, BudgetInv
<1>7. PICK u \in Nat : u = unlogged
  BY DEF TypeInv, PoolTypes
<1>8. PICK l \in Int : l = mo + mc - 1
  OBVIOUS
<1>9. PICK k \in Nat : k = ma - 1
  OBVIOUS
<1>10. PICK e \in Nat : e = r + u
  OBVIOUS
<1>11. AtMost(Retried(t), k)
  <2>1. IsFiniteSet(1..k) /\ Cardinality(1..k) = k
    BY FS_Interval
  <2> QED
    BY <1>5, <1>9, <2>1 DEF Retried, AtMost
<1>12. AtMost(Requeues(t), l)
  BY <1>3, <1>4, <1>8 DEF BudgetInv, OomLimit
<1>13. AtMost((Excess(t) \ {n}) \cup {n}, e + 1)
  <2>1. AtMost(Excess(t) \ {n}, e) /\ e \in Int
    BY <1>2, <1>6, <1>7, <1>10 DEF Losses
  <2>2. PICK S : S = Excess(t) \ {n}
    OBVIOUS
  <2>3. AtMost(S \cup {n}, e + 1)
    BY <2>1, <2>2, AtMostAdd
  <2> QED
    BY <2>2, <2>3
<1>14. AtMost(Retried(t) \cup Requeues(t), k + l)
  BY <1>11, <1>12, AtMostUnion
<1>15. PICK kl \in Int : kl = k + l
  OBVIOUS
<1>16. PICK e1 \in Int : e1 = e + 1
  OBVIOUS
<1>17. AtMost((Retried(t) \cup Requeues(t)) \cup ((Excess(t) \ {n}) \cup {n}), kl + e1)
  BY <1>13, <1>14, <1>15, <1>16, AtMostUnion
<1>18. PICK sum \in Int : sum = kl + e1
  OBVIOUS
<1>19. Started(t) \subseteq (Retried(t) \cup Requeues(t)) \cup ((Excess(t) \ {n}) \cup {n})
  BY DEF Excess
<1>20. AtMost(Started(t), sum)
  BY <1>17, <1>18, <1>19, AtMostSubset
<1>21. sum <= ma + 2 * mo + (mc - 1) + u
  BY <1>6, <1>8, <1>9, <1>10, <1>15, <1>16, <1>18
<1>22. Cardinality(Started(t)) \in Nat /\ Cardinality(Started(t)) <= sum
  BY <1>20, FS_CardinalityType DEF AtMost
<1> QED
  BY <1>3, <1>4, <1>5, <1>7, <1>21, <1>22

(* However errors, OOMs and deaths are mixed, no task is started more often *)
(* than its attempts, the requeues and reclaims its budget allows, one      *)
(* requeue per other child in flight and the unlogged deaths add up to.     *)
THEOREM StartsStayBounded == Spec => []StartsBounded
<1>1. TypeInv /\ TrackInv /\ [Next]_vars => TrackInv'
  BY TrackStep
<1>2. TypeInv /\ TrackInv /\ CustodyInv /\ BudgetInv /\ [Next]_vars => BudgetInv'
  BY BudgetStep
<1>3. TypeInv /\ CustodyInv /\ BudgetInv /\ StartsInv /\ [Next]_vars => StartsInv'
  BY StartsStep DEF StartsInv, AtMost
<1>4. TypeInv /\ BudgetInv /\ StartsInv => StartsBounded
  BY StartsAddUp
<1> QED
  BY <1>1, <1>2, <1>3, <1>4, TrackInit, BudgetAndStartsInit, FrameCorrect,
     CustodyHolds, PTL DEF Spec
-----------------------------------------------------------------------------
(***************************************************************************)
(* The run row.  The parent does not refresh, and a task it takes back     *)
(* keeps its attempts, so RowInv holds here, too.                          *)
(***************************************************************************)
LEMMA OutsideTheRow ==
  ASSUME TypeInv, [Next]_vars, \A w \in Worker : ~(RunOnceStep(w) /\ UNCHANGED poolVars)
  PROVE  /\ UNCHANGED <<runStatus, attempts>>
         /\ \A t \in Task : status'[t] \in {status[t], "PENDING", "FAILED"}
         /\ \A p \in Proc : Idles(p) \/ Outside(p)
<1>0. /\ pc \in [Proc -> Place] /\ Worker \subseteq Proc
      /\ seen \in [Proc -> RunStatus] /\ target \in [Proc -> RunStatus]
      /\ after \in [Proc -> {"lease", "prepare", "ok", "raised", "idle"}]
      /\ status \in [Task -> TaskStatus]
  BY DEF TypeInv, OnceInv, CallFrame, RefreshTypeOK, StoreInv, StoreTypeOK, Proc
<1>1. ASSUME NEW w \in Worker, NEW dest \in {"lease", "exiting", "gone", "off"}, Goto(w, dest),
             ReturnFrame(w) \/ UNCHANGED frameVars
      PROVE  \A p \in Proc : Idles(p) \/ Outside(p)
  BY <1>0, <1>1 DEF Goto, ReturnFrame, frameVars, Idles, Outside, RefreshPC
<1>2. ASSUME NEW w \in Worker, PutResult(w) \/ Exit(w) \/ Die(w)
      PROVE  /\ UNCHANGED <<runStatus, attempts, status>>
             /\ \A p \in Proc : Idles(p) \/ Outside(p)
  BY <1>1, <1>2 DEF PutResult, Exit, Die, storeVars, leaseVars, runVars
<1>3. ASSUME NEW w \in Worker, TakesBack(w)
      PROVE  /\ UNCHANGED <<runStatus, attempts>>
             /\ \A t \in Task : status'[t] \in {status[t], "PENDING", "FAILED"}
             /\ \A p \in Proc : Idles(p) \/ Outside(p)
  <2>1. /\ UNCHANGED <<runStatus, attempts>>
        /\ \A t \in Task : status'[t] \in {status[t], "PENDING", "FAILED"}
    BY <1>0, <1>3 DEF TakesBack, ReclaimDeadWorker, storeVars, leaseVars, runVars
  <2> QED
    BY <1>1, <1>3, <2>1 DEF TakesBack
<1>4. ASSUME NEW w \in Worker, NEW d \in Device, Spawn(w, d)
      PROVE  /\ UNCHANGED <<runStatus, attempts, status>>
             /\ \A p \in Proc : Idles(p) \/ Outside(p)
  BY <1>1, <1>4 DEF Spawn, storeVars, leaseVars, runVars
<1>4a. ASSUME NEW w \in Worker, InterruptedAtStart(w) \/ InterruptedAtReclaim(w)
       PROVE  /\ UNCHANGED <<runStatus, attempts, status>>
              /\ \A p \in Proc : Idles(p) \/ Outside(p)
  BY <1>1, <1>4a
  DEF InterruptedAtStart, InterruptedAtReclaim, Goto, storeVars, leaseVars, runVars
<1>5. ASSUME JoinReported
      PROVE  /\ UNCHANGED <<runStatus, attempts, status>>
             /\ \A p \in Proc : Idles(p) \/ Outside(p)
  <2>1. report.child \in Worker /\ Goto(report.child, "off")
    BY <1>5 DEF JoinReported, Step, TypeInv, PoolTypes, Goto
  <2> QED
    BY <1>1, <1>5, <2>1 DEF JoinReported, storeVars, leaseVars, runVars
<1>6. ASSUME \/ ParentAlone
             \/ \E w \in Worker : ZombieReturns(w) /\ UNCHANGED poolVars
             \/ \E t \in Task : LeaseExpires(t)
             \/ UNCHANGED vars
      PROVE  /\ UNCHANGED <<runStatus, attempts, status>>
             /\ \A p \in Proc : Idles(p)
  BY <1>6
  DEF ParentAlone, ZombieReturns, LeaseExpires, LeaseDeadlinePasses, childVars, vars, onceVars,
      storeVars, leaseVars, runVars, frameVars, Idles
<1> QED
  BY <1>2, <1>3, <1>4, <1>4a, <1>5, <1>6, Steps

LEMMA RowStep ==
  ASSUME TypeInv, StatusInv, RowInv, [Next]_vars
  PROVE  RowInv'
<1>0. OnceInv /\ Worker \subseteq Proc
  BY DEF TypeInv, Proc
<1>1. NoneCancelled'
  <2>1. ASSUME NEW t \in Task
        PROVE  status'[t] # "CANCELLED"
    <3>1. \A w \in Worker : Verdict(w) # "CANCELLED"
      BY DEF Verdict
    <3>2. status[t] # "CANCELLED"
      BY DEF RowInv, NoneCancelled
    <3> QED
      BY <1>0, <3>1, <3>2, OnceMovesTasks, OutsideTheRow
  <2> QED
    BY <2>1 DEF NoneCancelled
<1>2. RowMoves
  <2>1. CASE \E w \in Worker : RefreshStep(w)
    BY <1>0, <2>1, RefreshMovesRow DEF RefreshStep
  <2>2. CASE \A w \in Worker : ~RefreshStep(w)
    BY <2>2, OnceLeavesRow, OutsideTheRow DEF RowInv, RowMoves
  <2> QED
    BY <2>1, <2>2
<1>3. AttemptsStay /\ VerdictsStand
  BY <1>0, OnceMovesTasks, OutsideTheRow, StoreEffect, StoreKeepsVerdicts DEF OnceInv, AttemptsStay
<1>4. \A p \in Proc : Refresh(p) \/ Idles(p) \/ Outside(p)
  BY <1>0, OnceMovesOne, OutsideTheRow
<1>5. ASSUME NEW v \in Worker
      PROVE  OnceOrAway(v)
  <2>1. ASSUME NEW w \in Worker, RunOnceStep(w), w # v
        PROVE  Stays(v)
    BY <1>0, <2>1, OthersStay
  <2>2. ASSUME \A w \in Worker : ~RunOnceStep(w)
        PROVE  Stays(v) \/ pc'[v] \notin InCall
    BY <2>2, OutsideTheCall DEF Departs, InCall, OncePC, ReturnPC, RefreshPC
  <2> QED
    BY <2>1, <2>2 DEF OnceOrAway
<1> QED
  BY <1>0, <1>1, <1>2, <1>3, <1>4, <1>5, RowKept

LEMMA RowInit ==
  ASSUME Init
  PROVE  RowInv
<1>1. NoneCancelled /\ runStatus \in Reached
  BY DEF Init, OnceInit, StoreInit, NoneCancelled, Reached
<1>2. \A p \in Proc : pc[p] = "off"
  BY DEF Init
<1>3. \A p \in Proc : RowOf(p)
  BY <1>2 DEF RowOf, TargetPC
<1>4. \A w \in Worker : WorkerRow(w)
  BY <1>2 DEF WorkerRow, Seasoned, InCall, OncePC, ReturnPC, RefreshPC, Proc
<1> QED
  BY <1>1, <1>3, <1>4 DEF RowInv

(* The run row never goes back to VALIDATED, and no child's refresh after a *)
(* verdict is ever refused, although the parent puts tasks back to PENDING  *)
(* and children die at any point of a refresh.                              *)
THEOREM RowHolds == Spec => []RowInv
<1>1. TypeInv /\ StatusInv /\ RowInv /\ [Next]_vars => RowInv'
  BY RowStep
<1>2. TypeInv /\ StatusInv /\ [Next]_vars => StatusInv'
  BY StatusStep
<1> QED
  BY <1>1, <1>2, RowInit, StatusInit, FrameCorrect, PTL DEF Spec

(* Whoever moved the row off VALIDATED had counted an attempt.              *)
AttemptedInv == runStatus # "VALIDATED" => \E t \in Task : attempts[t] > 0

LEMMA AttemptedStep ==
  ASSUME TypeInv, RowInv, AttemptedInv, [Next]_vars
  PROVE  AttemptedInv'
<1>0. OnceInv /\ Worker \subseteq Proc
  BY DEF TypeInv, Proc
<1>1. \A t \in Task : attempts[t] > 0 => attempts'[t] > 0
  BY <1>0, OnceMovesTasks, OutsideTheRow
<1>2. ASSUME NEW w \in Worker, RefreshStep(w)
      PROVE  \E t \in Task : attempts[t] > 0
  <2>1. pc[w] \in InCall \ {"bump"}
    BY <1>0, <1>2, RefreshGoes DEF RefreshStep, InCall, RefreshPC
  <2>2. held[w] \in Task
    BY <2>1 DEF TypeInv, OnceInv, CallFrame
  <2> QED
    BY <2>1, <2>2 DEF RowInv, WorkerRow
<1>3. (\A w \in Worker : ~RefreshStep(w)) => runStatus' = runStatus
  BY OnceLeavesRow, OutsideTheRow
<1> QED
  BY <1>1, <1>2, <1>3 DEF AttemptedInv

(* The next refresh of any process that reads the run and its tasks afresh  *)
(* is accepted, although the parent puts tasks back to PENDING behind the   *)
(* back of the refreshes under way.                                         *)
Refreshable == Routable(runStatus, RunTarget(Task, status, attempts))

THEOREM ReclaimsLeaveTheRunRefreshable == Spec => []Refreshable
<1>1. Init => AttemptedInv
  BY DEF Init, OnceInit, StoreInit, AttemptedInv
<1>2. TypeInv /\ RowInv /\ AttemptedInv /\ [Next]_vars => AttemptedInv'
  BY AttemptedStep
<1>3. TypeInv /\ StatusInv /\ RowInv /\ AttemptedInv => Refreshable
  BY BorneOutIsRoutable
  DEF TypeInv, OnceInv, StoreInv, StatusInv, RunStatusJustified, RowInv, AttemptedInv,
      SomeTaken, Refreshable
<1>4. TypeInv /\ StatusInv /\ [Next]_vars => StatusInv'
  BY StatusStep
<1> QED
  BY <1>1, <1>2, <1>3, <1>4, StatusInit, RowHolds, FrameCorrect, PTL DEF Spec

-----------------------------------------------------------------------------
(***************************************************************************)
(* No success vanishes.  The account of TallyInv holds the other way round *)
(* as well, if what died with a child or with an interrupt is put on it.   *)
(***************************************************************************)
(* An exception may cost the one report the parent has in hand, or has just *)
(* taken out of the queue.                                                  *)
Dropped == IF place \in {"teardown", "failed"} THEN 1 ELSE 0

Accounted ==
  counted + Cardinality(Reporting) + Cardinality(Claiming) + BeingRead + deaths + Dropped

AccountInv ==
  /\ place # "join" => BeingRead = 0
  /\ Cardinality(Successes) <= Accounted

LEMMA SizesAreNumbers ==
  ASSUME TypeInv, TallyInv
  PROVE  /\ {Cardinality(Reporting), Cardinality(Claiming), Cardinality(Successes)} \subseteq Nat
         /\ {BeingRead, Dropped} \subseteq {0, 1}
         /\ counted \in Nat /\ deaths \in Nat
  BY FS_CardinalityType, PoolAssumption
  DEF TypeInv, PoolTypes, TallyInv, BeingRead, Dropped

(* Nobody gives up a claim or a report.                                     *)
LEMMA NothingLostKeepsAccount ==
  ASSUME TypeInv, TallyInv, TypeInv', TallyInv', AccountInv, Successes' \subseteq Successes,
         Claiming \subseteq Claiming', Reporting \subseteq Reporting', deaths <= deaths',
         counted + BeingRead + Dropped <= counted' + BeingRead' + Dropped'
  PROVE  Cardinality(Successes') <= Accounted'
<1>1. /\ Cardinality(Successes') <= Cardinality(Successes)
      /\ Cardinality(Claiming) <= Cardinality(Claiming')
      /\ Cardinality(Reporting) <= Cardinality(Reporting')
  BY FS_Subset DEF TallyInv
<1>2. /\ {Cardinality(Reporting'), Cardinality(Claiming'), Cardinality(Successes')} \subseteq Nat
      /\ {BeingRead', Dropped'} \subseteq {0, 1}
      /\ counted' \in Nat /\ deaths' \in Nat
  BY FS_CardinalityType, PoolAssumption
  DEF TypeInv, PoolTypes, TallyInv, BeingRead, Dropped
<1> QED
  BY <1>1, <1>2, SizesAreNumbers DEF AccountInv, Accounted

(* A claim is kept until it is reported.                                    *)
LEMMA ClaimsAreKept ==
  ASSUME TypeInv, RowInv', ~ArtifactFaults, NEW w \in Worker, RunOnceStep(w)
  PROVE  Claiming \subseteq Claiming'
<1>0. /\ pc \in [Proc -> Place] /\ Worker \subseteq Proc /\ OnceInv
      /\ after \in [Proc -> {"lease", "prepare", "ok", "raised", "idle"}]
  BY DEF TypeInv, OnceInv, CallFrame, Proc
<1>1. ASSUME NEW v \in Worker \ {w}, HasClaim(v)
      PROVE  HasClaim(v)'
  <2>1. Stays(v)
    BY <1>0, OthersStay
  <2> QED
    BY <1>1, <2>1 DEF Stays, HasClaim
<1>2. ASSUME HasClaim(w)
      PROVE  HasClaim(w)'
  <2>1. CASE RefreshStep(w)
    <3>1. UNCHANGED after /\ pc[w] \in RefreshPC /\ after[w] = "ok"
      BY <1>2, <2>1, RefreshGoes DEF RefreshStep, HasClaim, RefreshPC, Proc
    <3>2. PICK dest \in RefreshPC \cup {"r_error", after[w]} : Goto(w, dest)
      BY <2>1, RefreshGoes DEF RefreshStep, Proc
    <3>3. pc'[w] # "r_error"
      BY <3>1 DEF RowInv, WorkerRow
    <3> QED
      BY <1>0, <3>1, <3>2, <3>3 DEF HasClaim, Goto, RefreshPC
  <2>2. CASE ~RefreshStep(w)
    <3>1. Close(w) /\ outcome[w] = "ok"
      BY <1>0, <1>2, <2>2
      DEF RunOnceStep, Lease, LeaseNothing, BumpAttempts, MarkRunning, MarkRefused, Announce,
          Prepare, HandlerEnds, Execute, ExecuteTimesOut, OomBudget, Record, RecordRefused,
          ArtifactFails, Close, HasClaim, RefreshPC
    <3> QED
      BY <1>0, <3>1 DEF Close, CallRefresh, Goto, HasClaim, RefreshPC
  <2> QED
    BY <2>1, <2>2
<1> QED
  BY <1>1, <1>2 DEF Claiming

(* A success on record is claimed.                                          *)
LEMMA RecordingKeepsAccount ==
  ASSUME TypeInv, TallyInv, TypeInv', TallyInv', AccountInv, NEW w \in Worker, Record(w),
         outcome[w] = "ok", UNCHANGED poolVars, Claiming \subseteq Claiming'
  PROVE  Cardinality(Successes') <= Accounted'
<1>0. pc \in [Proc -> Place] /\ w \in Proc /\ status \in [Task -> TaskStatus]
  BY DEF TypeInv, OnceInv, CallFrame, StoreInv, StoreTypeOK, Proc
<1>1. w \notin Claiming /\ w \in Claiming'
  BY <1>0 DEF Record, Goto, callVars, Claiming, HasClaim, RefreshPC
<1>2. Successes' \subseteq Successes \cup {held[w]}
  BY <1>0 DEF Record, UpdateTaskStatus, Successes
<1>3. Cardinality(Successes') <= Cardinality(Successes) + 1
  <2>1. /\ IsFiniteSet(Successes \cup {held[w]})
        /\ Cardinality(Successes \cup {held[w]})
             \in {Cardinality(Successes), Cardinality(Successes) + 1}
    BY FS_AddElement DEF TallyInv
  <2>2. Cardinality(Successes') <= Cardinality(Successes \cup {held[w]})
    BY <1>2, <2>1, FS_Subset
  <2>3. {Cardinality(Successes), Cardinality(Successes')} \subseteq Nat
    BY FS_CardinalityType DEF TallyInv
  <2> QED
    BY <2>1, <2>2, <2>3
<1>4. Cardinality(Claiming) + 1 <= Cardinality(Claiming')
  <2>1. Cardinality(Claiming \cup {w}) = Cardinality(Claiming) + 1
    BY <1>1, FS_AddElement DEF TallyInv
  <2>2. Claiming \cup {w} \subseteq Claiming'
    BY <1>1
  <2> QED
    BY <2>1, <2>2, FS_Subset DEF TallyInv
<1>5. UNCHANGED <<counted, Reporting, BeingRead, deaths, Dropped>>
  BY DEF poolVars, parentVars, historyVars, Reporting, BeingRead, Dropped
<1>6. {Cardinality(Claiming'), Cardinality(Successes')} \subseteq Nat
  BY FS_CardinalityType DEF TallyInv
<1> QED
  BY <1>3, <1>4, <1>5, <1>6, SizesAreNumbers DEF AccountInv, Accounted

(* A claim becomes a report, which finds its slot in the queue empty.       *)
LEMMA ReportingKeepsAccount ==
  ASSUME TypeInv, TrackInv, TallyInv, TypeInv', TallyInv', AccountInv, NEW w \in Worker,
         PutResult(w)
  PROVE  Cardinality(Successes') <= Accounted'
<1>0. /\ pc \in [Proc -> Place] /\ Worker \subseteq Proc /\ message \in [Worker -> Tidings]
  BY DEF TypeInv, OnceInv, CallFrame, PoolTypes, Proc
<1>1. /\ UNCHANGED <<status, counted, report, place, deaths>>
      /\ message' = [message EXCEPT ![w] = TidingsOf(w)]
      /\ pc[w] \in ReturnPC \cup {"empty"}
  BY DEF PutResult, parentVars, storeVars, leaseVars
<1>2. UNCHANGED <<Successes, BeingRead, Dropped>>
  BY <1>1 DEF Successes, BeingRead, Dropped
<1>3. message[w] = "none"
  BY <1>1 DEF TrackInv, Out, ReturnPC
<1>4. \A v \in Worker \ {w} : HasClaim(v) => HasClaim(v)'
  BY <1>0, ChildMoves DEF HasClaim, Goto
<1>5. CASE pc[w] # "ok"
  <2>1. ~HasClaim(w)
    BY <1>1, <1>5 DEF HasClaim, ReturnPC, RefreshPC
  <2>2. Claiming \subseteq Claiming' /\ Reporting \subseteq Reporting'
    BY <1>0, <1>1, <1>3, <1>4, <2>1 DEF Claiming, Reporting
  <2>3. counted + BeingRead + Dropped <= counted' + BeingRead' + Dropped' /\ deaths <= deaths'
    BY <1>1, <1>2, SizesAreNumbers
  <2> QED
    BY <1>2, <2>2, <2>3, NothingLostKeepsAccount
<1>6. CASE pc[w] = "ok"
  <2>1. w \in Claiming /\ w \notin Reporting /\ Reporting' = Reporting \cup {w}
    BY <1>0, <1>1, <1>3, <1>6 DEF Claiming, HasClaim, Reporting, TidingsOf
  <2>2. Cardinality(Reporting') = Cardinality(Reporting) + 1
    BY <2>1, FS_AddElement DEF TallyInv
  <2>3. Cardinality(Claiming) - 1 <= Cardinality(Claiming')
    <3>1. Claiming \ {w} \subseteq Claiming'
      BY <1>4 DEF Claiming
    <3>2. IsFiniteSet(Claiming \ {w}) /\ Cardinality(Claiming \ {w}) = Cardinality(Claiming) - 1
      BY <2>1, FS_RemoveElement DEF TallyInv
    <3> QED
      BY <3>1, <3>2, FS_Subset DEF TallyInv
  <2>4. {Cardinality(Claiming'), Cardinality(Reporting')} \subseteq Nat
    BY FS_CardinalityType DEF TallyInv
  <2> QED
    BY <1>1, <1>2, <2>2, <2>3, <2>4, SizesAreNumbers DEF AccountInv, Accounted
<1> QED
  BY <1>5, <1>6

(* A child takes its own claim with it, and no other.                       *)
LEMMA DyingKeepsAccount ==
  ASSUME TypeInv, TallyInv, TypeInv', TallyInv', AccountInv, NEW w \in Worker, Die(w)
  PROVE  Cardinality(Successes') <= Accounted'
<1>0. /\ pc \in [Proc -> Place] /\ Worker \subseteq Proc
  BY DEF TypeInv, OnceInv, CallFrame, Proc
<1>1. UNCHANGED <<status, counted, report, place, message>> /\ deaths' = deaths + 1
  BY DEF Die, parentVars, storeVars, leaseVars
<1>2. UNCHANGED <<Successes, Reporting, BeingRead, Dropped>>
  BY <1>1 DEF Successes, Reporting, BeingRead, Dropped
<1>3. Claiming \ {w} \subseteq Claiming'
  BY <1>0, ChildMoves DEF Claiming, HasClaim, Goto
<1>4. /\ IsFiniteSet(Claiming \ {w})
      /\ Cardinality(Claiming \ {w}) \in {Cardinality(Claiming), Cardinality(Claiming) - 1}
  BY FS_RemoveElement DEF TallyInv
<1>5. Cardinality(Claiming \ {w}) <= Cardinality(Claiming')
  BY <1>3, <1>4, FS_Subset DEF TallyInv
<1>6. {Cardinality(Claiming'), Cardinality(Claiming \ {w})} \subseteq Nat
  BY <1>4, FS_CardinalityType DEF TallyInv
<1> QED
  BY <1>1, <1>2, <1>4, <1>5, <1>6, SizesAreNumbers DEF AccountInv, Accounted

(* A report taken out of the queue is in the parent's hand, which was empty.*)
LEMMA ReceivingKeepsAccount ==
  ASSUME TypeInv, TallyInv, TypeInv', TallyInv', AccountInv, NEW w \in Worker, Receive(w)
  PROVE  Cardinality(Successes') <= Accounted'
<1>0. message \in [Worker -> Tidings]
  BY DEF TypeInv, PoolTypes
<1>1. /\ UNCHANGED <<status, counted, deaths, Claiming>> /\ place = "wait" /\ place' = "join"
      /\ message' = [message EXCEPT ![w] = "none"]
      /\ report' = [child |-> w, says |-> message[w]]
  BY DEF Receive, Step, historyVars, storeVars, leaseVars, childVars, frameVars, callVars,
         Claiming, HasClaim
<1>2. /\ UNCHANGED <<Successes, Dropped>> /\ BeingRead = 0
      /\ BeingRead' = IF message[w] = "succeeded" THEN 1 ELSE 0
  BY <1>1 DEF Successes, Dropped, BeingRead, AccountInv
<1>3. Cardinality(Reporting) <= Cardinality(Reporting') + BeingRead'
  <2>1. Reporting' = Reporting \ {w} /\ (w \in Reporting <=> message[w] = "succeeded")
    BY <1>0, <1>1 DEF Reporting
  <2>2. Cardinality(Reporting') = IF w \in Reporting THEN Cardinality(Reporting) - 1
                                                     ELSE Cardinality(Reporting)
    BY <2>1, FS_RemoveElement DEF TallyInv
  <2> QED
    BY <1>2, <2>1, <2>2, SizesAreNumbers
<1>4. Cardinality(Reporting') \in Nat
  BY FS_CardinalityType DEF TallyInv
<1> QED
  BY <1>1, <1>2, <1>3, <1>4, SizesAreNumbers DEF AccountInv, Accounted

(* A report that an exception lets drop is the one that may be dropped.     *)
LEMMA DroppingKeepsAccount ==
  ASSUME TypeInv, TallyInv, TypeInv', TallyInv', AccountInv, NEW w \in Worker,
         InterruptedAtGet(w)
  PROVE  Cardinality(Successes') <= Accounted'
<1>0. message \in [Worker -> Tidings]
  BY DEF TypeInv, PoolTypes
<1>1. /\ UNCHANGED <<status, counted, deaths, report, Claiming>>
      /\ place = "wait" /\ place' = "teardown"
      /\ message' = [message EXCEPT ![w] = "none"]
  BY DEF InterruptedAtGet, Step, historyVars, storeVars, leaseVars, childVars, frameVars,
         callVars, Claiming, HasClaim
<1>2. UNCHANGED <<Successes, BeingRead>> /\ Dropped = 0 /\ Dropped' = 1
  BY <1>1 DEF Successes, Dropped, BeingRead
<1>3. Cardinality(Reporting) <= Cardinality(Reporting') + 1
  <2>1. Reporting' = Reporting \ {w}
    BY <1>0, <1>1 DEF Reporting
  <2>2. Cardinality(Reporting') = IF w \in Reporting THEN Cardinality(Reporting) - 1
                                                     ELSE Cardinality(Reporting)
    BY <2>1, FS_RemoveElement DEF TallyInv
  <2> QED
    BY <2>2, SizesAreNumbers
<1>4. Cardinality(Reporting') \in Nat
  BY FS_CardinalityType DEF TallyInv
<1> QED
  BY <1>1, <1>2, <1>3, <1>4, SizesAreNumbers DEF AccountInv, Accounted

(* What the parent has in hand outside "join" is nothing.                   *)
LEMMA HandIsEmptied ==
  ASSUME TypeInv, AccountInv, [Next]_vars
  PROVE  place' # "join" => BeingRead' = 0
<1>1. ASSUME UNCHANGED poolVars
      PROVE  place' # "join" => BeingRead' = 0
  BY <1>1 DEF poolVars, parentVars, AccountInv, BeingRead
<1>2. ASSUME NEW w \in Worker, PutResult(w) \/ Die(w) \/ Exit(w) \/ TakesBack(w)
      PROVE  place' # "join" => BeingRead' = 0
  BY <1>2 DEF PutResult, Die, Exit, TakesBack, poolVars, parentVars, AccountInv, BeingRead
<1>3. ASSUME NEW w \in Worker, NEW d \in Device, Spawn(w, d)
      PROVE  place' # "join" => BeingRead' = 0
  BY <1>3 DEF Spawn, MaySpawn, AccountInv, BeingRead
<1>3a. ASSUME NEW w \in Worker, InterruptedAtStart(w) \/ InterruptedAtReclaim(w)
       PROVE  place' # "join" => BeingRead' = 0
  BY <1>3a DEF InterruptedAtStart, InterruptedAtReclaim, MaySpawn, Step, AccountInv, BeingRead
<1>4. ASSUME JoinReported
      PROVE  place' # "join" => BeingRead' = 0
  BY <1>4 DEF JoinReported, NoReport, BeingRead
<1>5. ASSUME ParentAlone
      PROVE  place' # "join" => BeingRead' = 0
  BY <1>5
  DEF ParentAlone, StopAdmitting, QueueStaysEmpty, ReapingEnds, Interrupted, TornDown, Conclude,
      TeardownAborted, InterruptedAtGet, Receive, Reap, Step, NoReport, AccountInv, BeingRead
<1> QED
  BY <1>1, <1>2, <1>3, <1>3a, <1>4, <1>5, Steps DEF LeaseExpires, vars

(* Outside run_once no task succeeds and none that has is taken back.       *)
LEMMA OutsideKeepsAccount ==
  ASSUME TypeInv, TallyInv, TypeInv', TallyInv', AccountInv, [Next]_vars,
         \A w \in Worker : ~(RunOnceStep(w) /\ UNCHANGED poolVars),
         Claiming \subseteq Claiming', Reporting \subseteq Reporting', deaths <= deaths',
         counted + BeingRead + Dropped <= counted' + BeingRead' + Dropped'
  PROVE  Cardinality(Successes') <= Accounted'
<1>1. Successes' \subseteq Successes
  BY OutsideTheRow DEF Successes
<1> QED
  BY <1>1, NothingLostKeepsAccount

LEMMA AccountStep ==
  ASSUME TypeInv, TrackInv, TallyInv, TypeInv', TallyInv', RowInv', AccountInv, [Next]_vars,
         ~ArtifactFaults
  PROVE  AccountInv'
<1>0. /\ pc \in [Proc -> Place] /\ Worker \subseteq Proc /\ OnceInv
      /\ {BeingRead, Dropped} \subseteq {0, 1} /\ counted \in Nat /\ deaths \in Nat
  BY SizesAreNumbers DEF TypeInv, OnceInv, CallFrame, Proc
<1>1. ASSUME NEW w \in Worker, RunOnceStep(w), UNCHANGED poolVars
      PROVE  Cardinality(Successes') <= Accounted'
  <2>1. Claiming \subseteq Claiming'
    BY <1>1, ClaimsAreKept
  <2>2. CASE Record(w) /\ outcome[w] = "ok"
    BY <1>1, <2>1, <2>2, RecordingKeepsAccount
  <2>3. CASE ~(Record(w) /\ outcome[w] = "ok")
    <3>1. Verdict(w) = "SUCCEEDED" => outcome[w] = "ok"
      BY DEF Verdict
    <3>2. Successes' \subseteq Successes
      BY <1>0, <1>1, <2>3, <3>1, OnceMovesTasks DEF Successes
    <3>3. UNCHANGED <<Reporting, counted, BeingRead, Dropped, deaths>>
      BY <1>1 DEF poolVars, parentVars, historyVars, Reporting, BeingRead, Dropped
    <3> QED
      BY <1>0, <2>1, <3>2, <3>3, NothingLostKeepsAccount
  <2> QED
    BY <2>2, <2>3
<1>2. ASSUME \A w \in Worker : ~(RunOnceStep(w) /\ UNCHANGED poolVars)
      PROVE  Cardinality(Successes') <= Accounted'
  <2>1. ASSUME NEW w \in Worker, NEW dest, pc[w] \in {"off", "gone", "exiting"}, Goto(w, dest),
               \A v \in Worker \ {w} : outcome'[v] = outcome[v] /\ after'[v] = after[v]
        PROVE  Claiming \subseteq Claiming'
    BY <1>0, <2>1 DEF Claiming, HasClaim, Goto, RefreshPC
  <2>2. ASSUME NEW w \in Worker, Exit(w) \/ TakesBack(w) \/ \E d \in Device : Spawn(w, d)
        PROVE  Cardinality(Successes') <= Accounted'
    <3>1. UNCHANGED <<counted, Reporting, BeingRead, Dropped, deaths>>
      BY <2>2 DEF Exit, TakesBack, Spawn, poolVars, parentVars, historyVars, Reporting, BeingRead,
         Dropped
    <3>2. Claiming \subseteq Claiming'
      BY <2>1, <2>2 DEF Exit, TakesBack, Spawn, MaySpawn, NobodyRefersTo, frameVars, callVars
    <3> QED
      BY <1>0, <1>2, <3>1, <3>2, OutsideKeepsAccount
  <2>2a. ASSUME NEW w \in Worker, InterruptedAtStart(w) \/ InterruptedAtReclaim(w)
         PROVE  Cardinality(Successes') <= Accounted'
    <3>1. UNCHANGED <<counted, Reporting, BeingRead, deaths>> /\ Dropped = 0 /\ Dropped' = 1
      BY <2>2a
      DEF InterruptedAtStart, InterruptedAtReclaim, MaySpawn, Step, Reporting, BeingRead, Dropped
    <3>2. Claiming \subseteq Claiming'
      BY <2>1, <2>2a
      DEF InterruptedAtStart, InterruptedAtReclaim, MaySpawn, NobodyRefersTo, Goto, frameVars,
          callVars
    <3> QED
      BY <1>0, <1>2, <3>1, <3>2, OutsideKeepsAccount
  <2>3. CASE JoinReported
    <3>1. /\ report.child \in Worker /\ Goto(report.child, "off")
          /\ pc[report.child] \in {"off", "gone"}
      BY <2>3 DEF JoinReported, Step, TypeInv, PoolTypes, Goto
    <3>2. Claiming \subseteq Claiming'
      BY <2>1, <2>3, <3>1 DEF JoinReported, frameVars, callVars
    <3>3. /\ UNCHANGED <<Reporting, Dropped, deaths>>
          /\ counted' = counted + BeingRead /\ BeingRead' = 0
      BY <2>3
      DEF JoinReported, Step, NoReport, historyVars, Reporting, BeingRead, Dropped
    <3> QED
      BY <1>0, <1>2, <3>2, <3>3, OutsideKeepsAccount
  <2>4. ASSUME UNCHANGED <<pc, frameVars, callVars, counted, message, deaths>>,
               BeingRead + Dropped <= BeingRead' + Dropped'
        PROVE  Cardinality(Successes') <= Accounted'
    <3>1. Claiming' = Claiming /\ Reporting' = Reporting
      BY <2>4 DEF Claiming, HasClaim, Reporting, frameVars, callVars
    <3>2. {BeingRead', Dropped'} \subseteq {0, 1}
      BY DEF BeingRead, Dropped
    <3> QED
      BY <1>0, <1>2, <2>4, <3>1, <3>2, OutsideKeepsAccount
  <2>5. CASE ParentAlone
    <3>1. CASE \E w \in Worker : Receive(w)
      BY <3>1, ReceivingKeepsAccount
    <3>2. CASE Interrupted
      <4>1. Dropped = 0 /\ Dropped' = 1 /\ BeingRead' = 0
        BY <3>2 DEF Interrupted, Dropped, NoReport, BeingRead
      <4> QED
        BY <1>0, <2>4, <3>2, <4>1 DEF Interrupted, childVars, historyVars
    <3>3. CASE \E w \in Worker : InterruptedAtGet(w)
      BY <3>3, DroppingKeepsAccount
    <3>4. CASE ~Interrupted /\ \A w \in Worker : ~Receive(w) /\ ~InterruptedAtGet(w)
      <4>1. /\ UNCHANGED <<pc, frameVars, callVars, counted, message, deaths, report>>
            /\ place' \in {"teardown", "failed"} <=> place \in {"teardown", "failed"}
        BY <2>5, <3>4
        DEF ParentAlone, StopAdmitting, QueueStaysEmpty, ReapingEnds, TornDown, Conclude,
            TeardownAborted, Reap, Step, childVars, onceVars, historyVars
      <4> QED
        BY <1>0, <2>4, <4>1 DEF BeingRead, Dropped
    <3> QED
      BY <3>1, <3>2, <3>3, <3>4
  <2>6. ASSUME \/ \E w \in Worker : ZombieReturns(w) /\ UNCHANGED poolVars
               \/ \E t \in Task : LeaseExpires(t)
               \/ UNCHANGED vars
        PROVE  Cardinality(Successes') <= Accounted'
    <3>1. UNCHANGED <<pc, frameVars, callVars, counted, message, deaths, report, place>>
      BY <2>6
      DEF ZombieReturns, LeaseExpires, childVars, poolVars, parentVars, historyVars, vars, onceVars
    <3> QED
      BY <1>0, <2>4, <3>1 DEF BeingRead, Dropped
  <2> QED
    BY <1>2, <2>2, <2>2a, <2>3, <2>5, <2>6, ReportingKeepsAccount, DyingKeepsAccount, Steps
<1>3. Cardinality(Successes') <= Accounted'
  BY <1>1, <1>2
<1> QED
  BY <1>3, HandIsEmptied DEF AccountInv

LEMMA AccountInit ==
  ASSUME Init
  PROVE  AccountInv
<1>1. Successes = {} /\ Claiming = {} /\ Reporting = {} /\ BeingRead = 0 /\ Dropped = 0
  BY DEF Init, OnceInit, StoreInit, Successes, Claiming, HasClaim, Reporting, BeingRead,
         Dropped, NoReport, RefreshPC, Proc
<1>2. counted = 0 /\ deaths = 0
  BY DEF Init
<1> QED
  BY <1>1, <1>2, FS_EmptySet DEF AccountInv, Accounted

(* When the parent has its answer no child is inside a call, so nobody is   *)
(* left with a claim, and nothing is in the parent's hand.                  *)
LEMMA SettledAccount ==
  ASSUME TypeInv, TrackInv, TallyInv, AccountInv
  PROVE  NoSuccessVanishes
<1>1. SUFFICES ASSUME place \in {"clean", "degraded"}
               PROVE  Cardinality(Successes) <= counted + Cardinality(Reporting) + deaths
  BY DEF NoSuccessVanishes, Successes, Reporting
<1>2. Claiming = {}
  <2>1. \A w \in Worker : pc[w] \in Out
    BY <1>1 DEF TrackInv, InFlight
  <2> QED
    BY <2>1 DEF Claiming, HasClaim, Out, RefreshPC
<1>3. Cardinality(Claiming) = 0 /\ BeingRead = 0 /\ Dropped = 0
  BY <1>1, <1>2, FS_EmptySet DEF AccountInv, Dropped
<1>4. /\ Cardinality(Successes) \in Nat /\ Cardinality(Reporting) \in Nat
      /\ counted \in Nat /\ deaths \in Nat
  BY SizesAreNumbers
<1> QED
  BY <1>3, <1>4 DEF AccountInv, Accounted

(* The count the drain returns misses no success but those of children that *)
(* died and those whose report was still in the queue when their child was  *)
(* taken for dead; with NoSuccessIsInvented it is exact up to these two.    *)
(* That close_run_if_complete is never refused is the part RowInv plays; an *)
(* artifact write that failed would cost the report of a child that lives,  *)
(* but the worker of a child is built without a store for artifacts         *)
(* (worker.py:840).                                                         *)
THEOREM EverySuccessIsAccountedFor == ~ArtifactFaults => (Spec => []NoSuccessVanishes)
<1>1. SUFFICES ASSUME ~ArtifactFaults
               PROVE  Spec => []NoSuccessVanishes
  OBVIOUS
<1>2. /\ TypeInv /\ TrackInv /\ TallyInv /\ AccountInv /\ [Next]_vars
      /\ TypeInv' /\ TallyInv' /\ RowInv'
      => AccountInv'
  BY <1>1, AccountStep
<1>3. TypeInv /\ CustodyInv /\ TallyInv /\ [Next]_vars => TallyInv'
  BY TallyStep
<1>4. TypeInv /\ TrackInv /\ [Next]_vars => TrackInv'
  BY TrackStep
<1>5. TypeInv /\ TrackInv /\ TallyInv /\ AccountInv => NoSuccessVanishes
  BY SettledAccount
<1> QED
  BY <1>2, <1>3, <1>4, <1>5, AccountInit, TallyInit, TrackInit, RowHolds, CustodyHolds,
     FrameCorrect, PTL DEF Spec
=============================================================================
