------------------------- MODULE SuccessHooksProofs -------------------------
(***************************************************************************)
(* What holds of the success hooks for any number of threads and tasks,    *)
(* whatever metrics the results hold: the types, whole lines in the        *)
(* metrics file, how far each thread overruns an early stop, and that the  *)
(* stop comes from a stall and every stall brings it.                      *)
(***************************************************************************)
EXTENDS SuccessHooks, FiniteSetTheorems, TLAPS

(* The threads that have leased a task whose metric the hook has not seen.  *)
Busy == {w \in Worker : pc[w] \in {"handler", "metrics", "lock", "write", "flush",
                                   "early_stopping"}}

Number == {v \in Metric : IsNumber(v)}

(* Every value the hook counted belongs to a task of its own.               *)
CountInv ==
  /\ IsFiniteSet(Busy)
  /\ counter \in Nat
  /\ counter + Cardinality(Busy) + left <= NumTasks

(* What is at hand at a place: a number, or a text where best is not one.   *)
TypeInv ==
  /\ pc \in [Worker -> ThreadPC]
  /\ metric \in [Worker -> Metric \cup {NoBest}]
  /\ left \in Nat
  /\ threadLock \in Worker \cup {Nobody}
  /\ fileLock \in Worker \cup {Stranger, Nobody}
  /\ begun \subseteq Worker \cup {Stranger}
  /\ best \in Metric \cup {NoBest}
  /\ stopping \in BOOLEAN
  /\ observed \in Seq(Number)
  /\ overrun \in [Worker -> Nat] /\ raised \in [Worker -> Nat]

(* The file's lock is held from before a line is begun until it is whole.   *)
LineInv ==
  /\ \A w \in Worker : pc[w] \in {"write", "flush"} => fileLock = w
  /\ begun \subseteq {fileLock}

(* A thread about to lease has had an exception for each task it took since *)
(* the hook tripped, or the hook has not; one with a task may be one ahead. *)
OverrunInv ==
  \A w \in Worker :
    /\ overrun[w] <= raised[w] + (IF pc[w] = "lease" THEN 0 ELSE 1)
    /\ ~stopping => overrun[w] = 0

-----------------------------------------------------------------------------
(* Whatever a thread does, it goes from one place to another.               *)
LEMMA StepGoes ==
  ASSUME NEW w \in Worker, Step(w)
  PROVE  \E p \in ThreadPC : Goto(w, p)
BY DEF Step, Metrics, LeaseTask, NothingToLease, HandlerReturns, HandlerFails, EnterMetrics,
       TakeFileLock, LockTimesOut, WriteLine, FlushAndUnlock, EarlyStopping, RecordSuccess,
       StoreFails, Raise,
       AskStopFn, AfterStopFn, ThreadPC

LEMMA ObserveTypes ==
  ASSUME TypeInv, NEW v \in Metric \cup {NoBest}, Observe(v)
  PROVE  /\ best' \in Metric \cup {NoBest}
         /\ stopping' \in BOOLEAN /\ (stopping => stopping')
         /\ observed' \in Seq(Number)
<1>1. CASE v = NoBest
  BY <1>1 DEF Observe, stopVars, TypeInv
<1>2. CASE v # NoBest
  <2>1. observed' = IF IsNumber(v) THEN Append(observed, v) ELSE observed
    BY <1>2 DEF Observe
  <2>2. observed' \in Seq(Number)
    <3>1. observed \in Seq(Number) /\ (IsNumber(v) => v \in Number)
      BY <1>2 DEF TypeInv, Number, NoBest, IsNumber
    <3> QED
      BY <2>1, <3>1
  <2>3. /\ best' \in {best, v}
        /\ stopping' \in {stopping, Trips(v)}
    BY <1>2 DEF Observe
  <2>4. stopping \in BOOLEAN /\ best \in Metric \cup {NoBest}
    BY DEF TypeInv
  <2>5. best' \in Metric \cup {NoBest}
    BY <2>3, <2>4
  <2>6. stopping' \in BOOLEAN /\ (stopping => stopping')
    <3>1. CASE stopping' = stopping
      BY <2>4, <3>1
    <3>2. CASE stopping' = Trips(v)
      BY <3>2, Zenon DEF Trips
    <3> QED
      BY <2>3, <3>1, <3>2
  <2> QED
    BY <2>2, <2>5, <2>6
<1> QED
  BY <1>1, <1>2

LEMMA TypeStep ==
  ASSUME TypeInv, [Next]_vars
  PROVE  TypeInv'
<1>0. pc \in [Worker -> ThreadPC] /\ metric \in [Worker -> Metric \cup {NoBest}]
  BY DEF TypeInv
<1>1. ASSUME NEW w \in Worker, Step(w), ~EarlyStopping(w)
      PROVE  TypeInv'
  <2>1. pc' \in [Worker -> ThreadPC]
    BY <1>0, <1>1, StepGoes DEF Goto
  <2>2. UNCHANGED stopVars
    BY <1>1
    DEF Step, Metrics, LeaseTask, NothingToLease, HandlerReturns, HandlerFails, EnterMetrics,
        TakeFileLock, LockTimesOut, WriteLine, FlushAndUnlock, RecordSuccess, StoreFails, Raise,
        AskStopFn
  <2>3. metric' \in [Worker -> Metric \cup {NoBest}] /\ left' \in Nat
    BY <1>0, <1>1
    DEF Step, Metrics, LeaseTask, NothingToLease, HandlerReturns, HandlerFails, EnterMetrics,
        TakeFileLock, LockTimesOut, WriteLine, FlushAndUnlock, RecordSuccess, StoreFails, Raise,
        AskStopFn,
        SomethingLeft, TypeInv
  <2>4. /\ threadLock' \in Worker \cup {Nobody}
        /\ fileLock' \in Worker \cup {Stranger, Nobody}
        /\ begun' \subseteq Worker \cup {Stranger}
    BY <1>1
    DEF Step, Metrics, LeaseTask, NothingToLease, HandlerReturns, HandlerFails, EnterMetrics,
        TakeFileLock, LockTimesOut, WriteLine, FlushAndUnlock, RecordSuccess, StoreFails, Raise,
        AskStopFn,
        TypeInv, lineVars
  <2>5. \/ UNCHANGED afterVars
        \/ overrun' = [overrun EXCEPT ![w] = IF stopping THEN @ + 1 ELSE @] /\ UNCHANGED raised
        \/ raised' = [raised EXCEPT ![w] = IF stopping THEN @ + 1 ELSE @] /\ UNCHANGED overrun
    BY <1>1
    DEF Step, Metrics, LeaseTask, NothingToLease, HandlerReturns, HandlerFails, EnterMetrics,
        TakeFileLock, LockTimesOut, WriteLine, FlushAndUnlock, RecordSuccess, StoreFails, Raise,
        AskStopFn
  <2>6. overrun' \in [Worker -> Nat] /\ raised' \in [Worker -> Nat]
    <3>1. overrun \in [Worker -> Nat] /\ raised \in [Worker -> Nat]
      BY DEF TypeInv
    <3>2. \A n \in Nat : (IF stopping THEN n + 1 ELSE n) \in Nat
      OBVIOUS
    <3>3. /\ (IF stopping THEN overrun[w] + 1 ELSE overrun[w]) \in Nat
          /\ (IF stopping THEN raised[w] + 1 ELSE raised[w]) \in Nat
      BY <3>1, <3>2
    <3> QED
      BY <2>5, <3>1, <3>3 DEF afterVars
  <2> QED
    BY <2>1, <2>2, <2>3, <2>4, <2>6 DEF TypeInv, stopVars
<1>2. ASSUME NEW w \in Worker, EarlyStopping(w)
      PROVE  TypeInv'
  <2>1. pc' \in [Worker -> ThreadPC]
    BY <1>0, <1>2 DEF EarlyStopping, Goto, ThreadPC
  <2>2. metric[w] \in Metric \cup {NoBest} /\ Observe(metric[w])
    BY <1>0, <1>2 DEF EarlyStopping
  <2> QED
    BY <1>2, <2>1, <2>2, ObserveTypes DEF EarlyStopping, TypeInv, lineVars, afterVars
<1>3. CASE StrangerStep
  BY <1>3
  DEF StrangerStep, StrangerLocks, StrangerStarts, StrangerFlushes, StrangerUnlocks, TypeInv,
      threadVars, stopVars, afterVars
<1>4. CASE UNCHANGED vars
  BY <1>4 DEF vars, threadVars, lineVars, stopVars, afterVars, TypeInv
<1> QED
  BY <1>1, <1>2, <1>3, <1>4 DEF Next

LEMMA TypeInit ==
  ASSUME Init
  PROVE  TypeInv
<1>1. observed \in Seq(Number) /\ stopping \in BOOLEAN
  <2>1. observed = <<>> /\ stopping = FALSE
    BY DEF Init
  <2>2. <<>> \in Seq(Number)
    OBVIOUS
  <2> QED
    BY <2>1, <2>2, Zenon
<1>2. left \in Nat
  BY HooksAssumption DEF Init
<1>3. pc \in [Worker -> ThreadPC] /\ metric \in [Worker -> Metric \cup {NoBest}]
      /\ overrun \in [Worker -> Nat] /\ raised \in [Worker -> Nat]
  BY DEF Init, ThreadPC
<1> QED
  BY <1>1, <1>2, <1>3 DEF Init, TypeInv

-----------------------------------------------------------------------------
(* The counter.                                                             *)
LEMMA CountStep ==
  ASSUME TypeInv, CountInv, [Next]_vars
  PROVE  CountInv'
<1>0. /\ pc \in [Worker -> ThreadPC] /\ left \in Nat /\ NumTasks \in Nat /\ counter \in Nat
      /\ IsFiniteSet(Busy) /\ Cardinality(Busy) \in Nat
      /\ counter + Cardinality(Busy) + left <= NumTasks
  BY FS_CardinalityType, HooksAssumption DEF TypeInv, CountInv
<1>1. ASSUME NEW w \in Worker, LeaseTask(w)
      PROVE  CountInv'
  <2>1. Busy' = Busy \cup {w} /\ w \notin Busy
    BY <1>0, <1>1 DEF LeaseTask, At, Goto, Busy
  <2>2. IsFiniteSet(Busy') /\ Cardinality(Busy') = Cardinality(Busy) + 1
    BY <1>0, <2>1, FS_AddElement
  <2>3. left > 0 /\ left' = left - 1 /\ counter' = counter
    BY <1>1 DEF LeaseTask, SomethingLeft, stopVars
  <2> QED
    BY <1>0, <2>2, <2>3 DEF CountInv
<1>2. ASSUME NEW w \in Worker, HandlerFails(w)
      PROVE  CountInv'
  <2>1. Busy' = Busy \ {w} /\ w \in Busy
    BY <1>0, <1>2 DEF HandlerFails, Raise, At, Goto, Busy
  <2>2. IsFiniteSet(Busy') /\ Cardinality(Busy') = Cardinality(Busy) - 1
    BY <1>0, <2>1, FS_RemoveElement
  <2>3. left' = left /\ counter' = counter
    BY <1>2 DEF HandlerFails, Raise, stopVars
  <2> QED
    BY <1>0, <2>2, <2>3 DEF CountInv
<1>3. ASSUME NEW w \in Worker, EarlyStopping(w)
      PROVE  CountInv'
  <2>1. Busy' = Busy \ {w} /\ w \in Busy
    BY <1>0, <1>3 DEF EarlyStopping, At, Goto, Busy
  <2>2. IsFiniteSet(Busy') /\ Cardinality(Busy') = Cardinality(Busy) - 1
    BY <1>0, <2>1, FS_RemoveElement
  <2>3. counter' \in {0, counter, counter + 1}
    <3>1. counter' = counter \/ counter' = 0 \/ counter' = Counted(metric[w])
      BY <1>3 DEF EarlyStopping, Observe, stopVars
    <3> QED
      BY <3>1 DEF Counted
  <2>4. left' = left
    BY <1>3 DEF EarlyStopping
  <2> QED
    BY <1>0, <2>2, <2>3, <2>4 DEF CountInv
<1>4. ASSUME Busy' = Busy, left' = left, counter' = counter
      PROVE  CountInv'
  BY <1>0, <1>4 DEF CountInv
<1>5. ASSUME NEW w \in Worker, Step(w), ~LeaseTask(w), ~HandlerFails(w), ~EarlyStopping(w)
      PROVE  CountInv'
  <2>1. Busy' = Busy
    BY <1>0, <1>5
    DEF Step, Metrics, NothingToLease, HandlerReturns, EnterMetrics, TakeFileLock,
        LockTimesOut, GivesUp, WriteLine, FlushAndUnlock, RecordSuccess, StoreFails, Raise,
        AskStopFn, AfterStopFn,
        At, Goto, Busy
  <2>2. left' = left /\ counter' = counter
    BY <1>5
    DEF Step, Metrics, NothingToLease, HandlerReturns, EnterMetrics, TakeFileLock,
        LockTimesOut, WriteLine, FlushAndUnlock, RecordSuccess, StoreFails, Raise,
        AskStopFn, stopVars
  <2> QED
    BY <1>4, <2>1, <2>2
<1>6. CASE StrangerStep \/ UNCHANGED vars
  BY <1>4, <1>6
  DEF StrangerStep, StrangerLocks, StrangerStarts, StrangerFlushes, StrangerUnlocks, vars,
      threadVars, stopVars, Busy
<1> QED
  BY <1>1, <1>2, <1>3, <1>5, <1>6 DEF Next

LEMMA CountInit ==
  ASSUME Init
  PROVE  CountInv
<1>1. Busy = {}
  BY DEF Init, Busy
<1>2. IsFiniteSet(Busy) /\ Cardinality(Busy) = 0
  BY <1>1, FS_EmptySet, Zenon
<1>3. NumTasks \in Nat /\ left = NumTasks /\ counter = 0
  BY HooksAssumption DEF Init
<1> QED
  BY <1>2, <1>3 DEF CountInv

(* Every variable keeps its type; the counter of the early-stopping hook    *)
(* counts each task of the run once at most, whoever observed it.           *)
THEOREM TypeCorrect == Spec => []TypeOK
<1>1. TypeInv /\ CountInv /\ [Next]_vars => (TypeInv /\ CountInv)'
  BY TypeStep, CountStep
<1>2. TypeInv /\ CountInv => TypeOK
  <2>1. ASSUME TypeInv, CountInv
        PROVE  left \in 0 .. NumTasks /\ counter \in 0 .. NumTasks
    <3>1. Cardinality(Busy) \in Nat /\ NumTasks \in Nat /\ left \in Nat
      BY <2>1, FS_CardinalityType, HooksAssumption DEF CountInv, TypeInv
    <3> QED
      BY <2>1, <3>1 DEF CountInv
  <2> QED
    BY <2>1 DEF TypeInv, TypeOK, Number
<1> QED
  BY <1>1, <1>2, TypeInit, CountInit, PTL DEF Spec

-----------------------------------------------------------------------------
(* The lines.                                                               *)
LEMMA LineStep ==
  ASSUME TypeInv, LineInv, [Next]_vars
  PROVE  LineInv'
<1>0. /\ pc \in [Worker -> ThreadPC] /\ Stranger \notin Worker /\ Nobody \notin Worker
      /\ begun \subseteq Worker \cup {Stranger}
  BY HooksAssumption DEF TypeInv
<1>1. ASSUME NEW w \in Worker, TakeFileLock(w)
      PROVE  LineInv'
  <2>1. \A v \in Worker : pc[v] \notin {"write", "flush"}
    BY <1>0, <1>1 DEF TakeFileLock, Lockable, LineInv
  <2>2. begun = {}
    BY <1>0, <1>1, HooksAssumption DEF TakeFileLock, Lockable, LineInv
  <2> QED
    BY <1>0, <1>1, <2>1, <2>2 DEF TakeFileLock, Goto, LineInv
<1>2. ASSUME NEW w \in Worker, WriteLine(w)
      PROVE  LineInv'
  BY <1>0, <1>2 DEF WriteLine, At, Goto, LineInv
<1>3. ASSUME NEW w \in Worker, FlushAndUnlock(w)
      PROVE  LineInv'
  BY <1>0, <1>3 DEF FlushAndUnlock, At, Goto, LineInv
<1>4. ASSUME NEW w \in Worker, NEW p \in ThreadPC \ {"write", "flush"}, Goto(w, p),
             UNCHANGED <<fileLock, begun>>
      PROVE  LineInv'
  BY <1>0, <1>4 DEF Goto, LineInv
<1>5. ASSUME NEW w \in Worker, Step(w), ~TakeFileLock(w), ~WriteLine(w), ~FlushAndUnlock(w)
      PROVE  LineInv'
  <2>1. UNCHANGED <<fileLock, begun>>
    BY <1>5
    DEF Step, Metrics, LeaseTask, NothingToLease, HandlerReturns, HandlerFails, EnterMetrics,
        LockTimesOut, EarlyStopping, RecordSuccess, StoreFails, Raise, AskStopFn, lineVars
  <2>2. \E p \in ThreadPC \ {"write", "flush"} : Goto(w, p)
    BY <1>5
    DEF Step, Metrics, LeaseTask, NothingToLease, HandlerReturns, HandlerFails, EnterMetrics,
        LockTimesOut, EarlyStopping, RecordSuccess, StoreFails, Raise,
        AskStopFn, AfterStopFn, ThreadPC
  <2> QED
    BY <1>4, <2>1, <2>2
<1>6. CASE StrangerStep
  BY <1>0, <1>6, HooksAssumption
  DEF StrangerStep, StrangerLocks, StrangerStarts, StrangerFlushes, StrangerUnlocks, LineInv,
      threadVars
<1>7. CASE UNCHANGED vars
  BY <1>7 DEF vars, threadVars, lineVars, LineInv
<1> QED
  BY <1>1, <1>2, <1>3, <1>5, <1>6, <1>7 DEF Next

(* Nobody begins a line of the metrics file before the last one is whole,   *)
(* however many threads and whatever other process write to it.             *)
THEOREM LinesAreWhole == Spec => []WholeLines
<1>1. TypeInv /\ LineInv /\ [Next]_vars => (TypeInv /\ LineInv)'
  BY TypeStep, LineStep
<1>2. LineInv => WholeLines
  <2>1. ASSUME LineInv
        PROVE  Cardinality(begun) <= 1
    <3>1. begun = {} \/ begun = {fileLock}
      BY <2>1 DEF LineInv
    <3>2. Cardinality(begun) = 0 \/ Cardinality(begun) = 1
      BY <3>1, FS_EmptySet, FS_Singleton, Zenon
    <3> QED
      BY <3>2
  <2> QED
    BY <2>1 DEF WholeLines
<1>3. Init => LineInv
  BY DEF Init, LineInv
<1> QED
  BY <1>1, <1>2, <1>3, TypeInit, PTL DEF Spec

-----------------------------------------------------------------------------
(* The stop.                                                                *)
LEMMA OverrunStep ==
  ASSUME TypeInv, OverrunInv, [Next]_vars
  PROVE  OverrunInv'
<1>0. /\ pc \in [Worker -> ThreadPC] /\ metric \in [Worker -> Metric \cup {NoBest}]
      /\ overrun \in [Worker -> Nat] /\ raised \in [Worker -> Nat]
  BY DEF TypeInv
<1>1. ASSUME NEW w \in Worker, LeaseTask(w)
      PROVE  OverrunInv'
  <2>1. /\ pc[w] = "lease" /\ pc' = [pc EXCEPT ![w] = "handler"] /\ UNCHANGED <<stopping, raised>>
        /\ overrun' = [overrun EXCEPT ![w] = IF stopping THEN @ + 1 ELSE @]
    BY <1>1 DEF LeaseTask, At, Goto, stopVars
  <2>2. overrun[w] <= raised[w] /\ (~stopping => overrun[w] = 0)
    BY <1>0, <2>1 DEF OverrunInv
  <2>3. \A v \in Worker \ {w} : overrun'[v] = overrun[v] /\ pc'[v] = pc[v]
    BY <1>0, <2>1
  <2>4. overrun'[w] <= raised'[w] + 1 /\ pc'[w] = "handler" /\ (~stopping' => overrun'[w] = 0)
    BY <1>0, <2>1, <2>2
  <2> QED
    BY <2>1, <2>3, <2>4 DEF OverrunInv
<1>2. ASSUME NEW w \in Worker, Raise(w), pc[w] # "lease"
      PROVE  OverrunInv'
  <2>1. /\ pc' = [pc EXCEPT ![w] = "lease"] /\ UNCHANGED <<stopping, overrun>>
        /\ raised' = [raised EXCEPT ![w] = IF stopping THEN @ + 1 ELSE @]
    BY <1>2 DEF Raise, Goto, stopVars
  <2>2. overrun[w] <= raised[w] + 1 /\ (~stopping => overrun[w] = 0)
    BY <1>2 DEF OverrunInv
  <2>3. \A v \in Worker \ {w} : raised'[v] = raised[v] /\ pc'[v] = pc[v]
    BY <1>0, <2>1
  <2>4. overrun'[w] <= raised'[w] /\ pc'[w] = "lease" /\ (~stopping' => overrun'[w] = 0)
    BY <1>0, <2>1, <2>2
  <2>5. overrun'[w] <= raised'[w] + (IF pc'[w] = "lease" THEN 0 ELSE 1)
    BY <1>0, <2>1, <2>4
  <2> QED
    BY <2>1, <2>3, <2>4, <2>5 DEF OverrunInv
<1>3. ASSUME NEW w \in Worker, NEW p \in ThreadPC, Goto(w, p), UNCHANGED afterVars,
             stopping => stopping', p = "lease" => ~stopping
      PROVE  OverrunInv'
  <2>1. \A v \in Worker : overrun'[v] = overrun[v] /\ raised'[v] = raised[v]
    BY <1>3 DEF afterVars
  <2>2. \A v \in Worker \ {w} : pc'[v] = pc[v]
    BY <1>0, <1>3 DEF Goto
  <2>3. pc'[w] = p /\ (~stopping => overrun[w] = 0) /\ overrun[w] <= raised[w] + 1
    BY <1>0, <1>3 DEF Goto, OverrunInv
  <2>4. overrun'[w] <= raised'[w] + (IF pc'[w] = "lease" THEN 0 ELSE 1)
    BY <1>0, <1>3, <2>1, <2>3
  <2> QED
    BY <1>3, <2>1, <2>2, <2>3, <2>4 DEF OverrunInv
<1>4. ASSUME NEW w \in Worker, EarlyStopping(w)
      PROVE  OverrunInv'
  <2>1. stopping => stopping'
    BY <1>0, <1>4, ObserveTypes DEF EarlyStopping
  <2> QED
    BY <1>3, <1>4, <2>1 DEF EarlyStopping, ThreadPC
<1>5. ASSUME NEW w \in Worker, AskStopFn(w)
      PROVE  OverrunInv'
  <2>1. Goto(w, AfterStopFn) /\ UNCHANGED <<stopping, afterVars>>
    BY <1>5 DEF AskStopFn, stopVars
  <2>2. AfterStopFn \in ThreadPC /\ (AfterStopFn = "lease" => ~stopping)
    BY DEF AfterStopFn, ThreadPC
  <2> QED
    BY <1>3, <2>1, <2>2
<1>6. ASSUME NEW w \in Worker, Metrics(w) \/ RecordSuccess(w) \/ NothingToLease(w)
                               \/ (\E m \in Metric : HandlerReturns(w, m))
      PROVE  OverrunInv'
  <2>1. UNCHANGED <<stopping, afterVars>> /\ (\E p \in ThreadPC \ {"lease"} : Goto(w, p))
    BY <1>6
    DEF Metrics, RecordSuccess, NothingToLease, HandlerReturns, EnterMetrics, TakeFileLock,
        LockTimesOut, WriteLine, FlushAndUnlock, stopVars, ThreadPC
  <2> QED
    BY <1>3, <2>1
<1>7. ASSUME NEW w \in Worker, HandlerFails(w) \/ StoreFails(w)
      PROVE  OverrunInv'
  BY <1>2, <1>7 DEF HandlerFails, StoreFails, At
<1>8. CASE StrangerStep \/ UNCHANGED vars
  BY <1>8
  DEF StrangerStep, StrangerLocks, StrangerStarts, StrangerFlushes, StrangerUnlocks, vars,
      threadVars, stopVars, afterVars, OverrunInv
<1> QED
  BY <1>1, <1>4, <1>5, <1>6, <1>7, <1>8 DEF Next, Step

(* However many other threads there are, whatever handlers and the store    *)
(* do: after the hook tripped a thread takes one task more than run_once    *)
(* raises in it from then on, at the most.                                  *)
THEOREM StopIsHeeded == Spec => []StopsSoon
<1>1. TypeInv /\ OverrunInv /\ [Next]_vars => (TypeInv /\ OverrunInv)'
  BY TypeStep, OverrunStep
<1>2. TypeInv /\ OverrunInv => StopsSoon
  <2>1. ASSUME TypeInv, OverrunInv, NEW w \in Worker
        PROVE  overrun[w] <= 1 + raised[w]
    <3>1. overrun[w] \in Nat /\ raised[w] \in Nat
      BY <2>1 DEF TypeInv
    <3> QED
      BY <2>1, <3>1 DEF OverrunInv
  <2> QED
    BY <2>1 DEF StopsSoon
<1>3. Init => OverrunInv
  BY DEF Init, OverrunInv
<1> QED
  BY <1>1, <1>2, <1>3, TypeInit, PTL DEF Spec

-----------------------------------------------------------------------------
(***************************************************************************)
(* The stall.  No number seen is more than MinDelta above the best, and    *)
(* however long the numbers seen last are no higher than the one before    *)
(* them, they were counted.                                                *)
(***************************************************************************)
Falling(k) == \A i \in k .. Len(observed) : observed[i][2] <= observed[k][2]

BestInv ==
  /\ best = NoBest => observed = <<>>
  /\ ~IsNumber(best) => ~stopping
  /\ IsNumber(best) =>
       /\ counter < Len(observed)
       /\ best = observed[Len(observed) - counter]
       /\ \A i \in DOMAIN observed : observed[i][2] <= best[2] + MinDelta
       /\ \A k \in DOMAIN observed : Falling(k) => Len(observed) - k <= counter

StallInv == BestInv /\ StopsAfterAStall

LEMMA NumberFacts ==
  ASSUME NEW v \in Number
  PROVE  v[1] = "number" /\ v[2] \in Int /\ v # NoBest
<1>1. v \in Metric /\ v[1] = "number"
  BY DEF Number, IsNumber
<1>2. \/ v \in {"number"} \X Int
      \/ v = <<"text", "">> \/ v = <<"absent", "">>
  BY <1>1, HooksAssumption
<1>3. <<"text", "">>[1] = "text" /\ <<"absent", "">>[1] = "absent"
  OBVIOUS
<1>4. v \in {"number"} \X Int /\ v # <<"absent", "">>
  BY <1>1, <1>2, <1>3
<1>5. v[2] \in Int
  BY <1>4
<1> QED
  BY <1>1, <1>4, <1>5 DEF NoBest

LEMMA OneMore ==
  ASSUME NEW s \in Seq(Number), NEW v \in Number
  PROVE  /\ Append(s, v) \in Seq(Number) /\ Len(Append(s, v)) = Len(s) + 1 /\ Len(s) \in Nat
         /\ DOMAIN s = 1 .. Len(s) /\ DOMAIN Append(s, v) = 1 .. Len(s) + 1
         /\ \A i \in DOMAIN s : Append(s, v)[i] = s[i]
         /\ Append(s, v)[Len(s) + 1] = v
OBVIOUS

(* A stall that was seen stays seen.                                        *)
LEMMA StallStays ==
  ASSUME TypeInv, NEW v \in Number, observed' = Append(observed, v), NEW slack \in Nat, Stall(slack)
  PROVE  Stall(slack)'
<1>1. PICK b \in DOMAIN observed :
        /\ b + Patience <= Len(observed)
        /\ \A i \in b + 1 .. b + Patience : observed[i][2] <= observed[b][2] + slack
  BY DEF Stall
<1>2. observed \in Seq(Number) /\ Patience \in Nat
  BY HooksAssumption DEF TypeInv
<1>3. /\ b \in DOMAIN observed' /\ b + Patience <= Len(observed')
      /\ \A i \in DOMAIN observed : observed'[i] = observed[i]
  BY <1>1, <1>2
<1>4. \A i \in b + 1 .. b + Patience : i \in DOMAIN observed
  BY <1>1, <1>2
<1>5. \A i \in b + 1 .. b + Patience : observed'[i][2] <= observed'[b][2] + slack
  BY <1>1, <1>3, <1>4
<1> QED
  BY <1>3, <1>5 DEF Stall

(* A stall not seen before ends with the number just seen.                  *)
LEMMA StallEndsHere ==
  ASSUME TypeInv, NEW v \in Number, observed' = Append(observed, v), Stall(0)', ~Stall(0)
  PROVE  \E b \in DOMAIN observed' : Falling(b)' /\ Len(observed') - b = Patience
<1>1. PICK b \in DOMAIN observed' :
        /\ b + Patience <= Len(observed')
        /\ \A i \in b + 1 .. b + Patience : observed'[i][2] <= observed'[b][2] + 0
  BY DEF Stall
<1>2. /\ observed \in Seq(Number) /\ Patience \in Nat \ {0}
      /\ observed' \in Seq(Number) /\ Len(observed') = Len(observed) + 1
      /\ \A i \in DOMAIN observed : observed'[i] = observed[i]
  <2>1. observed \in Seq(Number) /\ Patience \in Nat \ {0}
    BY HooksAssumption DEF TypeInv
  <2> QED
    BY <2>1, OneMore
<1>3. ~(b + Patience <= Len(observed))
  <2>1. SUFFICES ASSUME b + Patience <= Len(observed)
                 PROVE  FALSE
    OBVIOUS
  <2>2. b \in DOMAIN observed /\ (\A i \in b + 1 .. b + Patience : i \in DOMAIN observed)
    BY <1>1, <1>2, <2>1
  <2>3. \A i \in b + 1 .. b + Patience : observed[i][2] <= observed[b][2] + 0
    BY <1>1, <1>2, <2>2
  <2> QED
    BY <2>1, <2>2, <2>3 DEF Stall
<1>4. Len(observed') - b = Patience
  BY <1>1, <1>2, <1>3
<1>5. \A i \in b .. Len(observed') : observed'[i][2] <= observed'[b][2]
  <2>1. SUFFICES ASSUME NEW i \in b .. Len(observed')
                 PROVE  observed'[i][2] <= observed'[b][2]
    OBVIOUS
  <2>2. observed'[b] \in Number
    BY <1>1, <1>2
  <2>3. observed'[b][2] \in Int
    BY <2>2, NumberFacts
  <2>4. CASE i = b
    BY <2>3, <2>4
  <2>5. CASE i # b
    <3>1. i \in b + 1 .. b + Patience
      BY <1>1, <1>2, <1>4, <2>5
    <3>2. observed'[i][2] <= observed'[b][2] + 0
      BY <1>1, <3>1
    <3> QED
      BY <2>3, <3>2
  <2> QED
    BY <2>4, <2>5
<1> QED
  BY <1>4, <1>5 DEF Falling


(* The first number becomes the best, and there is none before it.          *)
LEMMA FirstNumber ==
  ASSUME TypeInv, BestInv, best = NoBest, NEW v \in Number, Observe(v)
  PROVE  StallInv'
<1>1. /\ observed' = <<v>> /\ best' = v /\ counter' = 0 /\ ~stopping'
  <2>1. v # NoBest /\ IsNumber(v) /\ ~IsNumber(best)
    BY NumberFacts DEF IsNumber, NoBest
  <2>2. observed' = Append(<<>>, v) /\ best' = v /\ counter' = 0 /\ stopping' = stopping
    BY <2>1 DEF Observe, BestInv
  <2> QED
    BY <2>1, <2>2 DEF BestInv
<1>2. /\ Len(observed') = 1 /\ DOMAIN observed' = {1} /\ observed'[1] = v /\ v[2] \in Int
      /\ MinDelta \in Nat /\ Patience \in Nat \ {0}
  <2>1. Len(<<v>>) = 1 /\ DOMAIN <<v>> = {1} /\ <<v>>[1] = v
    OBVIOUS
  <2>2. MinDelta \in Nat /\ Patience \in Nat \ {0}
    BY HooksAssumption
  <2> QED
    BY <1>1, <2>1, <2>2, NumberFacts
<1>3. BestInv'
  <2>1. v # NoBest /\ v[2] <= v[2] + MinDelta
    BY <1>2, NumberFacts
  <2>2. \A i \in DOMAIN observed' : observed'[i][2] <= best'[2] + MinDelta
    BY <1>1, <1>2, <2>1
  <2>3. counter' < Len(observed') /\ best' = observed'[Len(observed') - counter']
    BY <1>1, <1>2
  <2>4. \A k \in DOMAIN observed' : Len(observed') - k <= counter'
    BY <1>1, <1>2
  <2> QED
    BY <1>1, <2>1, <2>2, <2>3, <2>4 DEF BestInv
<1>4. ~Stall(0)'
  <2>1. ~(1 + Patience <= 1)
    BY <1>2
  <2> QED
    BY <1>2, <2>1 DEF Stall
<1> QED
  BY <1>1, <1>3, <1>4 DEF StallInv, StopsAfterAStall

(* Every further number improves on the best or is counted.                 *)
LEMMA NextNumber ==
  ASSUME TypeInv, counter \in Nat, StallInv, best \in Number, NEW v \in Number, Observe(v)
  PROVE  StallInv'
<1>1. /\ observed' = Append(observed, v)
      /\ best' = IF Improves(v) THEN v ELSE best
      /\ counter' = Counted(v)
      /\ stopping' = Trips(v)
  BY NumberFacts DEF Observe, IsNumber
<1>2. /\ observed \in Seq(Number) /\ v[2] \in Int /\ best[2] \in Int
      /\ MinDelta \in Nat /\ Patience \in Nat \ {0} /\ stopping \in BOOLEAN
  BY NumberFacts, HooksAssumption DEF TypeInv
<1>3. /\ Len(observed) \in Nat /\ Len(observed') = Len(observed) + 1
      /\ DOMAIN observed = 1 .. Len(observed) /\ DOMAIN observed' = 1 .. Len(observed) + 1
      /\ \A i \in DOMAIN observed : observed'[i] = observed[i]
      /\ observed'[Len(observed) + 1] = v
  BY <1>1, <1>2, OneMore
<1>4. /\ counter < Len(observed)
      /\ best = observed[Len(observed) - counter]
      /\ \A i \in DOMAIN observed : observed[i][2] <= best[2] + MinDelta
      /\ \A k \in DOMAIN observed : Falling(k) => Len(observed) - k <= counter
  BY NumberFacts DEF StallInv, BestInv, IsNumber
<1>5. \A i \in DOMAIN observed : observed[i] \in Number /\ observed[i][2] \in Int
  BY <1>2, NumberFacts
<1>6. best' \in Number /\ best'[2] \in Int /\ best[2] <= best'[2]
  BY <1>1, <1>2, NumberFacts DEF Improves
<1>7. /\ counter' < Len(observed')
      /\ best' = observed'[Len(observed') - counter']
  <2>1. CASE Improves(v)
    <3>1. counter' = 0 /\ best' = v
      BY <1>1, <2>1 DEF Counted
    <3> QED
      BY <1>3, <3>1
  <2>2. CASE ~Improves(v)
    <3>1. counter' = counter + 1 /\ best' = best
      BY <1>1, <2>2 DEF Counted
    <3>2. Len(observed') - counter' = Len(observed) - counter /\ Len(observed) - counter \in DOMAIN observed
      BY <1>3, <1>4, <3>1
    <3> QED
      BY <1>3, <1>4, <3>1, <3>2
  <2> QED
    BY <2>1, <2>2
<1>8. \A i \in DOMAIN observed' : observed'[i][2] <= best'[2] + MinDelta
  <2>1. v[2] <= best'[2] + MinDelta
    BY <1>1, <1>2 DEF Improves
  <2>2. ASSUME NEW i \in DOMAIN observed
        PROVE  observed[i][2] <= best'[2] + MinDelta
    BY <1>2, <1>4, <1>5, <1>6
  <2>3. \A i \in DOMAIN observed' : i \in DOMAIN observed \/ i = Len(observed) + 1
    BY <1>3
  <2> QED
    BY <1>3, <2>1, <2>2, <2>3
<1>9. ASSUME NEW k \in DOMAIN observed', Falling(k)'
      PROVE  Len(observed') - k <= counter'
  <2>1. CASE k = Len(observed) + 1
    BY <1>1, <1>3, <2>1 DEF Counted
  <2>2. CASE k # Len(observed) + 1
    <3>1. k \in DOMAIN observed /\ k \in Nat
      BY <1>3, <2>2
    <3>2. v[2] <= observed[k][2]
      <4>1. Len(observed) + 1 \in k .. Len(observed')
        BY <1>3, <3>1
      <4> QED
        BY <1>3, <1>9, <3>1, <4>1 DEF Falling
    <3>3. Falling(k)
      <4>1. SUFFICES ASSUME NEW i \in k .. Len(observed)
                     PROVE  observed[i][2] <= observed[k][2]
        BY DEF Falling
      <4>2. i \in DOMAIN observed /\ i \in k .. Len(observed')
        BY <1>3, <3>1
      <4> QED
        BY <1>3, <1>9, <3>1, <4>2 DEF Falling
    <3>4. Len(observed) - k <= counter
      BY <1>4, <3>1, <3>3
    <3>5. ~Improves(v)
      <4>1. observed[k][2] \in Int /\ observed[k][2] <= best[2] + MinDelta
        BY <1>4, <1>5, <3>1
      <4> QED
        BY <1>2, <3>2, <4>1 DEF Improves
    <3>6. counter' = counter + 1
      BY <1>1, <3>5 DEF Counted
    <3> QED
      BY <1>3, <3>1, <3>4, <3>6
  <2> QED
    BY <2>1, <2>2
<1>10. BestInv'
  <2>1. IsNumber(best') /\ best' # NoBest
    BY <1>6, NumberFacts DEF IsNumber
  <2>2. \A k \in DOMAIN observed' : Falling(k)' => Len(observed') - k <= counter'
    BY <1>9
  <2> QED
    BY <1>7, <1>8, <2>1, <2>2 DEF BestInv
<1>11. stopping' => Stall(MinDelta)'
  <2>1. CASE stopping
    BY <1>1, <1>2, <2>1, StallStays DEF StallInv, StopsAfterAStall
  <2>2. CASE ~stopping /\ stopping'
    <3>1. Counted(v) >= Patience /\ counter' >= Patience
      BY <1>1, <2>2 DEF Trips
    <3> DEFINE b == Len(observed') - counter'
    <3>2. counter' \in Nat /\ b \in DOMAIN observed' /\ b + Patience <= Len(observed')
      BY <1>1, <1>2, <1>3, <1>7, <3>1 DEF Counted
    <3>3. \A i \in b + 1 .. b + Patience : i \in DOMAIN observed'
      BY <1>2, <1>3, <3>2
    <3>4. \A i \in b + 1 .. b + Patience : observed'[i][2] <= observed'[b][2] + MinDelta
      BY <1>7, <1>8, <3>3
    <3> QED
      BY <3>2, <3>4 DEF Stall
  <2> QED
    BY <2>1, <2>2
<1>12. Stall(0)' => stopping'
  <2>1. CASE Stall(0)
    <3>1. stopping
      BY <2>1, NumberFacts DEF StallInv, StopsAfterAStall, IsNumber
    <3> QED
      BY <1>1, <3>1 DEF Trips
  <2>2. ASSUME Stall(0)', ~Stall(0)
        PROVE  stopping'
    <3>1. PICK b \in DOMAIN observed' : Falling(b)' /\ Len(observed') - b = Patience
      BY <1>1, <2>2, StallEndsHere
    <3>2. Counted(v) >= Patience
      BY <1>1, <1>9, <3>1
    <3> QED
      BY <1>1, <3>2 DEF Trips
  <2> QED
    BY <2>1, <2>2
<1> QED
  BY <1>10, <1>11, <1>12 DEF StallInv, StopsAfterAStall

LEMMA ObserveStall ==
  ASSUME TypeInv, counter \in Nat, StallInv, NEW v \in Metric \cup {NoBest}, Observe(v)
  PROVE  StallInv'
<1>1. CASE v = NoBest
  BY <1>1 DEF Observe, stopVars, StallInv, BestInv, Falling, StopsAfterAStall, Stall
<1>2. CASE v # NoBest /\ best = NoBest /\ IsNumber(v)
  <2>1. v \in Number
    BY <1>2 DEF Number
  <2> QED
    BY <1>2, <2>1, FirstNumber DEF StallInv
<1>3. CASE v # NoBest /\ best = NoBest /\ ~IsNumber(v)
  <2>1. observed' = observed /\ best' = v /\ UNCHANGED stopping
    BY <1>3 DEF Observe
  <2>2. ~stopping
    BY <1>3 DEF StallInv, BestInv, IsNumber, NoBest
  <2> QED
    BY <1>3, <2>1, <2>2 DEF StallInv, BestInv, StopsAfterAStall
<1>4. CASE v # NoBest /\ best # NoBest /\ IsNumber(v) /\ IsNumber(best)
  <2>1. v \in Number /\ best \in Number
    BY <1>4 DEF Number, TypeInv
  <2> QED
    BY <2>1, NextNumber
<1>5. CASE v # NoBest /\ best # NoBest /\ ~(IsNumber(v) /\ IsNumber(best))
  <2>1. /\ best' = best /\ counter' = counter /\ stopping' = stopping
        /\ IsNumber(best) => observed' = observed
    BY <1>5 DEF Observe
  <2>2. CASE IsNumber(best)
    BY <2>1, <2>2 DEF StallInv, BestInv, Falling, StopsAfterAStall, Stall
  <2>3. CASE ~IsNumber(best)
    BY <1>5, <2>1, <2>3 DEF StallInv, BestInv, StopsAfterAStall
  <2> QED
    BY <2>2, <2>3
<1> QED
  BY <1>1, <1>2, <1>3, <1>4, <1>5

LEMMA StallStep ==
  ASSUME TypeInv, CountInv, StallInv, [Next]_vars
  PROVE  StallInv'
<1>1. ASSUME NEW w \in Worker, EarlyStopping(w)
      PROVE  StallInv'
  BY <1>1, ObserveStall DEF EarlyStopping, TypeInv, CountInv
<1>2. ASSUME UNCHANGED stopVars
      PROVE  StallInv'
  BY <1>2 DEF stopVars, StallInv, BestInv, Falling, StopsAfterAStall, Stall
<1>3. ASSUME NEW w \in Worker, Step(w), ~EarlyStopping(w)
      PROVE  StallInv'
  BY <1>2, <1>3
  DEF Step, Metrics, LeaseTask, NothingToLease, HandlerReturns, HandlerFails, EnterMetrics,
      TakeFileLock, LockTimesOut, WriteLine, FlushAndUnlock, RecordSuccess, StoreFails, Raise,
      AskStopFn
<1>4. CASE StrangerStep \/ UNCHANGED vars
  BY <1>2, <1>4
  DEF StrangerStep, StrangerLocks, StrangerStarts, StrangerFlushes, StrangerUnlocks, vars
<1> QED
  BY <1>1, <1>3, <1>4 DEF Next

(* The hook trips only after Patience numbers in a row that were no better  *)
(* than one before by more than MinDelta, and never lets Patience numbers   *)
(* in a row pass that did not exceed the one before them: for any patience, *)
(* any margin and any order in which the threads report.                    *)
THEOREM StopsAreDue == Spec => []StopsAfterAStall
<1>1. TypeInv /\ CountInv /\ StallInv /\ [Next]_vars => (TypeInv /\ CountInv /\ StallInv)'
  BY TypeStep, CountStep, StallStep
<1>2. StallInv => StopsAfterAStall
  BY DEF StallInv
<1>3. Init => StallInv
  <2>1. ASSUME Init
        PROVE  StallInv
    <3>1. best = NoBest /\ ~IsNumber(best) /\ observed = <<>> /\ ~stopping
      BY <2>1 DEF Init, IsNumber, NoBest
    <3> QED
      BY <3>1 DEF StallInv, BestInv, StopsAfterAStall
  <2> QED
    BY <2>1
<1> QED
  BY <1>1, <1>2, <1>3, TypeInit, CountInit, PTL DEF Spec
=============================================================================
