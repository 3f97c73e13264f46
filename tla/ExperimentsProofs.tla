-------------------------- MODULE ExperimentsProofs --------------------------
(***************************************************************************)
(* What holds of the results of any number of runs, whatever the           *)
(* configurations, grids, environments and handler results: the types,     *)
(* that a verdict once given is never revised, hence that a regression     *)
(* once reported stands, that an accepted configuration gives a run whose  *)
(* reproducibility can be assessed, and when a strict comparison is exact. *)
(***************************************************************************)
EXTENDS Experiments, FiniteSetTheorems, TLAPS

Verdict == {"SUCCEEDED", "DEGENERATE", "FAILED", "TIMED_OUT"}

(* A task has no result before its verdict, and after it only a success or  *)
(* a rejected one has.                                                      *)
TaskFits(task) ==
  /\ {"payload", "status", "result"} \subseteq DOMAIN task
  /\ task.status \in Verdict \cup {"PENDING"}
  /\ task.result # Null <=> task.status \in {"SUCCEEDED", "DEGENERATE"}

(* What a run is apart from its tasks follows from its configuration.       *)
RunFits(run) ==
  /\ {"config", "seed", "dataset_hashes", "config_hash", "env_snapshot", "tasks"} \subseteq DOMAIN run
  /\ run.config \in Submission /\ Accepted(run.config)
  /\ run.seed = run.config["seed"]
  /\ run.dataset_hashes = DatasetHashes(run.config)
  /\ run.config_hash = Text("sha256")
  /\ run.env_snapshot \in Environment
  /\ IsFiniteSet(DOMAIN run.tasks)
  /\ \A k \in DOMAIN run.tasks : TaskFits(run.tasks[k])

(* What create_run has left to store is not there yet.                      *)
RunsFit ==
  /\ DOMAIN runs \subseteq Run /\ DOMAIN unstored = DOMAIN runs
  /\ \A r \in DOMAIN runs :
       RunFits(runs[r]) /\ DOMAIN unstored[r] \cap DOMAIN runs[r].tasks = {}

(* How a run may go on: no task goes, and one that has its verdict stays as *)
(* it is.                                                                   *)
GoesOn(run, then) ==
  /\ DOMAIN run.tasks \subseteq DOMAIN then.tasks
  /\ \A k \in DOMAIN run.tasks :
       run.tasks[k].status # "PENDING" => then.tasks[k] = run.tasks[k]

(* The tasks that come are those create_run had left to store.              *)
ComesFromList(r) ==
  /\ DOMAIN unstored'[r] \subseteq DOMAIN unstored[r]
  /\ DOMAIN runs'[r].tasks \subseteq DOMAIN runs[r].tasks \cup DOMAIN unstored[r]

RunsGoOn ==
  /\ DOMAIN runs \subseteq DOMAIN runs'
  /\ \A r \in DOMAIN runs : GoesOn(runs[r], runs'[r]) /\ ComesFromList(r)

-----------------------------------------------------------------------------
LEMMA ObjectIsNotNull == \A f : Object(f) # Null
BY DEF Object, Null

(* Recording a verdict changes two fields of one task.                      *)
LEMMA RecordShape ==
  ASSUME RunsFit, NEW r, NEW k, NEW status, NEW result, Record(r, k, status, result)
  PROVE  /\ r \in DOMAIN runs /\ k \in DOMAIN runs[r].tasks /\ runs[r].tasks[k].status = "PENDING"
         /\ DOMAIN runs' = DOMAIN runs /\ unstored' = unstored
         /\ \A q \in DOMAIN runs : q # r => runs'[q] = runs[q]
         /\ DOMAIN runs'[r] = DOMAIN runs[r]
         /\ \A x \in DOMAIN runs[r] : x # "tasks" => runs'[r][x] = runs[r][x]
         /\ DOMAIN runs'[r].tasks = DOMAIN runs[r].tasks
         /\ \A j \in DOMAIN runs[r].tasks : j # k => runs'[r].tasks[j] = runs[r].tasks[j]
         /\ DOMAIN runs'[r].tasks[k] = DOMAIN runs[r].tasks[k]
         /\ runs'[r].tasks[k].payload = runs[r].tasks[k].payload
         /\ runs'[r].tasks[k].status = status
         /\ runs'[r].tasks[k].result = result
<1>1. r \in DOMAIN runs /\ k \in DOMAIN runs[r].tasks /\ runs[r].tasks[k].status = "PENDING"
  BY DEF Record
<1>2. RunFits(runs[r]) /\ TaskFits(runs[r].tasks[k])
  BY <1>1 DEF RunsFit, RunFits
<1>3. /\ DOMAIN runs' = DOMAIN runs /\ unstored' = unstored
      /\ \A q \in DOMAIN runs : q # r => runs'[q] = runs[q]
  BY DEF Record
<1>4. /\ DOMAIN runs'[r] = DOMAIN runs[r]
      /\ \A x \in DOMAIN runs[r] : x # "tasks" => runs'[r][x] = runs[r][x]
  BY <1>1 DEF Record
<1>5. /\ DOMAIN runs'[r].tasks = DOMAIN runs[r].tasks
      /\ \A j \in DOMAIN runs[r].tasks : j # k => runs'[r].tasks[j] = runs[r].tasks[j]
  BY <1>1, <1>2 DEF Record, RunFits
<1>6. /\ DOMAIN runs'[r].tasks[k] = DOMAIN runs[r].tasks[k]
      /\ runs'[r].tasks[k].payload = runs[r].tasks[k].payload
      /\ runs'[r].tasks[k].status = status
      /\ runs'[r].tasks[k].result = result
  BY <1>1, <1>2 DEF Record, RunFits, TaskFits
<1> QED
  BY <1>1, <1>3, <1>4, <1>5, <1>6

LEMMA RecordEffect ==
  ASSUME RunsFit, NEW r, NEW k, NEW status \in Verdict, NEW result, Record(r, k, status, result),
         result # Null <=> status \in {"SUCCEEDED", "DEGENERATE"}
  PROVE  RunsFit' /\ RunsGoOn
<1>1. r \in DOMAIN runs /\ k \in DOMAIN runs[r].tasks /\ runs[r].tasks[k].status = "PENDING"
  BY RecordShape
<1>2. RunFits(runs[r]) /\ TaskFits(runs[r].tasks[k])
  BY <1>1 DEF RunsFit, RunFits
<1>3. /\ DOMAIN runs' = DOMAIN runs /\ unstored' = unstored
      /\ \A q \in DOMAIN runs : q # r => runs'[q] = runs[q]
  BY RecordShape
<1>4. /\ DOMAIN runs'[r] = DOMAIN runs[r]
      /\ \A x \in DOMAIN runs[r] : x # "tasks" => runs'[r][x] = runs[r][x]
  BY RecordShape
<1>5. /\ DOMAIN runs'[r].tasks = DOMAIN runs[r].tasks
      /\ \A j \in DOMAIN runs[r].tasks : j # k => runs'[r].tasks[j] = runs[r].tasks[j]
  BY RecordShape
<1>6. /\ DOMAIN runs'[r].tasks[k] = DOMAIN runs[r].tasks[k]
      /\ runs'[r].tasks[k].status = status
      /\ runs'[r].tasks[k].result = result
  BY RecordShape
<1>7. TaskFits(runs'[r].tasks[k])
  BY <1>2, <1>6 DEF TaskFits
<1>8. RunFits(runs'[r])
  BY <1>2, <1>4, <1>5, <1>7 DEF RunFits
<1>9. GoesOn(runs[r], runs'[r]) /\ ComesFromList(r)
  BY <1>1, <1>3, <1>5 DEF GoesOn, ComesFromList
<1>10. \A q \in DOMAIN runs : q # r => GoesOn(runs[q], runs'[q]) /\ ComesFromList(q)
  BY <1>3 DEF GoesOn, ComesFromList
<1>11. \A q \in DOMAIN runs : DOMAIN unstored'[q] \cap DOMAIN runs'[q].tasks = {}
  BY <1>1, <1>3, <1>5 DEF RunsFit
<1> QED
  BY <1>3, <1>8, <1>9, <1>10, <1>11 DEF RunsFit, RunsGoOn

LEMMA CreateEffect ==
  ASSUME RunsFit, NEW r \in Run, NEW c \in Submission, NEW env \in Environment, NEW grid \in Grid,
         CreateRun(r, c, env, grid)
  PROVE  RunsFit' /\ RunsGoOn
<1>1. /\ r \notin DOMAIN runs /\ Accepted(c) /\ DOMAIN runs' = DOMAIN runs \cup {r}
      /\ runs'[r] = RunOf(c, env) /\ \A q \in DOMAIN runs : runs'[q] = runs[q]
      /\ DOMAIN unstored' = DOMAIN runs \cup {r}
      /\ \A q \in DOMAIN runs : unstored'[q] = unstored[q]
  BY DEF CreateRun, With, RunsFit
<1>2. RunFits(RunOf(c, env)) /\ DOMAIN RunOf(c, env).tasks = {}
  <2>1. RunOf(c, env).tasks = <<>> /\ DOMAIN <<>> = {}
    BY DEF RunOf
  <2>2. IsFiniteSet(DOMAIN RunOf(c, env).tasks)
    BY <2>1, FS_EmptySet
  <2> QED
    BY <1>1, <2>1, <2>2 DEF RunOf, RunFits
<1>3. \A q \in DOMAIN runs : GoesOn(runs[q], runs'[q]) /\ ComesFromList(q)
  BY <1>1 DEF GoesOn, ComesFromList
<1>4. \A q \in DOMAIN runs' : DOMAIN unstored'[q] \cap DOMAIN runs'[q].tasks = {}
  BY <1>1, <1>2 DEF RunsFit
<1> QED
  BY <1>1, <1>2, <1>3, <1>4 DEF RunsFit, RunsGoOn

(* A task comes to a run, everything else stays.                            *)
LEMMA CreateTaskShape ==
  ASSUME RunsFit, NEW r, NEW k, CreateTask(r, k)
  PROVE  /\ r \in DOMAIN runs /\ k \in DOMAIN unstored[r] /\ k \notin DOMAIN runs[r].tasks
         /\ DOMAIN runs' = DOMAIN runs /\ DOMAIN unstored' = DOMAIN unstored
         /\ \A q \in DOMAIN runs : q # r => runs'[q] = runs[q] /\ unstored'[q] = unstored[q]
         /\ DOMAIN unstored'[r] = DOMAIN unstored[r] \ {k}
         /\ DOMAIN runs'[r] = DOMAIN runs[r]
         /\ \A x \in DOMAIN runs[r] : x # "tasks" => runs'[r][x] = runs[r][x]
         /\ DOMAIN runs'[r].tasks = DOMAIN runs[r].tasks \cup {k}
         /\ \A j \in DOMAIN runs[r].tasks : runs'[r].tasks[j] = runs[r].tasks[j]
         /\ runs'[r].tasks[k] = [payload |-> unstored[r][k], status |-> "PENDING", result |-> Null]
<1> DEFINE task == [payload |-> unstored[r][k], status |-> "PENDING", result |-> Null]
<1>1. r \in DOMAIN runs /\ k \in DOMAIN unstored[r] /\ k \notin DOMAIN runs[r].tasks
  BY DEF CreateTask, RunsFit
<1>2. RunFits(runs[r]) /\ DOMAIN unstored = DOMAIN runs
  BY <1>1 DEF RunsFit
<1>3. /\ runs' = [runs EXCEPT ![r].tasks = With(@, k, task)]
      /\ unstored' = [unstored EXCEPT ![r] = Restrict(@, DOMAIN @ \ {k})]
  BY DEF CreateTask
<1> HIDE DEF task
<1>4. /\ DOMAIN runs' = DOMAIN runs /\ DOMAIN unstored' = DOMAIN unstored
      /\ \A q \in DOMAIN runs : q # r => runs'[q] = runs[q] /\ unstored'[q] = unstored[q]
      /\ unstored'[r] = Restrict(unstored[r], DOMAIN unstored[r] \ {k})
  BY <1>1, <1>2, <1>3
<1>5. /\ DOMAIN runs'[r] = DOMAIN runs[r]
      /\ \A x \in DOMAIN runs[r] : x # "tasks" => runs'[r][x] = runs[r][x]
      /\ runs'[r].tasks = With(runs[r].tasks, k, task)
  BY <1>1, <1>2, <1>3 DEF RunFits
<1>6. /\ DOMAIN With(runs[r].tasks, k, task) = DOMAIN runs[r].tasks \cup {k}
      /\ With(runs[r].tasks, k, task)[k] = task
      /\ \A j \in DOMAIN runs[r].tasks : With(runs[r].tasks, k, task)[j] = runs[r].tasks[j]
  BY <1>1 DEF With
<1>7. DOMAIN Restrict(unstored[r], DOMAIN unstored[r] \ {k}) = DOMAIN unstored[r] \ {k}
  BY DEF Restrict
<1> QED
  BY <1>1, <1>4, <1>5, <1>6, <1>7 DEF task

LEMMA CreateTaskEffect ==
  ASSUME RunsFit, NEW r, NEW k, CreateTask(r, k)
  PROVE  RunsFit' /\ RunsGoOn
<1>1. /\ r \in DOMAIN runs /\ k \in DOMAIN unstored[r] /\ k \notin DOMAIN runs[r].tasks
      /\ DOMAIN runs' = DOMAIN runs /\ DOMAIN unstored' = DOMAIN unstored
      /\ \A q \in DOMAIN runs : q # r => runs'[q] = runs[q] /\ unstored'[q] = unstored[q]
      /\ DOMAIN unstored'[r] = DOMAIN unstored[r] \ {k}
  BY CreateTaskShape
<1>2. /\ DOMAIN runs'[r] = DOMAIN runs[r]
      /\ \A x \in DOMAIN runs[r] : x # "tasks" => runs'[r][x] = runs[r][x]
  BY CreateTaskShape
<1>3. /\ DOMAIN runs'[r].tasks = DOMAIN runs[r].tasks \cup {k}
      /\ \A j \in DOMAIN runs[r].tasks : runs'[r].tasks[j] = runs[r].tasks[j]
      /\ runs'[r].tasks[k] = [payload |-> unstored[r][k], status |-> "PENDING", result |-> Null]
  BY CreateTaskShape
<1>4. RunFits(runs[r])
  BY <1>1 DEF RunsFit
<1>5. TaskFits(runs'[r].tasks[k])
  BY <1>3 DEF TaskFits
<1>6. IsFiniteSet(DOMAIN runs'[r].tasks)
  BY <1>3, <1>4, FS_AddElement DEF RunFits
<1>7. RunFits(runs'[r])
  BY <1>2, <1>3, <1>4, <1>5, <1>6 DEF RunFits
<1>8. \A q \in DOMAIN runs : GoesOn(runs[q], runs'[q]) /\ ComesFromList(q)
  BY <1>1, <1>3 DEF GoesOn, ComesFromList
<1>9. \A q \in DOMAIN runs : DOMAIN unstored'[q] \cap DOMAIN runs'[q].tasks = {}
  BY <1>1, <1>3 DEF RunsFit
<1> QED
  BY <1>1, <1>7, <1>8, <1>9 DEF RunsFit, RunsGoOn

(* Every step leaves the runs fitting, and only goes on with them.          *)
LEMMA StepEffect ==
  ASSUME RunsFit, [Next]_vars
  PROVE  RunsFit' /\ RunsGoOn
<1>1. ASSUME NEW r \in Run, NEW c \in Submission, NEW env \in Environment, NEW grid \in Grid,
             CreateRun(r, c, env, grid)
      PROVE  RunsFit' /\ RunsGoOn
  BY <1>1, CreateEffect
<1>2. ASSUME NEW r \in Run, NEW k, NEW result, HandlerReturns(r, k, result)
      PROVE  RunsFit' /\ RunsGoOn
  <2>1. PICK status, f : status \in {"SUCCEEDED", "DEGENERATE"} /\ Record(r, k, status, Object(f))
    BY <1>2 DEF HandlerReturns
  <2> QED
    BY <2>1, ObjectIsNotNull, RecordEffect DEF Verdict
<1>3. ASSUME NEW r \in Run, NEW k, NEW status \in {"FAILED", "TIMED_OUT"}, HandlerFails(r, k, status)
      PROVE  RunsFit' /\ RunsGoOn
  BY <1>3, RecordEffect DEF HandlerFails, Verdict
<1>4. ASSUME NEW r \in Run, NEW k, CreateTask(r, k)
      PROVE  RunsFit' /\ RunsGoOn
  BY <1>4, CreateTaskEffect
<1>5. CASE UNCHANGED vars
  <2>1. RunsGoOn
    BY <1>5 DEF vars, RunsGoOn, GoesOn, ComesFromList
  <2> QED
    BY <1>5, <2>1 DEF vars, RunsFit
<1> QED
  BY <1>1, <1>2, <1>3, <1>4, <1>5 DEF Next

LEMMA RunsFitAtFirst ==
  ASSUME Init
  PROVE  RunsFit
BY DEF Init, RunsFit

(* Every run keeps the configuration and environment it was created with,   *)
(* and its tasks have a result exactly when their verdict says so.          *)
THEOREM TypeCorrect == Spec => []TypeOK
<1>1. RunsFit /\ [Next]_vars => RunsFit'
  BY StepEffect
<1>2. RunsFit => TypeOK
  BY DEF RunsFit, RunFits, TaskFits, Verdict, TypeOK
<1> QED
  BY <1>1, <1>2, RunsFitAtFirst, PTL DEF Spec

-----------------------------------------------------------------------------
LEMMA LaterOfTwo ==
  ASSUME NEW a, NEW b
  PROVE  Later(<<a, b>>) = {b} /\ <<a, b>>[1] = a
BY DEF Later

(* The lists of a report on two runs, in terms of the two.                  *)
LEMMA KeysOfTwo ==
  ASSUME NEW rs, NEW a, NEW b
  PROVE  TaskKeys(rs, <<a, b>>) = DOMAIN rs[a].tasks \cup DOMAIN rs[b].tasks
<1>1. DOMAIN <<a, b>> = {1, 2} /\ <<a, b>>[1] = a /\ <<a, b>>[2] = b
  OBVIOUS
<1> QED
  BY <1>1 DEF TaskKeys

LEMMA DownOfTwo ==
  ASSUME NEW rs, NEW a, NEW b, NEW k
  PROVE  k \in Regressions(rs, <<a, b>>)
           <=> k \in TaskKeys(rs, <<a, b>>) /\ StatusRegresses(rs[a], {rs[b]}, k)
<1>1. LaterRuns(rs, <<a, b>>) = {rs[b]}
  BY LaterOfTwo DEF LaterRuns
<1> QED
  BY <1>1, LaterOfTwo DEF Regressions

LEMMA UpOfTwo ==
  ASSUME NEW rs, NEW a, NEW b, NEW k
  PROVE  k \in Improvements(rs, <<a, b>>)
           <=> k \in TaskKeys(rs, <<a, b>>) /\ StatusImproves(rs[a], {rs[b]}, k)
<1>1. LaterRuns(rs, <<a, b>>) = {rs[b]}
  BY LaterOfTwo DEF LaterRuns
<1> QED
  BY <1>1, LaterOfTwo DEF Improvements

LEMMA WorseOfTwo ==
  ASSUME NEW rs, NEW a, NEW b, NEW k
  PROVE  k \in MetricRegressions(rs, <<a, b>>, DefaultThresholds)
           <=> /\ k \in TaskKeys(rs, <<a, b>>)
               /\ ~StatusRegresses(rs[a], {rs[b]}, k)
               /\ MetricRegresses(rs[a], rs[b], k, DefaultThresholds)
<1>1. LaterRuns(rs, <<a, b>>) = {rs[b]}
  BY LaterOfTwo DEF LaterRuns
<1>2. k \in MetricRegressions(rs, <<a, b>>, DefaultThresholds)
        <=> /\ k \in TaskKeys(rs, <<a, b>>) \ Regressions(rs, <<a, b>>)
            /\ MetricRegresses(rs[a], rs[b], k, DefaultThresholds)
  BY <1>1, LaterOfTwo DEF MetricRegressions
<1> QED
  BY <1>2, DownOfTwo

(* A status that counts in a report is one that stays.                      *)
LEMMA StatusStays ==
  ASSUME NEW run, NEW then, GoesOn(run, then), NEW k \in DOMAIN run.tasks, StatusIn(run, k) # "PENDING"
  PROVE  StatusIn(then, k) = StatusIn(run, k) /\ ResultIn(then, k) = ResultIn(run, k)
BY DEF GoesOn, StatusIn, ResultIn

(* A task that is missing, and not about to be stored, is missing for good. *)
LEMMA MissingStays ==
  ASSUME NEW r, ComesFromList(r), NEW k, k \notin DOMAIN runs[r].tasks, k \notin DOMAIN unstored[r]
  PROVE  StatusIn(runs'[r], k) = StatusIn(runs[r], k)
BY DEF ComesFromList, StatusIn

(* A task with a result has its verdict.                                    *)
LEMMA ResultIsLast ==
  ASSUME NEW run, RunFits(run), NEW k, ResultIn(run, k) # Null
  PROVE  k \in DOMAIN run.tasks /\ StatusIn(run, k) # "PENDING"
BY DEF RunFits, TaskFits, StatusIn, ResultIn

LEMMA ComparedMeansSettled ==
  ASSUME NEW run, NEW base, RunFits(run), RunFits(base), NEW k,
         MetricRegresses(base, run, k, DefaultThresholds)
  PROVE  /\ k \in DOMAIN base.tasks /\ StatusIn(base, k) # "PENDING"
         /\ k \in DOMAIN run.tasks /\ StatusIn(run, k) # "PENDING"
<1>1. PICK m : m \in ComparedMetrics(base, run, k)
  BY DEF MetricRegresses
<1>2. m \in NumericMetrics(base, k) /\ m \in NumericMetrics(run, k)
  BY <1>1 DEF ComparedMetrics
<1>3. ResultIn(base, k) # Null /\ ResultIn(run, k) # Null
  BY <1>2 DEF NumericMetrics
<1> QED
  BY <1>3, ResultIsLast

(* Comparing looks at nothing of a task but its status and its result.      *)
LEMMA ComparisonStays ==
  ASSUME NEW base, NEW run, NEW base2, NEW run2, NEW k,
         ResultIn(base2, k) = ResultIn(base, k), ResultIn(run2, k) = ResultIn(run, k)
  PROVE  MetricRegresses(base2, run2, k, DefaultThresholds)
           = MetricRegresses(base, run, k, DefaultThresholds)
<1>1. ComparedMetrics(base2, run2, k) = ComparedMetrics(base, run, k)
  BY DEF ComparedMetrics, Excluded, NumericMetrics
<1>2. \A m : Delta(base2, run2, k, m) = Delta(base, run, k, m)
  BY DEF Delta
<1> QED
  BY <1>1, <1>2 DEF MetricRegresses

LEMMA ReportStands ==
  ASSUME RunsFit, RunsGoOn, NEW a \in DOMAIN runs, NEW b \in DOMAIN runs
  PROVE  Lasting(a, b) \subseteq Lasting(a, b)' /\ Worse(<<a, b>>) \subseteq Worse(<<a, b>>)'
<1>1. /\ GoesOn(runs[a], runs'[a]) /\ GoesOn(runs[b], runs'[b])
      /\ ComesFromList(a) /\ ComesFromList(b)
  BY DEF RunsGoOn
<1>2. RunFits(runs[a]) /\ RunFits(runs[b])
  BY DEF RunsFit
<1>3. TaskKeys(runs, <<a, b>>) \subseteq TaskKeys(runs', <<a, b>>)
  <2>1. DOMAIN runs[a].tasks \subseteq DOMAIN runs'[a].tasks
        /\ DOMAIN runs[b].tasks \subseteq DOMAIN runs'[b].tasks
    BY <1>1 DEF GoesOn
  <2>2. TaskKeys(runs, <<a, b>>) = DOMAIN runs[a].tasks \cup DOMAIN runs[b].tasks
    BY KeysOfTwo
  <2>3. TaskKeys(runs', <<a, b>>) = DOMAIN runs'[a].tasks \cup DOMAIN runs'[b].tasks
    BY KeysOfTwo, Zenon
  <2> QED
    BY <2>1, <2>2, <2>3, Zenon
<1>4. ASSUME NEW k, k \notin DOMAIN unstored[b], StatusRegresses(runs[a], {runs[b]}, k)
      PROVE  StatusRegresses(runs'[a], {runs'[b]}, k)
  <2>1. /\ k \in DOMAIN runs[a].tasks /\ StatusIn(runs[a], k) # "PENDING"
        /\ StatusIn(runs[b], k) # "PENDING"
    BY <1>4 DEF StatusRegresses, OkStatuses, FailStatuses, StatusIn
  <2>2. StatusIn(runs'[a], k) = StatusIn(runs[a], k)
    BY <1>1, <2>1, StatusStays
  <2>3. StatusIn(runs'[b], k) = StatusIn(runs[b], k)
    <3>1. CASE k \in DOMAIN runs[b].tasks
      BY <1>1, <2>1, <3>1, StatusStays
    <3>2. CASE k \notin DOMAIN runs[b].tasks
      BY <1>1, <1>4, <3>2, MissingStays
    <3> QED
      BY <3>1, <3>2
  <2> QED
    BY <1>4, <2>2, <2>3 DEF StatusRegresses
<1>5. ASSUME NEW k, k \in Regressions(runs, <<a, b>>), k \notin DOMAIN unstored[b]
      PROVE  k \in Regressions(runs', <<a, b>>) /\ k \notin DOMAIN unstored'[b]
  <2>1. k \in TaskKeys(runs', <<a, b>>) /\ StatusRegresses(runs'[a], {runs'[b]}, k)
    BY <1>3, <1>4, <1>5, DownOfTwo
  <2>2. k \in Regressions(runs', <<a, b>>)
    BY <2>1, DownOfTwo
  <2> QED
    BY <1>1, <1>5, <2>2 DEF ComesFromList
<1>6. ASSUME NEW k, k \in MetricRegressions(runs, <<a, b>>, DefaultThresholds)
      PROVE  k \in MetricRegressions(runs', <<a, b>>, DefaultThresholds)
  <2>1. /\ k \in TaskKeys(runs, <<a, b>>)
        /\ ~StatusRegresses(runs[a], {runs[b]}, k)
        /\ MetricRegresses(runs[a], runs[b], k, DefaultThresholds)
    BY <1>6, WorseOfTwo
  <2>2. /\ k \in DOMAIN runs[a].tasks /\ StatusIn(runs[a], k) # "PENDING"
        /\ k \in DOMAIN runs[b].tasks /\ StatusIn(runs[b], k) # "PENDING"
    BY <1>2, <2>1, ComparedMeansSettled
  <2>3. /\ StatusIn(runs'[a], k) = StatusIn(runs[a], k) /\ ResultIn(runs'[a], k) = ResultIn(runs[a], k)
        /\ StatusIn(runs'[b], k) = StatusIn(runs[b], k) /\ ResultIn(runs'[b], k) = ResultIn(runs[b], k)
    BY <1>1, <2>2, StatusStays
  <2>4. ~StatusRegresses(runs'[a], {runs'[b]}, k)
    BY <2>1, <2>3 DEF StatusRegresses
  <2>5. MetricRegresses(runs'[a], runs'[b], k, DefaultThresholds)
    BY <2>1, <2>3, ComparisonStays
  <2> QED
    BY <1>3, <2>1, <2>4, <2>5, WorseOfTwo
<1> QED
  BY <1>5, <1>6 DEF Lasting, Down, Worse

(* A regression that a report has listed, while runs were still going on or *)
(* being stored, is listed by every later report on the two runs, unless it *)
(* is one of a task that create_run has still to store.                     *)
THEOREM RegressionsAreFinal == Spec => RegressionsStand
<1>1. RunsFit /\ [Next]_vars => RunsFit'
  BY StepEffect
<1>2. RunsFit /\ [Next]_vars => [ReportsHold]_vars
  BY StepEffect, ReportStands DEF ReportsHold
<1> QED
  BY <1>1, <1>2, RunsFitAtFirst, PTL DEF Spec, RegressionsStand

-----------------------------------------------------------------------------
LEMMA NumberIsNotNull ==
  ASSUME NEW v, Type(v) = "number"
  PROVE  v # Null
BY DEF Type, Null

LEMMA NullIsNotTruthy == ~Truthy(Null)
BY DEF Truthy, Type, Null

LEMMA AcceptedNamesData ==
  ASSUME NEW c, Accepted(c)
  PROVE  c["seed"] # Null /\ DOMAIN DatasetHashes(c) # {}
<1>1. c["seed"] # Null
  <2>1. Get(c, "seed") # Null
    BY NumberIsNotNull DEF Accepted, SeedAccepted
  <2> QED
    BY <2>1 DEF Get
<1>2. DOMAIN DatasetHashes(c) # {}
  <2>1. CASE "dataset_hash" \in DOMAIN c
    BY <2>1 DEF DatasetHashes
  <2>2. CASE "dataset_hash" \notin DOMAIN c
    <3>1. Truthy(Get(c, "datasets"))
      BY <2>2 DEF Accepted, DataAccepted, Get
    <3>2. Get(c, "datasets") # Null
      BY <3>1, NullIsNotTruthy
    <3>3. Type(Get(c, "datasets")) = "object" /\ Get(c, "datasets") = c["datasets"]
      BY <3>2 DEF Accepted, DataAccepted, Get
    <3>4. DOMAIN Content(c["datasets"]) # {}
      BY <3>1, <3>3 DEF Truthy
    <3> QED
      BY <2>2, <3>4 DEF DatasetHashes
  <2> QED
    BY <2>1, <2>2
<1> QED
  BY <1>1, <1>2

(* Whatever configuration is accepted, in whatever environment: nothing is  *)
(* found missing from the run it gives but a git commit.                    *)
THEOREM AcceptedIsAssessable == Spec => []AcceptedMeansAssessable
<1>1. RunsFit /\ [Next]_vars => RunsFit'
  BY StepEffect
<1>2. RunsFit => AcceptedMeansAssessable
  <2>1. ASSUME RunsFit, NEW r \in DOMAIN runs
        PROVE  /\ MissingFields(runs[r]) \subseteq {"env_snapshot.git_commit"}
               /\ Replayable(runs[r]) <=> Truthy(Get(runs[r].env_snapshot, "git_commit"))
    <3>1. RunFits(runs[r])
      BY <2>1 DEF RunsFit
    <3>2. runs[r].seed # Null /\ DOMAIN runs[r].dataset_hashes # {}
      BY <3>1, AcceptedNamesData DEF RunFits
    <3>3. Truthy(runs[r].config_hash)
      BY <3>1 DEF RunFits, Truthy, Text, Type, Content
    <3>4. MissingFields(runs[r]) =
            {f \in {"env_snapshot.git_commit"} : ~Truthy(Get(runs[r].env_snapshot, "git_commit"))}
      BY <3>2, <3>3 DEF MissingFields
    <3>5. Replayable(runs[r]) <=> MissingFields(runs[r]) = {}
      BY DEF Replayable, Level
    <3> QED
      BY <3>4, <3>5
  <2> QED
    BY <2>1 DEF AcceptedMeansAssessable
<1> QED
  BY <1>1, <1>2, RunsFitAtFirst, PTL DEF Spec
-----------------------------------------------------------------------------
(* The counts of one run: its tasks are those that succeeded and those that *)
(* did not.                                                                 *)
SucceededIn(run) == {k \in DOMAIN run.tasks : run.tasks[k].status = "SUCCEEDED"}

LEMMA CountOfDisjoint ==
  ASSUME NEW S, NEW T, IsFiniteSet(S), IsFiniteSet(T), S \cap T = {}
  PROVE  Cardinality(S \cup T) = Cardinality(S) + Cardinality(T)
<1>1. Cardinality(S \cup T) = Cardinality(S) + Cardinality(T) - Cardinality(S \cap T)
  BY FS_Union
<1>2. Cardinality(S) \in Nat /\ Cardinality(T) \in Nat /\ Cardinality(S \cap T) = 0
  BY FS_CardinalityType, FS_EmptySet
<1> QED
  BY <1>1, <1>2

LEMMA CountOfDifferences ==
  ASSUME NEW S, NEW T, IsFiniteSet(S), IsFiniteSet(T)
  PROVE  Cardinality(S) - Cardinality(S \ T) = Cardinality(T) - Cardinality(T \ S)
<1>1. /\ Cardinality(S \ T) = Cardinality(S) - Cardinality(S \cap T)
      /\ Cardinality(T \ S) = Cardinality(T) - Cardinality(T \cap S)
  BY FS_Difference
<1>2. S \cap T = T \cap S
  OBVIOUS
<1>3. IsFiniteSet(S \cap T)
  BY FS_Subset
<1>4. Cardinality(S) \in Nat /\ Cardinality(T) \in Nat /\ Cardinality(S \cap T) \in Nat
  BY <1>3, FS_CardinalityType
<1>5. \A m, n, d \in Nat : m - (m - d) = n - (n - d)
  OBVIOUS
<1>6. Cardinality(S) - (Cardinality(S) - Cardinality(S \cap T))
        = Cardinality(T) - (Cardinality(T) - Cardinality(S \cap T))
  BY <1>4, <1>5, Zenon
<1> QED
  BY <1>1, <1>2, <1>6, Zenon

LEMMA CountsAddUp ==
  ASSUME NEW run, RunFits(run), Settled(run)
  PROVE  Succeeded(run) + Failed(run) = Cardinality(DOMAIN run.tasks)
<1> DEFINE good == SucceededIn(run)
           bad  == {k \in DOMAIN run.tasks :
                      run.tasks[k].status \in {"FAILED", "TIMED_OUT", "CANCELLED", "DEGENERATE"}}
<1>1. good \cup bad = DOMAIN run.tasks /\ good \cap bad = {}
  BY DEF RunFits, TaskFits, Settled, Verdict, SucceededIn
<1>2. IsFiniteSet(DOMAIN run.tasks) /\ good \in SUBSET DOMAIN run.tasks /\ bad \in SUBSET DOMAIN run.tasks
  BY DEF RunFits, SucceededIn
<1>3. IsFiniteSet(good) /\ IsFiniteSet(bad)
  BY <1>2, FS_Subset
<1>4. Cardinality(good \cup bad) = Cardinality(good) + Cardinality(bad)
  BY <1>1, <1>3, CountOfDisjoint
<1>5. Succeeded(run) = Cardinality(good) /\ Failed(run) = Cardinality(bad)
  BY DEF Succeeded, Failed, SucceededIn
<1> QED
  BY <1>1, <1>4, <1>5, Zenon

(* Between two settled runs, the report lists exactly the tasks that        *)
(* succeeded in one and not in the other.                                   *)
LEMMA ListsAreDifferences ==
  ASSUME RunsFit, NEW a \in DOMAIN runs, NEW b \in DOMAIN runs, Settled(runs[a]), Settled(runs[b])
  PROVE  /\ Down(<<a, b>>) = SucceededIn(runs[a]) \ SucceededIn(runs[b])
         /\ Up(<<a, b>>) = SucceededIn(runs[b]) \ SucceededIn(runs[a])
<1>1. RunFits(runs[a]) /\ RunFits(runs[b])
  BY DEF RunsFit
<1>2. ASSUME NEW run, RunFits(run), Settled(run), NEW k
      PROVE  /\ k \in SucceededIn(run) => k \in DOMAIN run.tasks
             /\ StatusIn(run, k) = "SUCCEEDED" <=> k \in SucceededIn(run)
             /\ StatusIn(run, k) \in FailStatuses <=> k \notin SucceededIn(run)
  BY <1>2 DEF RunFits, TaskFits, Settled, Verdict, SucceededIn, StatusIn, FailStatuses
<1>3. TaskKeys(runs, <<a, b>>) = DOMAIN runs[a].tasks \cup DOMAIN runs[b].tasks
  BY KeysOfTwo
<1>4. ASSUME NEW k
      PROVE  k \in Regressions(runs, <<a, b>>)
               <=> k \in SucceededIn(runs[a]) \ SucceededIn(runs[b])
  <2>1. StatusRegresses(runs[a], {runs[b]}, k)
          <=> k \in SucceededIn(runs[a]) \ SucceededIn(runs[b])
    BY <1>1, <1>2 DEF StatusRegresses, OkStatuses
  <2>2. k \in SucceededIn(runs[a]) => k \in TaskKeys(runs, <<a, b>>)
    BY <1>1, <1>2, <1>3
  <2> QED
    BY <2>1, <2>2, DownOfTwo
<1>5. ASSUME NEW k
      PROVE  k \in Improvements(runs, <<a, b>>)
               <=> k \in SucceededIn(runs[b]) \ SucceededIn(runs[a])
  <2>1. StatusImproves(runs[a], {runs[b]}, k)
          <=> k \in SucceededIn(runs[b]) \ SucceededIn(runs[a])
    BY <1>1, <1>2 DEF StatusImproves, OkStatuses
  <2>2. k \in SucceededIn(runs[b]) => k \in TaskKeys(runs, <<a, b>>)
    BY <1>1, <1>2, <1>3
  <2> QED
    BY <2>1, <2>2, UpOfTwo
<1> QED
  BY <1>4, <1>5 DEF Down, Up

(* No loss and no gain between two settled runs goes unmentioned.           *)
THEOREM CountsAreExplained == Spec => []CountsExplained
<1>1. RunsFit /\ [Next]_vars => RunsFit'
  BY StepEffect
<1>2. RunsFit => CountsExplained
  <2>1. ASSUME RunsFit, NEW a \in DOMAIN runs, NEW b \in DOMAIN runs,
               Settled(runs[a]), Settled(runs[b])
        PROVE  /\ Succeeded(runs[a]) - Cardinality(Down(<<a, b>>))
                    = Succeeded(runs[b]) - Cardinality(Up(<<a, b>>))
               /\ Succeeded(runs[a]) + Failed(runs[a]) = Cardinality(DOMAIN runs[a].tasks)
    <3> DEFINE A == SucceededIn(runs[a])
               B == SucceededIn(runs[b])
    <3>1. RunFits(runs[a]) /\ RunFits(runs[b])
      BY <2>1 DEF RunsFit
    <3>2. IsFiniteSet(A) /\ IsFiniteSet(B)
      <4>1. /\ IsFiniteSet(DOMAIN runs[a].tasks) /\ IsFiniteSet(DOMAIN runs[b].tasks)
            /\ A \in SUBSET DOMAIN runs[a].tasks /\ B \in SUBSET DOMAIN runs[b].tasks
        BY <3>1 DEF RunFits, SucceededIn
      <4> QED
        BY <4>1, FS_Subset
    <3>3. Succeeded(runs[a]) = Cardinality(A) /\ Succeeded(runs[b]) = Cardinality(B)
      BY DEF Succeeded, SucceededIn
    <3> HIDE DEF A, B
    <3>4. Cardinality(A) - Cardinality(A \ B) = Cardinality(B) - Cardinality(B \ A)
      BY <3>2, CountOfDifferences
    <3>7. Down(<<a, b>>) = A \ B /\ Up(<<a, b>>) = B \ A
      BY <2>1, ListsAreDifferences DEF A, B
    <3>8. Succeeded(runs[a]) + Failed(runs[a]) = Cardinality(DOMAIN runs[a].tasks)
      BY <2>1, <3>1, CountsAddUp
    <3> QED
      BY <3>3, <3>4, <3>7, <3>8, Zenon
  <2> QED
    BY <2>1 DEF CountsExplained
<1> QED
  BY <1>1, <1>2, RunsFitAtFirst, PTL DEF Spec

-----------------------------------------------------------------------------
(* The theorem on the two validations needs handlers that leave the         *)
(* worker's annotation alone.                                               *)
NoAnnotationOfItsOwn == \A result \in HandlerResult : "_validation_status" \notin DOMAIN result

LEMMA RejectedMeans ==
  ASSUME NEW result, NEW method
  PROVE  Rejected(result, method) <=> Erroneous(result) \/ Degenerate(result, method)
BY DEF Rejected, ValidateResult

(* The annotation changes no verdict, nor does a method that says nothing.  *)
LEMMA AnnotationIsNeutral ==
  ASSUME NEW result, "_validation_status" \notin DOMAIN result, NEW method, ~Truthy(method)
  PROVE  /\ Rejected(Annotated(result, method), Null) <=> Rejected(result, method)
         /\ ValidationRaises(Annotated(result, method), Null) <=> ValidationRaises(result, method)
<1> DEFINE noted == Annotated(result, method)
<1>1. /\ DOMAIN noted = DOMAIN result \cup {"_validation_status"}
      /\ \A x \in DOMAIN result : noted[x] = result[x]
      /\ noted["_validation_status"] = Text(ValidateResult(result, method))
  BY DEF Annotated
<1> HIDE DEF noted
<1>2. \A x : x # "_validation_status" => Get(noted, x) = Get(result, x)
  BY <1>1 DEF Get
<1>3. ~BadNumber("_validation_status", noted["_validation_status"])
  BY <1>1 DEF BadNumber, Text, NaN, Inf, IsFinite, Type
<1>4. (\E x \in DOMAIN noted : BadNumber(x, noted[x]))
        <=> (\E x \in DOMAIN result : BadNumber(x, result[x]))
  BY <1>1, <1>3
<1>5. Erroneous(noted) <=> Erroneous(result)
  BY <1>2, <1>4 DEF Erroneous, EvaluatedNothing
<1>6. EffectiveMethod(noted, Null) = EffectiveMethod(result, method)
  BY <1>2, NullIsNotTruthy DEF EffectiveMethod
<1>7. NothingTrained(noted, Null) <=> NothingTrained(result, method)
  BY <1>2, <1>6 DEF NothingTrained
<1>8. TrainedTooMuch(noted) <=> TrainedTooMuch(result)
  BY <1>2 DEF TrainedTooMuch
<1>9. AllZero(noted) <=> AllZero(result)
  <2>1. {x \in BoundedMetrics \cap DOMAIN noted : IsFinite(noted[x])}
          = {x \in BoundedMetrics \cap DOMAIN result : IsFinite(result[x])}
    BY <1>1 DEF BoundedMetrics
  <2>2. \A x \in {y \in BoundedMetrics \cap DOMAIN result : IsFinite(result[y])} : noted[x] = result[x]
    BY <1>1
  <2> QED
    BY <1>2, <2>1, <2>2 DEF AllZero
<1>10. Degenerate(noted, Null) <=> Degenerate(result, method)
  BY <1>2, <1>7, <1>8, <1>9 DEF Degenerate
<1>11. ValidationRaises(noted, Null) <=> ValidationRaises(result, method)
  BY <1>6 DEF ValidationRaises
<1> QED
  BY <1>5, <1>10, <1>11, RejectedMeans DEF noted

LEMMA VerdictsStep ==
  ASSUME NoAnnotationOfItsOwn, RunsFit, VerdictsAgree, [Next]_vars
  PROVE  VerdictsAgree'
<1> DEFINE Agrees(run, k) ==
      run.tasks[k].result # Null /\ ~Truthy(Get(run.tasks[k].payload, "method"))
      => /\ ~ValidationRaises(Content(run.tasks[k].result), Null)
         /\ Excluded(run, k) <=> run.tasks[k].status = "DEGENERATE"
<1>1. ASSUME NEW r \in Run, NEW c \in Submission, NEW env \in Environment, NEW grid \in Grid,
             CreateRun(r, c, env, grid)
      PROVE  VerdictsAgree'
  <2>1. /\ DOMAIN runs' = DOMAIN runs \cup {r} /\ runs'[r] = RunOf(c, env)
        /\ \A q \in DOMAIN runs : q # r => runs'[q] = runs[q]
    BY <1>1 DEF CreateRun, With
  <2>2. DOMAIN runs'[r].tasks = {}
    <3>1. runs'[r].tasks = <<>> /\ DOMAIN <<>> = {}
      BY <2>1 DEF RunOf
    <3> QED
      BY <3>1
  <2> QED
    BY <2>1, <2>2 DEF VerdictsAgree
<1>2. ASSUME NEW r, NEW k, NEW status, NEW result, Record(r, k, status, result),
             Agrees(runs'[r], k)
      PROVE  VerdictsAgree'
  <2>1. \A q \in DOMAIN runs : q # r => runs'[q] = runs[q]
    BY <1>2, RecordShape
  <2>2. \A j \in DOMAIN runs[r].tasks : j # k => runs'[r].tasks[j] = runs[r].tasks[j]
    BY <1>2, RecordShape
  <2>3. /\ r \in DOMAIN runs /\ DOMAIN runs' = DOMAIN runs
        /\ DOMAIN runs'[r].tasks = DOMAIN runs[r].tasks
    BY <1>2, RecordShape
  <2>4. \A j \in DOMAIN runs[r].tasks : j # k => Agrees(runs'[r], j)
    BY <2>2, <2>3 DEF VerdictsAgree, Excluded, ResultIn
  <2>5. \A q \in DOMAIN runs : \A j \in DOMAIN runs[q].tasks : q # r => Agrees(runs'[q], j)
    BY <2>1 DEF VerdictsAgree
  <2> QED
    BY <1>2, <2>1, <2>3, <2>4, <2>5 DEF VerdictsAgree
<1>3. ASSUME NEW r \in Run, NEW k, NEW result \in HandlerResult, HandlerReturns(r, k, result)
      PROVE  VerdictsAgree'
  <2> DEFINE timed  == Timed(result)
             method == Get(runs[r].tasks[k].payload, "method")
             status == IF Rejected(timed, method) THEN "DEGENERATE" ELSE "SUCCEEDED"
  <2>1. Record(r, k, status, Object(Annotated(timed, method))) /\ ~ValidationRaises(timed, method)
    BY <1>3 DEF HandlerReturns
  <2>2. "_validation_status" \notin DOMAIN timed
    BY DEF NoAnnotationOfItsOwn, Timed
  <2> HIDE DEF timed
  <2>3. /\ runs'[r].tasks[k].payload = runs[r].tasks[k].payload
        /\ runs'[r].tasks[k].status = status
        /\ runs'[r].tasks[k].result = Object(Annotated(timed, method))
        /\ k \in DOMAIN runs'[r].tasks
    BY <2>1, RecordShape
  <2>4. Content(Object(Annotated(timed, method))) = Annotated(timed, method)
    BY DEF Content, Object
  <2>5. Excluded(runs'[r], k) <=> Rejected(Annotated(timed, method), Null)
    BY <2>3, <2>4, ObjectIsNotNull DEF Excluded, ResultIn
  <2>6. ~Truthy(method) => /\ ~ValidationRaises(Annotated(timed, method), Null)
                           /\ Excluded(runs'[r], k) <=> status = "DEGENERATE"
    BY <2>1, <2>2, <2>5, AnnotationIsNeutral
  <2>7. Agrees(runs'[r], k)
    BY <2>3, <2>4, <2>6
  <2> QED
    BY <1>2, <2>1, <2>7
<1>4. ASSUME NEW r \in Run, NEW k, NEW status, HandlerFails(r, k, status)
      PROVE  VerdictsAgree'
  <2>1. Record(r, k, status, Null)
    BY <1>4 DEF HandlerFails
  <2>2. runs'[r].tasks[k].result = Null
    BY <2>1, RecordShape
  <2> QED
    BY <1>2, <2>1, <2>2
<1>5. ASSUME NEW r \in Run, NEW k, CreateTask(r, k)
      PROVE  VerdictsAgree'
  <2>1. /\ r \in DOMAIN runs /\ DOMAIN runs' = DOMAIN runs
        /\ \A q \in DOMAIN runs : q # r => runs'[q] = runs[q]
        /\ DOMAIN runs'[r].tasks = DOMAIN runs[r].tasks \cup {k}
        /\ \A j \in DOMAIN runs[r].tasks : runs'[r].tasks[j] = runs[r].tasks[j]
        /\ runs'[r].tasks[k] = [payload |-> unstored[r][k], status |-> "PENDING", result |-> Null]
    BY <1>5, CreateTaskShape
  <2>2. Agrees(runs'[r], k)
    BY <2>1
  <2>3. ASSUME NEW j \in DOMAIN runs[r].tasks
        PROVE  Agrees(runs'[r], j)
    <3>1. runs'[r].tasks[j] = runs[r].tasks[j] /\ j \in DOMAIN runs'[r].tasks
      BY <2>1
    <3>2. Agrees(runs[r], j)
      BY <2>1 DEF VerdictsAgree
    <3>3. Excluded(runs'[r], j) <=> Excluded(runs[r], j)
      BY <3>1 DEF Excluded, ResultIn
    <3> QED
      BY <3>1, <3>2, <3>3
  <2>4. \A q \in DOMAIN runs : \A j \in DOMAIN runs[q].tasks : q # r => Agrees(runs'[q], j)
    BY <2>1 DEF VerdictsAgree
  <2> QED
    BY <2>1, <2>2, <2>3, <2>4 DEF VerdictsAgree
<1>6. CASE UNCHANGED vars
  BY <1>6 DEF vars, VerdictsAgree
<1> QED
  BY <1>1, <1>3, <1>4, <1>5, <1>6 DEF Next

(* The comparison, which validates results anew, and the worker, which had  *)
(* validated them first, agree on every task whose payload names no method, *)
(* and such a result never makes the comparison raise, whatever the results *)
(* are, as long as handlers do not write the worker's annotation            *)
(* themselves.                                                              *)
THEOREM ValidationsAgree ==
  ASSUME NoAnnotationOfItsOwn
  PROVE  Spec => []VerdictsAgree
<1>1. RunsFit /\ [Next]_vars => RunsFit'
  BY StepEffect
<1>2. RunsFit /\ VerdictsAgree /\ [Next]_vars => VerdictsAgree'
  BY VerdictsStep
<1>3. Init => VerdictsAgree
  BY DEF Init, VerdictsAgree
<1> QED
  BY <1>1, <1>2, <1>3, RunsFitAtFirst, PTL DEF Spec

-----------------------------------------------------------------------------
(***************************************************************************)
(* Which data a run measures.  dataset_hashes is what the comparison looks *)
(* at; it says all of what a configuration names unless that one names its *)
(* data twice.                                                             *)
(***************************************************************************)
LEMMA HashesTellTheData ==
  ASSUME NEW c \in Submission, Accepted(c), ~NamesTwice(c)
  PROVE  /\ DOMAIN DatasetHashes(c) # {}
         /\ DatasetHashes(c) = [x \in DOMAIN DatasetHashes(c) |-> DatasetHashes(c)[x]]
         /\ NamedData(c) = {<<s, DatasetHashes(c)[s]>> : s \in DOMAIN DatasetHashes(c)}
<1>1. /\ Get(c, "dataset_hash") # Null \/ Truthy(Get(c, "datasets"))
      /\ Get(c, "datasets") # Null => /\ Type(Get(c, "datasets")) = "object"
                                      /\ Truthy(Get(c, "datasets"))
  BY DEF Accepted, DataAccepted
<1>2. ~Truthy(Null)
  BY DEF Truthy, Null, Type
<1>3. CASE "dataset_hash" \in DOMAIN c
  <2>1. Get(c, "datasets") = Null /\ Get(c, "dataset_hash") = c["dataset_hash"]
        /\ c["dataset_hash"] # Null
    BY <1>1, <1>2, <1>3 DEF Get, NamesTwice
  <2>2. DatasetHashes(c) = [default |-> c["dataset_hash"]]
    BY <1>3 DEF DatasetHashes
  <2>3. NamedData(c) = {<<"default", c["dataset_hash"]>>}
    BY <2>1 DEF NamedData
  <2> QED
    BY <2>2, <2>3
<1>4. CASE "dataset_hash" \notin DOMAIN c
  <2>1. Get(c, "dataset_hash") = Null
    BY <1>4 DEF Get
  <2>2. Get(c, "datasets") # Null /\ Truthy(Get(c, "datasets")) /\ Type(Get(c, "datasets")) = "object"
    BY <1>1, <1>2, <2>1
  <2>3. Get(c, "datasets") = c["datasets"]
    BY <2>2 DEF Get
  <2>4. DatasetHashes(c) = Content(c["datasets"])
    BY <1>4 DEF DatasetHashes
  <2>5. DOMAIN Content(c["datasets"]) # {}
    BY <2>2, <2>3 DEF Truthy
  <2>6. NamedData(c) = {<<s, Content(c["datasets"])[s]>> : s \in DOMAIN Content(c["datasets"])}
    BY <2>1, <2>2, <2>3 DEF NamedData
  <2>7. Content(c["datasets"]) = [x \in DOMAIN Content(c["datasets"]) |-> Content(c["datasets"])[x]]
    BY <2>2, SubmissionAssumption
  <2> QED
    BY <2>4, <2>5, <2>6, <2>7
<1> QED
  BY <1>3, <1>4

LEMMA RefusedMeansDataDiffer ==
  ASSUME NEW a, NEW b
  PROVE  RefusedStrictly(runs, <<a, b>>) <=> DataDiffers(runs[a], runs[b])
<1>1. RefusedStrictly(runs, <<a, b>>)
        <=> \E issue \in CheckComparability(runs[a], runs[b]) : issue[1] = "error"
  BY LaterOfTwo DEF RefusedStrictly
<1>2. ASSUME DataDiffers(runs[a], runs[b])
      PROVE  \E issue \in CheckComparability(runs[a], runs[b]) : issue[1] = "error"
  <2>1. <<"error", "dataset_hashes">> \in CheckComparability(runs[a], runs[b])
    BY <1>2 DEF CheckComparability
  <2>2. <<"error", "dataset_hashes">>[1] = "error"
    OBVIOUS
  <2> QED
    BY <2>1, <2>2
<1>3. ASSUME NEW issue \in CheckComparability(runs[a], runs[b]), issue[1] = "error"
      PROVE  DataDiffers(runs[a], runs[b])
  <2>1. SUFFICES ASSUME ~DataDiffers(runs[a], runs[b])
                 PROVE  FALSE
    OBVIOUS
  <2>2. \E f : issue = <<"warning", f>>
    BY <1>3, <2>1 DEF CheckComparability
  <2>3. \A f : <<"warning", f>>[1] = "warning"
    OBVIOUS
  <2> QED
    BY <1>3, <2>2, <2>3
<1> QED
  BY <1>1, <1>2, <1>3

(* Two functions with the same graph are one.                               *)
LEMMA GraphTellsFunction ==
  ASSUME NEW f, NEW g, f = [x \in DOMAIN f |-> f[x]], g = [x \in DOMAIN g |-> g[x]],
         {<<x, f[x]>> : x \in DOMAIN f} = {<<x, g[x]>> : x \in DOMAIN g}
  PROVE  f = g
<1>1. \A x \in DOMAIN f : x \in DOMAIN g /\ g[x] = f[x]
  <2>1. TAKE x \in DOMAIN f
  <2>2. <<x, f[x]>> \in {<<y, g[y]>> : y \in DOMAIN g}
    OBVIOUS
  <2>3. PICK y \in DOMAIN g : <<x, f[x]>> = <<y, g[y]>>
    BY <2>2
  <2> QED
    BY <2>3
<1>2. \A x \in DOMAIN g : x \in DOMAIN f
  <2>1. TAKE x \in DOMAIN g
  <2>2. <<x, g[x]>> \in {<<y, f[y]>> : y \in DOMAIN f}
    OBVIOUS
  <2>3. PICK y \in DOMAIN f : <<x, g[x]>> = <<y, f[y]>>
    BY <2>2
  <2> QED
    BY <2>3
<1>3. DOMAIN f = DOMAIN g
  BY <1>1, <1>2
<1> QED
  BY <1>1, <1>3

(* Whatever splits, hashes and submissions there are: a strict comparison   *)
(* refuses two runs exactly if their configurations name different data,    *)
(* unless one of the two configurations names data twice.                   *)
THEOREM StrictComparesLikeWithLike == Spec => []StrictRefusesOtherData
<1>1. RunsFit /\ [Next]_vars => RunsFit'
  BY StepEffect
<1>2. RunsFit => StrictRefusesOtherData
  <2>1. SUFFICES ASSUME RunsFit, NEW a \in DOMAIN runs, NEW b \in DOMAIN runs,
                        ~NamesTwice(runs[a].config), ~NamesTwice(runs[b].config)
                 PROVE  RefusedStrictly(runs, <<a, b>>)
                          <=> NamedData(runs[a].config) # NamedData(runs[b].config)
    BY DEF StrictRefusesOtherData
  <2> DEFINE Graph(f) == {<<x, f[x]>> : x \in DOMAIN f}
  <2>2. ASSUME NEW r \in {a, b}
        PROVE  LET f == runs[r].dataset_hashes
               IN DOMAIN f # {} /\ f = [x \in DOMAIN f |-> f[x]] /\ NamedData(runs[r].config) = Graph(f)
    <3>1. /\ runs[r].config \in Submission /\ Accepted(runs[r].config)
          /\ ~NamesTwice(runs[r].config)
          /\ runs[r].dataset_hashes = DatasetHashes(runs[r].config)
      BY <2>1, <2>2 DEF RunsFit, RunFits
    <3> QED
      BY <3>1, HashesTellTheData
  <2> HIDE DEF Graph
  <2>3. DataDiffers(runs[a], runs[b]) <=> runs[a].dataset_hashes # runs[b].dataset_hashes
    BY <2>2 DEF DataDiffers
  <2>4. Graph(runs[a].dataset_hashes) = Graph(runs[b].dataset_hashes)
          <=> runs[a].dataset_hashes = runs[b].dataset_hashes
    BY <2>2, GraphTellsFunction DEF Graph
  <2> QED
    BY <2>2, <2>3, <2>4, RefusedMeansDataDiffer
<1> QED
  BY <1>1, <1>2, RunsFitAtFirst, PTL DEF Spec
==============================================================================
