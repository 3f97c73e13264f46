---------------------------- MODULE RunAdmission ----------------------------
(***************************************************************************)
(* From create-run to run: how a run comes into being, is approved and is  *)
(* set to work (FineTuneRunner.create_run and await_approval, the gates of *)
(* orchestrator/approval.py, the commands create-run, start-run, run and   *)
(* status).  create_run is a series of transactions on which any other     *)
(* command may look in, and after each of which it may die: list-runs and  *)
(* the database show the run's id from the first of them on.               *)
(*                                                                         *)
(* The drain itself is the business of SequentialDrain; here a launcher    *)
(* takes a task and settles it in one transaction each, never retries, and *)
(* refreshes the run's status in one step.                                 *)
(***************************************************************************)
EXTENDS Lifecycle, Sequences, FiniteSets

CONSTANTS
  Submission, \* the grids to submit: the keys of the tasks, in their order
  Actor,     \* who may run start-run, as resolve_actor names them
  Allowed,   \* config["approval"]["allowed_actors"]; {} when there is no list
  Launcher,  \* invocations of the command run
  Skipper    \* those among them that pass --skip-approval

ASSUME AdmissionAssumption ==
  /\ Submission \subseteq Seq(Nat \ {0})
  /\ Allowed \subseteq Actor
  /\ Skipper \subseteq Launcher

NoKey == 0

VARIABLES
  grid,      \* the submission
  creating,  \* where create_run stands
  next,      \* the index of the next task to store
  row,       \* runs.status; "absent" before the first transaction
  tasks,     \* the stored tasks: from their keys to their statuses
  log,       \* the approvals and skips among the run's events
  asking,    \* where each start-run stands
  launching, \* where each run command stands
  hand,      \* the task each launcher is working on
  early      \* a launcher began before create_run had returned

vars == <<grid, creating, next, row, tasks, log, asking, launching, hand, early>>

Key == {grid[i] : i \in DOMAIN grid}

Over == {"returned", "raised", "dead"}

Creating == {"insert_run", "log_created", "set_validated", "log_validated",
             "insert_task", "log_task"} \cup Over

Asking == {"idle", "prompt", "approve", "ended"}

Launching == {"idle", "gate", "load", "drain", "announce", "work", "close", "ended"}

TypeOK ==
  /\ grid \in Submission
  /\ creating \in Creating
  /\ next \in 1 .. Len(grid) + 1
  /\ row \in RunStatus \cup {"absent"}
  /\ DOMAIN tasks \subseteq Key
  /\ \A k \in DOMAIN tasks : tasks[k] \in TaskStatus
  /\ log \subseteq {<<"run_approved", a>> : a \in Actor} \cup {<<"approval_skipped", "">>}
  /\ asking \in [Actor -> Asking]
  /\ launching \in [Launcher -> Launching]
  /\ hand \in [Launcher -> Key \cup {NoKey}]
  /\ early \in BOOLEAN

Init ==
  /\ grid \in Submission
  /\ creating = "insert_run"
  /\ next = 1
  /\ row = "absent"
  /\ tasks = [k \in {} |-> "PENDING"]
  /\ log = {}
  /\ asking = [a \in Actor |-> "idle"]
  /\ launching = [l \in Launcher |-> "idle"]
  /\ hand = [l \in Launcher |-> NoKey]
  /\ early = FALSE

-----------------------------------------------------------------------------
(* create_run, after the configuration was found valid (see RunConfig).     *)

creator == <<grid, creating, next>>
others  == <<log, asking, launching, hand, early>>

(* A slip: the loop stops one task short.                                   *)
AllStoredShort(n) == n + 1 > Len(grid)

AllStored(n) == n > Len(grid)

(* A slip: the run is validated once its tasks are there.                   *)
FollowedByTasksFirst ==
  [log_created |-> "loop", loop |-> "set_validated", log_validated |-> "returned"]

(* What comes after each step of create_run that has but one successor.     *)
FollowedBy ==
  [log_created |-> "set_validated", log_validated |-> "loop", loop |-> "returned"]

(* The loop over the tasks, n - 1 of which are stored.                      *)
Loop(n) == IF AllStored(n) THEN FollowedBy["loop"] ELSE "insert_task"

After(place) == IF FollowedBy[place] = "loop" THEN Loop(1) ELSE FollowedBy[place]

InsertRun ==
  /\ creating = "insert_run"
  /\ creating' = "log_created"
  /\ row' = "CREATED"
  /\ UNCHANGED <<grid, next, tasks, others>>

LogCreated ==
  /\ creating = "log_created"
  /\ creating' = After("log_created")
  /\ UNCHANGED <<grid, next, row, tasks, others>>

(* The transition that is checked is the constant CREATED -> VALIDATED; the *)
(* row is written whatever it holds.                                        *)
SetValidated ==
  /\ creating = "set_validated"
  /\ creating' = "log_validated"
  /\ row' = "VALIDATED"
  /\ UNCHANGED <<grid, next, tasks, others>>

LogValidated ==
  /\ creating = "log_validated"
  /\ creating' = After("log_validated")
  /\ UNCHANGED <<grid, next, row, tasks, others>>

(* UNIQUE(run_id, task_key): a key that is already there makes the INSERT,  *)
(* and create_run, raise; what was stored before it stays.                  *)
InsertTask ==
  /\ creating = "insert_task"
  /\ IF grid[next] \in DOMAIN tasks
     THEN /\ creating' = "raised"
          /\ UNCHANGED tasks
     ELSE /\ creating' = "log_task"
          /\ tasks' = [k \in DOMAIN tasks \cup {grid[next]} |->
                         IF k = grid[next] THEN "PENDING" ELSE tasks[k]]
  /\ UNCHANGED <<grid, next, row, others>>

LogTask ==
  /\ creating = "log_task"
  /\ next' = next + 1
  /\ creating' = Loop(next + 1)
  /\ UNCHANGED <<grid, row, tasks, others>>

CreatorDies ==
  /\ creating \notin Over
  /\ creating' = "dead"
  /\ UNCHANGED <<grid, next, row, tasks, others>>

Create == InsertRun \/ LogCreated \/ SetValidated \/ LogValidated \/ InsertTask \/ LogTask

-----------------------------------------------------------------------------
(* refresh_run_status, in one step: it may raise and leave the row alone.   *)
Target ==
  RunTarget(DOMAIN tasks, tasks, [k \in DOMAIN tasks |-> IF tasks[k] = "PENDING" THEN 0 ELSE 1])

Reachable(s) == RunTransitionAllowed(row, s) \/ ReachableViaRunning(row, s)

RefreshRaises == Target # row /\ ~Reachable(Target)

Refreshed == IF RefreshRaises THEN row ELSE Target

(* status: get_run_status refreshes on behalf of whoever asks.              *)
Status ==
  /\ row # "absent"
  /\ row' = Refreshed
  /\ UNCHANGED <<creator, tasks, others>>

-----------------------------------------------------------------------------
(* start-run: await_approval with an InteractiveApprovalGate.               *)

Moves(l, from, to) == launching[l] = from /\ launching' = [launching EXCEPT ![l] = to]

Asks(a, from, to) == asking[a] = from /\ asking' = [asking EXCEPT ![a] = to]

(* A slip: the allow-list is not consulted.                                 *)
AuthorizedAnyone(a) == TRUE

(* An empty list counts as none.                                            *)
Authorized(a) == Allowed = {} \/ a \in Allowed

StartRun(a) ==
  /\ IF row # "absent" /\ Authorized(a) THEN Asks(a, "idle", "prompt")
     ELSE Asks(a, "idle", "ended")
  /\ UNCHANGED <<creator, row, tasks, log, launching, hand, early>>

Answer(a, yes) ==
  /\ Asks(a, "prompt", IF yes THEN "approve" ELSE "ended")
  /\ UNCHANGED <<creator, row, tasks, log, launching, hand, early>>

(* A slip: the event names the gate and not the actor.                      *)
ApprovalByTheGate(a) == <<"run_approved", "InteractiveApprovalGate">>

ApprovalBy(a) == <<"run_approved", a>>

(* The status of the run is shown, never tested: a run may be approved      *)
(* before its tasks are stored and after they have run.                     *)
Approve(a) ==
  /\ Asks(a, "approve", "ended")
  /\ log' = log \cup {ApprovalBy(a)}
  /\ UNCHANGED <<creator, row, tasks, launching, hand, early>>

-----------------------------------------------------------------------------
(* run.                                                                     *)

IsApproved == \E e \in log : e[1] = "run_approved"

Launch(l) ==
  /\ Moves(l, "idle", IF row = "absent" THEN "ended" ELSE "gate")
  /\ UNCHANGED <<creator, row, tasks, log, asking, hand, early>>

PassGate(l) ==
  /\ l \notin Skipper
  /\ Moves(l, "gate", IF IsApproved THEN "load" ELSE "ended")
  /\ UNCHANGED <<creator, row, tasks, log, asking, hand, early>>

(* The skip is logged before the handler is looked for.                     *)
SkipGate(l) ==
  /\ l \in Skipper
  /\ Moves(l, "gate", "load")
  /\ log' = log \cup {<<"approval_skipped", "">>}
  /\ UNCHANGED <<creator, row, tasks, asking, hand, early>>

LoadHandler(l, found) ==
  /\ Moves(l, "load", IF found THEN "drain" ELSE "ended")
  /\ early' = (early \/ (found /\ creating # "returned"))
  /\ UNCHANGED <<creator, row, tasks, log, asking, hand>>

Pending == {k \in DOMAIN tasks : tasks[k] = "PENDING"}

TakeTask(l, k) ==
  /\ k \in Pending /\ \A j \in Pending : k <= j
  /\ Moves(l, "drain", "announce")
  /\ tasks' = [tasks EXCEPT ![k] = "RUNNING"]
  /\ hand' = [hand EXCEPT ![l] = k]
  /\ UNCHANGED <<creator, row, log, asking, early>>

(* The refresh after mark_task_running: if it raises, drain goes on to the  *)
(* next task and this one stays RUNNING.                                    *)
Announce(l) ==
  /\ Moves(l, "announce", IF RefreshRaises THEN "drain" ELSE "work")
  /\ row' = Refreshed
  /\ UNCHANGED <<creator, tasks, log, asking, hand, early>>

Settle(l, s) ==
  /\ Moves(l, "work", "close")
  /\ tasks' = [tasks EXCEPT ![hand[l]] = s]
  /\ UNCHANGED <<creator, row, log, asking, hand, early>>

Close(l) ==
  /\ Moves(l, "close", "drain")
  /\ row' = Refreshed
  /\ UNCHANGED <<creator, tasks, log, asking, hand, early>>

NothingPending(l) ==
  /\ Pending = {}
  /\ Moves(l, "drain", "ended")
  /\ UNCHANGED <<creator, row, tasks, log, asking, hand, early>>

Next ==
  \/ Create \/ CreatorDies \/ Status
  \/ \E a \in Actor : StartRun(a) \/ Approve(a) \/ (\E yes \in BOOLEAN : Answer(a, yes))
  \/ \E l \in Launcher :
       \/ Launch(l) \/ PassGate(l) \/ SkipGate(l) \/ (\E found \in BOOLEAN : LoadHandler(l, found))
       \/ (\E k \in Key : TakeTask(l, k))
       \/ (\E s \in {"SUCCEEDED", "FAILED"} : Settle(l, s))
       \/ Announce(l) \/ Close(l) \/ NothingPending(l)

Spec == Init /\ [][Next]_vars

-----------------------------------------------------------------------------
Started == {k \in DOMAIN tasks : tasks[k] # "PENDING"}

(* Work leaves a trace of who let it through: as soon as a task has left    *)
(* PENDING the log holds an approval by someone the configuration allows,   *)
(* or a skip (the gate of the command run, cli/main.py).                    *)
NothingRunsUnapproved ==
  Started # {} =>
    \E e \in log : e[1] = "approval_skipped" \/ Allowed = {} \/ e[2] \in Allowed

(* A COMPLETED run whose create_run returned before anyone set to work has  *)
(* done the whole submission: every key is stored, and succeeded.           *)
CompletedMeansSubmitted ==
  row = "COMPLETED" /\ creating = "returned" /\ ~early =>
    DOMAIN tasks = Key /\ \A k \in Key : tasks[k] = "SUCCEEDED"

(* The unconditional update_run_status of create_run, and every other step  *)
(* of it, takes no work back: it never writes the row once a task has been  *)
(* started, however early a launcher was.                                   *)
CreationOverwritesNothing ==
  [][creating' # creating /\ row' # row => row \in {"absent", "CREATED"} /\ Started = {}]_vars
=============================================================================
