------------------------- MODULE RunAdmissionProofs -------------------------
(***************************************************************************)
(* What holds of RunAdmission for every set of submissions, actors,        *)
(* allow-lists and launchers: its type invariant and its three properties. *)
(***************************************************************************)
EXTENDS RunAdmission, SequenceTheorems, TLAPS

(* The loop index points at a task wherever a task is about to be stored.   *)
CreatorTypes ==
  /\ grid \in Submission
  /\ creating \in Creating
  /\ next \in 1 .. Len(grid) + 1
  /\ creating \in {"insert_run", "log_created", "set_validated", "log_validated"} => next = 1
  /\ creating \in {"insert_task", "log_task"} => next \in 1 .. Len(grid)

TaskTypes == DOMAIN tasks \subseteq Key /\ \A k \in DOMAIN tasks : tasks[k] \in TaskStatus

LogTypes == log \subseteq {<<"run_approved", a>> : a \in Actor} \cup {<<"approval_skipped", "">>}

LaunchTypes ==
  /\ launching \in [Launcher -> Launching]
  /\ hand \in [Launcher -> Key \cup {NoKey}]
  /\ early \in BOOLEAN

TypeInv ==
  /\ CreatorTypes /\ TaskTypes /\ LogTypes /\ LaunchTypes
  /\ row \in RunStatus \cup {"absent"}
  /\ asking \in [Actor -> Asking]

Stored(n) == {grid[i] : i \in 1 .. n}

(* What is stored, by the place create_run has reached.                     *)
CreationInv ==
  /\ creating = "insert_run" => row = "absent"
  /\ creating \in {"log_created", "set_validated"} => row \in {"CREATED", "VALIDATED"}
  /\ creating \in {"insert_run", "log_created", "set_validated", "log_validated"} =>
       DOMAIN tasks = {}
  /\ creating = "insert_task" => DOMAIN tasks = Stored(next - 1)
  /\ creating = "log_task" => DOMAIN tasks = Stored(next)
  /\ creating = "returned" => DOMAIN tasks = Key
  /\ row = "absent" => \A l \in Launcher : launching[l] \in {"idle", "ended"}

(* Somebody let the run through.                                            *)
Cleared ==
  \E e \in log : e[1] = "approval_skipped" \/ Allowed = {} \/ e[2] \in Allowed

(* The places of a launcher that has passed the gate.                       *)
PastGate == {"load", "drain", "announce", "work", "close"}

ClearanceInv ==
  /\ \A a \in Actor : asking[a] \in {"prompt", "approve"} => Authorized(a)
  /\ \A e \in log : \/ e = <<"approval_skipped", "">>
                    \/ \E a \in Actor : e = <<"run_approved", a>> /\ Authorized(a)
  /\ (\E l \in Launcher : launching[l] \in PastGate) => Cleared
  /\ Started # {} => Cleared

(* The task a launcher works on is RUNNING, and nobody else's.              *)
Working(l) == launching[l] \in {"announce", "work"}

HandInv ==
  /\ \A l \in Launcher : Working(l) =>
       hand[l] \in DOMAIN tasks /\ tasks[hand[l]] = "RUNNING"
  /\ \A l, m \in Launcher : Working(l) /\ Working(m) /\ hand[l] = hand[m] => l = m

(* As long as no launcher was early, nothing is started before create_run   *)
(* has returned, and COMPLETED means that everything stored succeeded.      *)
CompletionInv ==
  /\ ~early /\ creating # "returned" =>
       /\ \A l \in Launcher : launching[l] \in {"idle", "gate", "load", "ended"}
       /\ \A k \in DOMAIN tasks : tasks[k] = "PENDING"
       /\ row # "COMPLETED"
  /\ ~early /\ row = "COMPLETED" => \A k \in DOMAIN tasks : tasks[k] = "SUCCEEDED"

-----------------------------------------------------------------------------
LEMMA GridIsSequence ==
  ASSUME NEW g \in Submission
  PROVE  Len(g) \in Nat /\ DOMAIN g = 1 .. Len(g)
<1>1. g \in Seq(Nat \ {0})
  BY AdmissionAssumption
<1> QED
  BY <1>1, LenProperties

(* What follows a step of create_run.                                       *)
LEMMA Successors ==
  ASSUME grid \in Submission
  PROVE  /\ After("log_created") = "set_validated"
         /\ After("log_validated") = Loop(1)
         /\ \A n \in Nat \ {0} : \/ Loop(n) = "insert_task" /\ n \in 1 .. Len(grid)
                                 \/ Loop(n) = "returned" /\ n > Len(grid)
<1>1. Len(grid) \in Nat
  BY GridIsSequence
<1>2. ASSUME NEW n \in Nat \ {0}
      PROVE  \/ Loop(n) = "insert_task" /\ n \in 1 .. Len(grid)
             \/ Loop(n) = "returned" /\ n > Len(grid)
  BY <1>1 DEF Loop, AllStored, FollowedBy
<1>3. After("log_created") = "set_validated" /\ After("log_validated") = Loop(1)
  BY DEF After, FollowedBy
<1> QED
  BY <1>2, <1>3

(* What a refresh makes of the row.                                         *)
LEMMA RefreshOutcome ==
  /\ Refreshed = row \/ Refreshed = Target
  /\ Target \in RunStatus \ {"CREATED", "CANCELLED"}
  /\ DOMAIN tasks = {} => Target = "VALIDATED"
  /\ Target = "COMPLETED" =>
       DOMAIN tasks # {} /\ \A k \in DOMAIN tasks : tasks[k] = "SUCCEEDED"
<1>1. Refreshed = row \/ Refreshed = Target
  BY DEF Refreshed
<1>2. Target \in RunStatus \ {"CREATED", "CANCELLED"}
  BY DEF Target, RunTarget, RunStatus
<1>3. DOMAIN tasks = {} => Target = "VALIDATED"
  BY DEF Target, RunTarget
<1>4. Target = "COMPLETED" =>
        DOMAIN tasks # {} /\ \A k \in DOMAIN tasks : tasks[k] = "SUCCEEDED"
  BY DEF Target, RunTarget
<1> QED
  BY <1>1, <1>2, <1>3, <1>4

(* A step, and what it leaves alone.                                        *)
StepOfCreation ==
  /\ InsertRun \/ LogCreated \/ SetValidated \/ LogValidated \/ InsertTask \/ LogTask \/ CreatorDies
  /\ UNCHANGED <<grid, log, asking, launching, hand, early>>

StepOfApproval(a) ==
  /\ StartRun(a) \/ Approve(a) \/ Answer(a, TRUE) \/ Answer(a, FALSE)
  /\ UNCHANGED <<grid, creating, next, row, tasks, launching, hand, early>>

StepToTheDrain(l) ==
  /\ Launch(l) \/ PassGate(l) \/ SkipGate(l) \/ LoadHandler(l, TRUE) \/ LoadHandler(l, FALSE)
  /\ UNCHANGED <<grid, creating, next, row, tasks, asking, hand>>

StepOfTheDrain(l) ==
  /\ \/ \E k \in Key : TakeTask(l, k)
     \/ Settle(l, "SUCCEEDED") \/ Settle(l, "FAILED")
     \/ Announce(l) \/ Close(l) \/ NothingPending(l)
  /\ UNCHANGED <<grid, creating, next, log, asking, early>>

LEMMA Steps ==
  ASSUME [Next]_vars
  PROVE  \/ StepOfCreation
         \/ Status
         \/ \E a \in Actor : StepOfApproval(a)
         \/ \E l \in Launcher : StepToTheDrain(l) \/ StepOfTheDrain(l)
         \/ UNCHANGED vars
<1>1. ASSUME Create \/ CreatorDies
      PROVE  StepOfCreation
  BY <1>1
  DEF Create, InsertRun, LogCreated, SetValidated, LogValidated, InsertTask, LogTask,
      CreatorDies, StepOfCreation, others
<1>2. ASSUME NEW a \in Actor, StartRun(a) \/ Approve(a) \/ \E yes \in BOOLEAN : Answer(a, yes)
      PROVE  StepOfApproval(a)
  BY <1>2 DEF StartRun, Approve, Answer, StepOfApproval, creator
<1>3. ASSUME NEW l \in Launcher,
             \/ Launch(l) \/ PassGate(l) \/ SkipGate(l)
             \/ \E found \in BOOLEAN : LoadHandler(l, found)
      PROVE  StepToTheDrain(l)
  BY <1>3 DEF Launch, PassGate, SkipGate, LoadHandler, StepToTheDrain, creator
<1>4. ASSUME NEW l \in Launcher,
             \/ \E k \in Key : TakeTask(l, k)
             \/ \E s \in {"SUCCEEDED", "FAILED"} : Settle(l, s)
             \/ Announce(l) \/ Close(l) \/ NothingPending(l)
      PROVE  StepOfTheDrain(l)
  BY <1>4 DEF TakeTask, Settle, Announce, Close, NothingPending, StepOfTheDrain, creator
<1> QED
  BY <1>1, <1>2, <1>3, <1>4, Zenon DEF Next

-----------------------------------------------------------------------------
LEMMA TypeInit ==
  ASSUME Init
  PROVE  TypeInv
<1>1. Len(grid) \in Nat
  BY GridIsSequence DEF Init
<1>2. CreatorTypes
  BY <1>1 DEF Init, CreatorTypes, Creating
<1>3. TaskTypes /\ LogTypes /\ LaunchTypes
  BY DEF Init, TaskTypes, LogTypes, LaunchTypes, Launching
<1>4. row \in RunStatus \cup {"absent"} /\ asking \in [Actor -> Asking]
  BY DEF Init, Asking
<1> QED
  BY <1>2, <1>3, <1>4 DEF TypeInv

LEMMA TypeStep ==
  ASSUME TypeInv, [Next]_vars
  PROVE  TypeInv'
<1>0. /\ Len(grid) \in Nat /\ next \in Nat \ {0}
      /\ grid' = grid => Key' = Key
  BY GridIsSequence DEF TypeInv, CreatorTypes, Key
<1>r. Refreshed \in RunStatus \cup {"absent"}
  BY RefreshOutcome DEF TypeInv
<1>1. CASE StepOfCreation
  <2>1. CreatorTypes'
    <3>0. grid' = grid /\ CreatorTypes /\ grid \in Submission
      BY <1>1 DEF StepOfCreation, TypeInv, CreatorTypes
    <3>1. CASE InsertRun \/ SetValidated \/ CreatorDies
      BY <1>0, <3>0, <3>1
      DEF CreatorTypes, InsertRun, SetValidated, CreatorDies, Creating, Over
    <3>2. CASE LogCreated
      BY <1>0, <3>0, <3>2, Successors DEF CreatorTypes, LogCreated, Creating, Over
    <3>3. CASE LogValidated
      <4>1. next = 1 /\ next' = next /\ creating' = Loop(1)
        BY <3>0, <3>3, Successors DEF CreatorTypes, LogValidated
      <4>2. \/ creating' = "insert_task" /\ 1 \in 1 .. Len(grid)
            \/ creating' = "returned"
        BY <3>0, <4>1, Successors
      <4> QED
        BY <1>0, <3>0, <4>1, <4>2 DEF CreatorTypes, Creating, Over
    <3>4. CASE InsertTask
      BY <1>0, <3>0, <3>4 DEF CreatorTypes, InsertTask, Creating, Over
    <3>5. CASE LogTask
      <4>1. next \in 1 .. Len(grid) /\ next' = next + 1 /\ creating' = Loop(next + 1)
        BY <3>0, <3>5 DEF CreatorTypes, LogTask
      <4>2. next + 1 \in Nat \ {0}
        BY <1>0
      <4>3. \/ creating' = "insert_task" /\ next + 1 \in 1 .. Len(grid)
            \/ creating' = "returned"
        BY <3>0, <4>1, <4>2, Successors
      <4> QED
        BY <1>0, <3>0, <4>1, <4>3 DEF CreatorTypes, Creating, Over
    <3> QED
      BY <1>1, <3>1, <3>2, <3>3, <3>4, <3>5 DEF StepOfCreation
  <2>2. TaskTypes'
    <3>1. CASE InsertTask
      <4>1. grid[next] \in Key
        BY <3>1, GridIsSequence DEF InsertTask, TypeInv, CreatorTypes, Key
      <4> QED
        BY <1>0, <1>1, <3>1, <4>1
        DEF InsertTask, StepOfCreation, TypeInv, TaskTypes, TaskStatus
    <3>2. CASE UNCHANGED tasks
      BY <1>0, <1>1, <3>2 DEF StepOfCreation, TypeInv, TaskTypes
    <3> QED
      BY <1>1, <3>1, <3>2
      DEF StepOfCreation, InsertRun, LogCreated, SetValidated, LogValidated, LogTask, CreatorDies
  <2>3. row' \in RunStatus \cup {"absent"}
    BY <1>1
    DEF TypeInv, StepOfCreation, InsertRun, LogCreated, SetValidated, LogValidated, InsertTask,
        LogTask, CreatorDies, RunStatus
  <2> QED
    BY <1>0, <1>1, <2>1, <2>2, <2>3
    DEF TypeInv, LogTypes, LaunchTypes, StepOfCreation
<1>2. CASE Status
  BY <1>0, <1>r, <1>2
  DEF Status, TypeInv, CreatorTypes, TaskTypes, LogTypes, LaunchTypes, creator, others
<1>3. ASSUME NEW a \in Actor, StepOfApproval(a)
      PROVE  TypeInv'
  <2>1. LogTypes' /\ asking' \in [Actor -> Asking]
    BY <1>3
    DEF StepOfApproval, StartRun, Approve, ApprovalBy, Answer, Asks, Asking, TypeInv, LogTypes
  <2> QED
    BY <1>0, <1>3, <2>1
    DEF StepOfApproval, TypeInv, CreatorTypes, TaskTypes, LaunchTypes
<1>4. ASSUME NEW l \in Launcher, StepToTheDrain(l)
      PROVE  TypeInv'
  <2>1. LogTypes' /\ launching' \in [Launcher -> Launching] /\ early' \in BOOLEAN
    BY <1>4
    DEF StepToTheDrain, Launch, PassGate, SkipGate, LoadHandler, Moves, Launching, TypeInv,
        LogTypes, LaunchTypes
  <2> QED
    BY <1>0, <1>4, <2>1
    DEF StepToTheDrain, TypeInv, CreatorTypes, TaskTypes, LaunchTypes
<1>5. ASSUME NEW l \in Launcher, StepOfTheDrain(l)
      PROVE  TypeInv'
  <2>1. LaunchTypes'
    BY <1>0, <1>5
    DEF StepOfTheDrain, TakeTask, Settle, Announce, Close, NothingPending, Moves, Launching,
        TypeInv, LaunchTypes
  <2>2. TaskTypes'
    BY <1>0, <1>5
    DEF StepOfTheDrain, TakeTask, Settle, Announce, Close, NothingPending, TypeInv, TaskTypes,
        TaskStatus
  <2>3. row' \in RunStatus \cup {"absent"}
    BY <1>r, <1>5
    DEF StepOfTheDrain, TakeTask, Settle, Announce, Close, NothingPending, TypeInv
  <2> QED
    BY <1>5, <2>1, <2>2, <2>3 DEF StepOfTheDrain, TypeInv, CreatorTypes, LogTypes
<1>6. CASE UNCHANGED vars
  BY <1>0, <1>6 DEF vars, TypeInv, CreatorTypes, TaskTypes, LogTypes, LaunchTypes
<1> QED
  BY <1>1, <1>2, <1>3, <1>4, <1>5, <1>6, Steps

(* The types are as declared in every state.                                *)
THEOREM TypesHold == Spec => []TypeInv
BY TypeInit, TypeStep, PTL DEF Spec

(* Every variable keeps its type; in particular the log holds nothing but   *)
(* approvals by actors and skips, and no task is stored that was not        *)
(* submitted.                                                               *)
THEOREM TypeCorrect == Spec => []TypeOK
<1>1. TypeInv => TypeOK
  BY DEF TypeInv, CreatorTypes, TaskTypes, LogTypes, LaunchTypes, TypeOK
<1> QED
  BY <1>1, TypesHold, PTL
-----------------------------------------------------------------------------
(***************************************************************************)
(* Clearance.                                                              *)
(***************************************************************************)
LEMMA ClearanceStep ==
  ASSUME TypeInv, ClearanceInv, [Next]_vars
  PROVE  ClearanceInv'
<1>0. /\ launching \in [Launcher -> Launching] /\ asking \in [Actor -> Asking]
      /\ DOMAIN tasks \subseteq Key
  BY DEF TypeInv, LaunchTypes, TaskTypes
<1>1. CASE StepOfCreation
  <2>1. \A k \in DOMAIN tasks' : (k \in DOMAIN tasks /\ tasks'[k] = tasks[k]) \/ tasks'[k] = "PENDING"
    BY <1>1
    DEF StepOfCreation, InsertRun, LogCreated, SetValidated, LogValidated, InsertTask, LogTask,
        CreatorDies
  <2> QED
    BY <1>1, <2>1 DEF StepOfCreation, ClearanceInv, Cleared, Started
<1>2. CASE Status
  BY <1>2 DEF Status, others, ClearanceInv, Cleared, Started
<1>3. ASSUME NEW a \in Actor, StepOfApproval(a)
      PROVE  ClearanceInv'
  <2>1. log \subseteq log' /\ \A e \in log' \ log : e = <<"run_approved", a>> /\ Authorized(a)
    BY <1>3
    DEF StepOfApproval, StartRun, Approve, ApprovalBy, Answer, Asks, ClearanceInv
  <2>2. \A b \in Actor : asking'[b] \in {"prompt", "approve"} => Authorized(b)
    BY <1>0, <1>3 DEF StepOfApproval, StartRun, Approve, Answer, Asks, ClearanceInv
  <2> QED
    BY <1>3, <2>1, <2>2 DEF StepOfApproval, ClearanceInv, Cleared, Started
<1>4. ASSUME NEW l \in Launcher, StepToTheDrain(l)
      PROVE  ClearanceInv'
  <2>1. log \subseteq log' /\ \A e \in log' \ log : e = <<"approval_skipped", "">>
    BY <1>4 DEF StepToTheDrain, Launch, PassGate, SkipGate, LoadHandler
  <2>2. Cleared => Cleared'
    BY <2>1 DEF Cleared
  <2>3. launching'[l] \in PastGate => Cleared'
    <3>1. CASE PassGate(l)
      <4>1. IsApproved => Cleared
        <5>1. SUFFICES ASSUME NEW e \in log, e[1] = "run_approved"
                       PROVE  Cleared
          BY DEF IsApproved
        <5>2. CASE e = <<"approval_skipped", "">>
          BY <5>1, <5>2
        <5>3. ASSUME NEW a \in Actor, e = <<"run_approved", a>>, Authorized(a)
              PROVE  Cleared
          BY <5>3 DEF Cleared, Authorized
        <5> QED
          BY <5>2, <5>3 DEF ClearanceInv
      <4>2. ~IsApproved => launching'[l] = "ended"
        BY <1>0, <3>1 DEF PassGate, Moves
      <4> QED
        BY <2>2, <4>1, <4>2 DEF PastGate
    <3>2. CASE SkipGate(l)
      <4>1. <<"approval_skipped", "">> \in log'
        BY <3>2 DEF SkipGate
      <4>2. <<"approval_skipped", "">>[1] = "approval_skipped"
        OBVIOUS
      <4> QED
        BY <4>1, <4>2, Zenon DEF Cleared
    <3>3. CASE Launch(l)
      BY <1>0, <3>3 DEF Launch, Moves, PastGate
    <3>4. ASSUME NEW found \in BOOLEAN, LoadHandler(l, found)
          PROVE  Cleared'
      BY <2>2, <3>4 DEF LoadHandler, Moves, PastGate, ClearanceInv
    <3> QED
      BY <1>4, <3>1, <3>2, <3>3, <3>4 DEF StepToTheDrain
  <2>4. \A m \in Launcher \ {l} : launching'[m] = launching[m]
    BY <1>0, <1>4 DEF StepToTheDrain, Launch, PassGate, SkipGate, LoadHandler, Moves
  <2> QED
    BY <1>4, <2>1, <2>2, <2>3, <2>4 DEF StepToTheDrain, ClearanceInv, Started
<1>5. ASSUME NEW l \in Launcher, StepOfTheDrain(l)
      PROVE  ClearanceInv'
  <2>1. Cleared /\ Cleared'
    BY <1>5
    DEF StepOfTheDrain, TakeTask, Settle, Announce, Close, NothingPending, Moves, PastGate,
        ClearanceInv, Cleared
  <2> QED
    BY <1>5, <2>1 DEF StepOfTheDrain, ClearanceInv
<1>6. CASE UNCHANGED vars
  BY <1>6 DEF vars, ClearanceInv, Cleared, Started
<1> QED
  BY <1>1, <1>2, <1>3, <1>4, <1>5, <1>6, Steps

(* Whatever the interleaving of creation, approval and launches: work leaves *)
(* a trace of somebody who was entitled to let it through.                  *)
THEOREM WorkIsCleared == Spec => []NothingRunsUnapproved
<1>1. Init => ClearanceInv
  BY DEF Init, ClearanceInv, PastGate, Started
<1>2. TypeInv /\ ClearanceInv /\ [Next]_vars => ClearanceInv'
  BY ClearanceStep
<1>3. ClearanceInv => NothingRunsUnapproved
  BY DEF ClearanceInv, Cleared, NothingRunsUnapproved
<1> QED
  BY <1>1, <1>2, <1>3, TypesHold, PTL DEF Spec

-----------------------------------------------------------------------------
(***************************************************************************)
(* Creation.                                                               *)
(***************************************************************************)
LEMMA CreationStep ==
  ASSUME TypeInv, CreationInv, [Next]_vars
  PROVE  CreationInv'
<1>0. /\ Len(grid) \in Nat /\ DOMAIN grid = 1 .. Len(grid) /\ next \in Nat \ {0}
      /\ CreatorTypes /\ grid \in Submission
      /\ launching \in [Launcher -> Launching]
      /\ Key = Stored(Len(grid))
      /\ grid' = grid => Key' = Key /\ \A n : Stored(n)' = Stored(n)
  BY GridIsSequence DEF TypeInv, CreatorTypes, LaunchTypes, Key, Stored
<1>1. CASE InsertRun /\ StepOfCreation
  BY <1>1 DEF InsertRun, StepOfCreation, CreationInv
<1>2. CASE LogCreated /\ StepOfCreation
  BY <1>0, <1>2, Successors DEF LogCreated, StepOfCreation, CreationInv
<1>3. CASE SetValidated /\ StepOfCreation
  BY <1>3 DEF SetValidated, StepOfCreation, CreationInv
<1>4. CASE LogValidated /\ StepOfCreation
  <2>1. /\ creating = "log_validated" /\ next = 1 /\ next' = 1 /\ grid' = grid
        /\ tasks' = tasks /\ row' = row /\ launching' = launching
        /\ DOMAIN tasks = {} /\ creating' = Loop(1)
    BY <1>0, <1>4, Successors DEF LogValidated, StepOfCreation, CreationInv, CreatorTypes
  <2>2. \/ creating' = "insert_task"
        \/ creating' = "returned" /\ Key = {}
    BY <1>0, <2>1, Successors DEF Stored
  <2>3. Stored(0) = {}
    BY DEF Stored
  <2> QED
    BY <1>0, <2>1, <2>2, <2>3 DEF CreationInv
<1>5. CASE InsertTask /\ StepOfCreation
  <2>1. DOMAIN tasks = Stored(next - 1)
    BY <1>5 DEF InsertTask, CreationInv
  <2>2. DOMAIN tasks \cup {grid[next]} = Stored(next)
    BY <1>0, <2>1 DEF Stored
  <2>3. \/ creating' = "raised"
        \/ creating' = "log_task" /\ DOMAIN tasks' = Stored(next) /\ next' = next
    BY <1>5, <2>2 DEF InsertTask, StepOfCreation
  <2> QED
    BY <1>0, <1>5, <2>3 DEF InsertTask, StepOfCreation, CreationInv
<1>6. CASE LogTask /\ StepOfCreation
  <2>1. DOMAIN tasks' = Stored(next) /\ next = next' - 1 /\ creating' = Loop(next + 1)
    BY <1>0, <1>6 DEF LogTask, StepOfCreation, CreationInv
  <2>2. next \in 1 .. Len(grid)
    BY <1>0, <1>6 DEF LogTask, CreatorTypes
  <2>3. \/ creating' = "insert_task"
        \/ creating' = "returned" /\ next = Len(grid)
    <3>1. next + 1 \in Nat \ {0}
      BY <1>0
    <3>2. \/ Loop(next + 1) = "insert_task"
          \/ Loop(next + 1) = "returned" /\ next + 1 > Len(grid)
      BY <1>0, <3>1, Successors
    <3> QED
      BY <1>0, <2>1, <2>2, <3>2
  <2> QED
    BY <1>0, <1>6, <2>1, <2>3 DEF LogTask, StepOfCreation, CreationInv
<1>7. CASE CreatorDies /\ StepOfCreation
  BY <1>7 DEF CreatorDies, StepOfCreation, CreationInv
<1>8. ASSUME UNCHANGED <<grid, creating, next>>, DOMAIN tasks' = DOMAIN tasks,
             row' = row \/ (row # "absent" /\ row' = Target),
             row' = "absent" => \/ UNCHANGED launching
                                \/ \E l \in Launcher : Launch(l)
      PROVE  CreationInv'
  <2>1. row' = "absent" => \A l \in Launcher : launching'[l] \in {"idle", "ended"}
    BY <1>0, <1>8, RefreshOutcome DEF CreationInv, Launch, Moves, RunStatus
  <2>2. creating' \in {"log_created", "set_validated"} => row' \in {"CREATED", "VALIDATED"}
    BY <1>8, RefreshOutcome DEF CreationInv
  <2>3. creating' = "insert_run" => row' = "absent"
    BY <1>8 DEF CreationInv
  <2> QED
    BY <1>0, <1>8, <2>1, <2>2, <2>3 DEF CreationInv
<1>9. CASE Status
  BY <1>8, <1>9, RefreshOutcome DEF Status, creator, others
<1>10. ASSUME NEW a \in Actor, StepOfApproval(a)
       PROVE  CreationInv'
  BY <1>8, <1>10 DEF StepOfApproval
<1>11. ASSUME NEW l \in Launcher, StepToTheDrain(l)
       PROVE  CreationInv'
  <2>1. row = "absent" => Launch(l)
    BY <1>11
    DEF StepToTheDrain, PassGate, SkipGate, LoadHandler, Moves, CreationInv
  <2> QED
    BY <1>8, <1>11, <2>1 DEF StepToTheDrain
<1>12. ASSUME NEW l \in Launcher, StepOfTheDrain(l)
       PROVE  CreationInv'
  <2>1. row # "absent"
    BY <1>12
    DEF StepOfTheDrain, TakeTask, Settle, Announce, Close, NothingPending, Moves, CreationInv
  <2>2. DOMAIN tasks' = DOMAIN tasks /\ (row' = row \/ row' = Target)
    BY <1>12, RefreshOutcome
    DEF StepOfTheDrain, TakeTask, Settle, Announce, Close, NothingPending
  <2>3. row' # "absent"
    BY <2>1, <2>2, RefreshOutcome DEF RunStatus
  <2> QED
    BY <1>8, <1>12, <2>1, <2>2, <2>3 DEF StepOfTheDrain
<1>13. CASE UNCHANGED vars
  BY <1>8, <1>13 DEF vars
<1> QED
  BY <1>1, <1>2, <1>3, <1>4, <1>5, <1>6, <1>7, <1>9, <1>10, <1>11, <1>12, <1>13, Steps
  DEF StepOfCreation

(* What is stored fits the place create_run has reached, and nothing works  *)
(* on a run that is not there.                                              *)
THEOREM CreationHolds == Spec => []CreationInv
<1>1. Init => CreationInv
  BY DEF Init, CreationInv
<1>2. TypeInv /\ CreationInv /\ [Next]_vars => CreationInv'
  BY CreationStep
<1> QED
  BY <1>1, <1>2, TypesHold, PTL DEF Spec

(* create_run never writes the row of a run that somebody has begun to work *)
(* on, although it does so without looking.                                 *)
THEOREM CreationIsHarmless == Spec => CreationOverwritesNothing
<1>1. ASSUME TypeInv, CreationInv, [Next]_vars
      PROVE  [creating' # creating /\ row' # row =>
                row \in {"absent", "CREATED"} /\ Started = {}]_vars
  <2>1. SUFFICES ASSUME creating' # creating, row' # row
                 PROVE  row \in {"absent", "CREATED"} /\ Started = {}
    OBVIOUS
  <2>2. StepOfCreation
    BY <1>1, <2>1, Steps
    DEF Status, creator, StepOfApproval, StepToTheDrain, StepOfTheDrain, vars
  <2>3. InsertRun \/ SetValidated
    BY <2>1, <2>2
    DEF StepOfCreation, LogCreated, LogValidated, InsertTask, LogTask, CreatorDies
  <2> QED
    BY <1>1, <2>1, <2>3 DEF InsertRun, SetValidated, CreationInv, Started
<1> QED
  BY <1>1, TypesHold, CreationHolds, PTL DEF Spec, CreationOverwritesNothing

-----------------------------------------------------------------------------
(***************************************************************************)
(* Completion.                                                             *)
(***************************************************************************)
LEMMA HandStep ==
  ASSUME TypeInv, HandInv, [Next]_vars
  PROVE  HandInv'
<1>0. launching \in [Launcher -> Launching] /\ hand \in [Launcher -> Key \cup {NoKey}]
  BY DEF TypeInv, LaunchTypes
<1>1. CASE StepOfCreation
  <2>1. \A k \in DOMAIN tasks : k \in DOMAIN tasks' /\ tasks'[k] = tasks[k]
    BY <1>1
    DEF StepOfCreation, InsertRun, LogCreated, SetValidated, LogValidated, InsertTask, LogTask,
        CreatorDies
  <2> QED
    BY <1>1, <2>1 DEF StepOfCreation, HandInv, Working
<1>2. CASE Status
  BY <1>2 DEF Status, others, HandInv, Working
<1>3. ASSUME NEW a \in Actor, StepOfApproval(a)
      PROVE  HandInv'
  BY <1>3 DEF StepOfApproval, HandInv, Working
<1>4. ASSUME NEW l \in Launcher, StepToTheDrain(l)
      PROVE  HandInv'
  <2>1. \A m \in Launcher : Working(m)' => Working(m)
    BY <1>0, <1>4
    DEF StepToTheDrain, Launch, PassGate, SkipGate, LoadHandler, Moves, Working
  <2> QED
    BY <1>4, <2>1 DEF StepToTheDrain, HandInv
<1>5. ASSUME NEW l \in Launcher, NEW k \in Key, TakeTask(l, k)
      PROVE  HandInv'
  <2>1. /\ k \in DOMAIN tasks /\ tasks[k] = "PENDING" /\ tasks' = [tasks EXCEPT ![k] = "RUNNING"]
        /\ hand' = [hand EXCEPT ![l] = k]
    BY <1>5 DEF TakeTask, Pending
  <2>2. \A m \in Launcher \ {l} : (Working(m)' <=> Working(m)) /\ hand'[m] = hand[m]
    BY <1>0, <1>5, <2>1 DEF TakeTask, Moves, Working
  <2>3. \A m \in Launcher : Working(m) => hand[m] # k
    BY <2>1 DEF HandInv
  <2>4. hand'[l] = k
    BY <1>0, <2>1
  <2> QED
    BY <2>1, <2>2, <2>3, <2>4 DEF HandInv
<1>6. ASSUME NEW l \in Launcher, NEW s, Settle(l, s)
      PROVE  HandInv'
  <2>1. Working(l) /\ hand' = hand /\ tasks' = [tasks EXCEPT ![hand[l]] = s]
    BY <1>6 DEF Settle, Moves, Working
  <2>2. \A m \in Launcher : Working(m)' => Working(m) /\ m # l
    BY <1>0, <1>6 DEF Settle, Moves, Working
  <2> QED
    BY <2>1, <2>2 DEF HandInv
<1>7. ASSUME NEW l \in Launcher, Announce(l) \/ Close(l) \/ NothingPending(l)
      PROVE  HandInv'
  <2>1. /\ hand' = hand /\ tasks' = tasks
        /\ \A m \in Launcher : Working(m)' => Working(m)
    BY <1>0, <1>7 DEF Announce, Close, NothingPending, Moves, Working
  <2> QED
    BY <2>1 DEF HandInv
<1>8. CASE UNCHANGED vars
  BY <1>8 DEF vars, HandInv, Working
<1> QED
  BY <1>1, <1>2, <1>3, <1>4, <1>5, <1>6, <1>7, <1>8, Steps DEF StepOfTheDrain

(* No two launchers ever work on the same task: a launcher's task is RUNNING *)
(* from the moment it is taken until it is settled.                         *)
THEOREM HandsHold == Spec => []HandInv
<1>1. Init => HandInv
  BY DEF Init, HandInv, Working
<1>2. TypeInv /\ HandInv /\ [Next]_vars => HandInv'
  BY HandStep
<1> QED
  BY <1>1, <1>2, TypesHold, PTL DEF Spec

LEMMA CompletionStep ==
  ASSUME TypeInv, HandInv, CompletionInv, [Next]_vars
  PROVE  CompletionInv'
<1>0. launching \in [Launcher -> Launching] /\ early \in BOOLEAN
  BY DEF TypeInv, LaunchTypes
<1>1. CASE StepOfCreation
  <2>1. creating # "returned" /\ UNCHANGED <<early, launching>>
    BY <1>1
    DEF StepOfCreation, InsertRun, LogCreated, SetValidated, LogValidated, InsertTask, LogTask,
        CreatorDies, Over
  <2>2. \A k \in DOMAIN tasks' : (k \in DOMAIN tasks /\ tasks'[k] = tasks[k]) \/ tasks'[k] = "PENDING"
    BY <1>1
    DEF StepOfCreation, InsertRun, LogCreated, SetValidated, LogValidated, InsertTask, LogTask,
        CreatorDies
  <2>3. row' \in {"CREATED", "VALIDATED", row}
    BY <1>1
    DEF StepOfCreation, InsertRun, LogCreated, SetValidated, LogValidated, InsertTask, LogTask,
        CreatorDies
  <2> QED
    BY <2>1, <2>2, <2>3 DEF CompletionInv
<1>2. ASSUME UNCHANGED <<creating, tasks, early>>, row' = row \/ row' = Target,
             ~early /\ creating # "returned" =>
               \A l \in Launcher : launching'[l] \in {"idle", "gate", "load", "ended"}
      PROVE  CompletionInv'
  BY <1>2, RefreshOutcome DEF CompletionInv
<1>3. CASE Status
  BY <1>2, <1>3, RefreshOutcome DEF Status, creator, others, CompletionInv
<1>4. ASSUME NEW a \in Actor, StepOfApproval(a)
      PROVE  CompletionInv'
  BY <1>2, <1>4 DEF StepOfApproval, CompletionInv
<1>5. ASSUME NEW l \in Launcher, StepToTheDrain(l)
      PROVE  CompletionInv'
  <2>1. CASE early'
    BY <2>1 DEF CompletionInv
  <2>2. CASE ~early'
    <3>1. ~early /\ UNCHANGED <<creating, tasks, row>>
      BY <1>0, <1>5, <2>2 DEF StepToTheDrain, Launch, PassGate, SkipGate, LoadHandler
    <3>2. creating # "returned" => launching'[l] \in {"idle", "gate", "load", "ended"}
      BY <1>0, <1>5, <2>2
      DEF StepToTheDrain, Launch, PassGate, SkipGate, LoadHandler, Moves
    <3>3. \A m \in Launcher \ {l} : launching'[m] = launching[m]
      BY <1>0, <1>5 DEF StepToTheDrain, Launch, PassGate, SkipGate, LoadHandler, Moves
    <3> QED
      BY <3>1, <3>2, <3>3 DEF CompletionInv
  <2> QED
    BY <2>1, <2>2
<1>6. ASSUME NEW l \in Launcher, StepOfTheDrain(l)
      PROVE  CompletionInv'
  <2>1. early \/ creating = "returned"
    BY <1>6
    DEF StepOfTheDrain, TakeTask, Settle, Announce, Close, NothingPending, Moves, CompletionInv
  <2>2. UNCHANGED <<early, creating>>
    BY <1>6 DEF StepOfTheDrain
  <2>3. CASE (\E k \in Key : TakeTask(l, k)) \/ Settle(l, "SUCCEEDED") \/ Settle(l, "FAILED")
    <3>1. row' = row /\ \E k \in DOMAIN tasks : tasks[k] \in {"PENDING", "RUNNING"}
      BY <2>3 DEF TakeTask, Pending, Settle, Moves, HandInv, Working
    <3> QED
      BY <2>1, <2>2, <3>1 DEF CompletionInv
  <2>4. CASE Announce(l) \/ Close(l) \/ NothingPending(l)
    BY <1>2, <2>1, <2>2, <2>4, RefreshOutcome DEF Announce, Close, NothingPending
  <2> QED
    BY <1>6, <2>3, <2>4 DEF StepOfTheDrain
<1>7. CASE UNCHANGED vars
  BY <1>2, <1>7 DEF vars, CompletionInv
<1> QED
  BY <1>1, <1>3, <1>4, <1>5, <1>6, <1>7, Steps

(* A run that reads COMPLETED, and on which nobody set to work before its   *)
(* create_run had returned, has every task of the submission stored and     *)
(* succeeded.                                                               *)
THEOREM CompletedIsComplete == Spec => []CompletedMeansSubmitted
<1>1. Init => CompletionInv
  BY DEF Init, CompletionInv
<1>2. TypeInv /\ HandInv /\ CompletionInv /\ [Next]_vars => CompletionInv'
  BY CompletionStep
<1>3. CreationInv /\ CompletionInv => CompletedMeansSubmitted
  BY DEF CreationInv, CompletionInv, CompletedMeansSubmitted
<1> QED
  BY <1>1, <1>2, <1>3, TypesHold, HandsHold, CreationHolds, PTL DEF Spec
=============================================================================
