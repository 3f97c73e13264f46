--------------------------- MODULE DrainLogProofs ---------------------------
(***************************************************************************)
(* What the event log and the drains' counts say, for every number of      *)
(* workers, tasks, crashes, requeues and expiring leases: one verdict per  *)
(* attempt, verdicts that stand, successes counted once, and a bound on    *)
(* the number of times a handler starts.  The second half is about what a  *)
(* fault may spoil, each theorem with the faults it has to leave out:      *)
(* verdicts that reach the log, successes none of which is lost, a run     *)
(* that reads COMPLETED, and the report of a drain that is alone.          *)
(***************************************************************************)
EXTENDS SequentialDrainProofs

-----------------------------------------------------------------------------
(***************************************************************************)
(* One verdict per attempt.  The invariant speaks of the attempts that are *)
(* counted and not closed: their numbers differ, so none is closed twice.  *)
(***************************************************************************)
LogInv ==
  /\ \A w \in Worker : Counting(w) => attempt[w] \in 1..attempts[held[w]]
  /\ \A v, w \in Worker : Counting(v) /\ Counting(w) /\ held[v] = held[w]
                            /\ attempt[v] = attempt[w] => v = w
  /\ \A w \in Worker : Counting(w) => \A k \in ClosingKind : attempt[w] \notin Logged(held[w], k)
  /\ \A t \in Task : \A k \in ClosingKind : \A n \in Logged(t, k) : n <= attempts[t]
  /\ \A w \in Worker : Announced(w) => attempt[w] \in Logged(held[w], "task_running")
  /\ OneVerdictPerAttempt

LEMMA CountingHolds ==
  ASSUME TypeInv, NEW w \in Worker, Counting(w)
  PROVE  held[w] \in Task
BY DEF TypeInv, OnceInv, CallFrame, Counting, Underway, InCall, OncePC, ReturnPC

LEMMA CalmKeepsLog ==
  ASSUME TypeInv, LogInv, KeepsLog, KeepsAttempts, attempts' = attempts
  PROVE  LogInv'
<1>1. \A t \in Task : \A k \in ClosingKind : Logged(t, k)' = Logged(t, k)
  BY DEF KeepsLog, Watched
<1>2. \A t \in Task : Logged(t, "task_running")' = Logged(t, "task_running")
  BY DEF KeepsLog, Watched
<1>3. \A v \in Worker : Counting(v)' => /\ Counting(v) /\ held'[v] = held[v]
                                        /\ attempt'[v] = attempt[v] /\ held[v] \in Task
  BY CountingHolds DEF KeepsAttempts
<1>4. \A v \in Worker : Announced(v)' => Announced(v) /\ Counting(v)'
  BY DEF KeepsAttempts, Announced
<1>5. OneVerdictPerAttempt'
  BY <1>1, <1>2 DEF LogInv, OneVerdictPerAttempt
<1>6. \A w \in Worker : Counting(w)' => attempt'[w] \in 1..attempts'[held'[w]]
  BY <1>3 DEF LogInv
<1>7. \A v, w \in Worker : Counting(v)' /\ Counting(w)' /\ held'[v] = held'[w]
                             /\ attempt'[v] = attempt'[w] => v = w
  BY <1>3 DEF LogInv
<1>8. \A w \in Worker : Counting(w)' =>
        \A k \in ClosingKind : (attempt[w] \notin Logged(held[w], k))'
  <2>1. SUFFICES ASSUME NEW w \in Worker, Counting(w)', NEW k \in ClosingKind
                 PROVE  (attempt[w] \notin Logged(held[w], k))'
    OBVIOUS
  <2>2. PICK t \in Task : t = held[w]
    BY <1>3, <2>1
  <2>3. held'[w] = t /\ attempt'[w] = attempt[w] /\ attempt[w] \notin Logged(t, k)
    BY <1>3, <2>1, <2>2 DEF LogInv
  <2>4. attempt'[w] \notin Logged(t, k)'
    BY <1>1, <2>3
  <2> QED
    BY <2>3, <2>4 DEF Logged
<1>9. \A t \in Task : \A k \in ClosingKind : \A n \in Logged(t, k)' : n <= attempts'[t]
  BY <1>1 DEF LogInv
<1>10. \A w \in Worker : Announced(w)' => (attempt[w] \in Logged(held[w], "task_running"))'
  <2>1. SUFFICES ASSUME NEW w \in Worker, Announced(w)'
                 PROVE  (attempt[w] \in Logged(held[w], "task_running"))'
    OBVIOUS
  <2>2. PICK t \in Task : t = held[w]
    BY <1>3, <1>4, <2>1
  <2>3. held'[w] = t /\ attempt'[w] = attempt[w] /\ attempt[w] \in Logged(t, "task_running")
    BY <1>3, <1>4, <2>1, <2>2 DEF LogInv
  <2>4. attempt'[w] \in Logged(t, "task_running")'
    BY <1>2, <2>3
  <2> QED
    BY <2>3, <2>4 DEF Logged
<1> QED
  BY <1>5, <1>6, <1>7, <1>8, <1>9, <1>10 DEF LogInv

LEMMA BumpKeepsLog ==
  ASSUME TypeInv, LogInv, NEW w \in Worker, BumpAttempts(w)
  PROVE  LogInv'
<1>0. /\ w \in Proc /\ pc \in [Proc -> Place] /\ held[w] \in Task
      /\ attempts \in [Task -> Nat] /\ attempt \in [Worker -> Nat]
  BY DEF TypeInv, OnceInv, StoreInv, StoreTypeOK, CallFrame, BumpAttempts, InCall, OncePC, Proc
<1>1. PICK t \in Task : t = held[w]
  BY <1>0
<1>2. /\ attempts' = [attempts EXCEPT ![t] = @ + 1] /\ held' = held /\ after' = after
      /\ attempt' = [attempt EXCEPT ![w] = attempts[t] + 1] /\ events' = events
      /\ pc' = [pc EXCEPT ![w] = "mark"] /\ pc[w] = "bump"
  BY <1>1 DEF BumpAttempts, IncrementTaskAttempts, Goto, frameVars
<1>3. \A u \in Task : \A k : Logged(u, k)' = Logged(u, k)
  BY <1>2 DEF Logged
<1>4. \A v \in Worker \ {w} : /\ Counting(v)' <=> Counting(v)
                              /\ Announced(v)' <=> Announced(v)
                              /\ attempt'[v] = attempt[v]
  BY <1>0, <1>2 DEF Counting, Announced, Underway, Proc
<1>5. /\ attempt'[w] = attempts[t] + 1 /\ attempts'[t] = attempts[t] + 1 /\ ~Announced(w)'
      /\ \A u \in Task : attempts'[u] \in Nat /\ attempts[u] \in Nat /\ attempts[u] <= attempts'[u]
  BY <1>0, <1>2 DEF Announced
<1>6. OneVerdictPerAttempt'
  BY <1>3 DEF LogInv, OneVerdictPerAttempt
<1>7. \A v \in Worker : Counting(v)' => attempt'[v] \in 1..attempts'[held'[v]]
  <2>1. ASSUME NEW v \in Worker, v # w, Counting(v)
        PROVE  attempt'[v] \in 1..attempts'[held'[v]]
    BY <1>2, <1>4, <1>5, <2>1, CountingHolds DEF LogInv
  <2>2. attempt'[w] \in 1..attempts'[held'[w]]
    BY <1>0, <1>1, <1>2, <1>5
  <2> QED
    BY <1>4, <2>1, <2>2
<1>8. \A v \in Worker : v # w /\ Counting(v) /\ held[v] = t => attempt[v] # attempts[t] + 1
  BY <1>0, <1>1 DEF LogInv
<1>9. \A u, v \in Worker : Counting(u)' /\ Counting(v)' /\ held'[u] = held'[v]
                             /\ attempt'[u] = attempt'[v] => u = v
  BY <1>1, <1>2, <1>4, <1>5, <1>8 DEF LogInv
<1>10. \A v \in Worker : Counting(v)' =>
         \A k \in ClosingKind : (attempt[v] \notin Logged(held[v], k))'
  <2>1. SUFFICES ASSUME NEW v \in Worker, Counting(v)', NEW k \in ClosingKind
                 PROVE  (attempt[v] \notin Logged(held[v], k))'
    OBVIOUS
  <2>2. CASE v = w
    <3>1. attempts[t] + 1 \notin Logged(t, k)
      BY <1>0 DEF LogInv
    <3>2. attempt'[v] \notin Logged(t, k)'
      BY <1>3, <1>5, <2>2, <3>1
    <3> QED
      BY <1>1, <1>2, <2>2, <3>2 DEF Logged
  <2>3. CASE v # w
    <3>1. PICK u \in Task : u = held[v]
      BY <1>4, <2>1, <2>3, CountingHolds
    <3>2. attempt[v] \notin Logged(u, k)
      BY <1>4, <2>1, <2>3, <3>1 DEF LogInv
    <3>3. attempt'[v] \notin Logged(u, k)'
      BY <1>3, <1>4, <2>3, <3>2
    <3> QED
      BY <1>2, <3>1, <3>3 DEF Logged
  <2> QED
    BY <2>2, <2>3
<1>11. \A u \in Task : \A k \in ClosingKind : \A n \in Logged(u, k)' : n <= attempts'[u]
  <2>1. SUFFICES ASSUME NEW u \in Task, NEW k \in ClosingKind, NEW n \in Logged(u, k)
                 PROVE  n <= attempts'[u]
    BY <1>3
  <2>2. n <= attempts[u] /\ n \in Nat
    BY DEF LogInv, Logged, TypeInv, OnceInv, StoreInv, StoreTypeOK
  <2> QED
    BY <1>5, <2>2
<1>12. \A v \in Worker : Announced(v)' => (attempt[v] \in Logged(held[v], "task_running"))'
  <2>1. SUFFICES ASSUME NEW v \in Worker, Announced(v)'
                 PROVE  (attempt[v] \in Logged(held[v], "task_running"))'
    OBVIOUS
  <2>2. v # w /\ Announced(v) /\ attempt[v] \in Logged(held[v], "task_running")
    BY <1>4, <1>5, <2>1 DEF LogInv
  <2> QED
    BY <1>2, <1>4, <2>2 DEF Logged
<1> QED
  BY <1>6, <1>7, <1>9, <1>10, <1>11, <1>12 DEF LogInv

LEMMA AnnounceKeepsLog ==
  ASSUME TypeInv, LogInv, NEW w \in Worker, Announce(w)
  PROVE  LogInv'
<1>0. /\ w \in Proc /\ pc \in [Proc -> Place] /\ held[w] \in Task /\ StoreTypeOK
      /\ after \in [Proc -> {"lease", "prepare", "ok", "raised", "idle"}]
  BY DEF TypeInv, OnceInv, StoreInv, CallFrame, Announce, InCall, OncePC, Proc
<1>1. PICK t \in Task : t = held[w]
  BY <1>0
<1>2. /\ AppendEvent(t, "task_running", attempt[w]) /\ attempts' = attempts
      /\ held' = held /\ attempt' = attempt /\ pc[w] = "announce"
      /\ pc' = [pc EXCEPT ![w] = "r_get"] /\ after' = [after EXCEPT ![w] = "prepare"]
  BY <1>1 DEF Announce, AppendEvent, CallRefresh, Goto, callVars
<1>3. \A u \in Task : \A k \in ClosingKind : Logged(u, k)' = Logged(u, k)
  BY <1>0, <1>2, LogGrows DEF ClosingKind
<1>4. \A u \in Task : Logged(u, "task_running")' = IF u = t
        THEN Logged(u, "task_running") \cup {attempt[w]} ELSE Logged(u, "task_running")
  BY <1>0, <1>2, LogGrows
<1>5. \A v \in Worker : Counting(v)' => Counting(v) /\ held[v] \in Task
  BY <1>0, <1>2, CountingHolds DEF Counting, Underway, Proc
<1>6. \A v \in Worker : Announced(v)' => v = w \/ Announced(v)
  BY <1>0, <1>2 DEF Announced, Counting, Underway, Proc
<1>7. OneVerdictPerAttempt'
  <2>1. \A u \in Task : Logged(u, "task_running") \subseteq Logged(u, "task_running")'
    BY <1>4
  <2> QED
    BY <1>3, <2>1 DEF LogInv, OneVerdictPerAttempt
<1>8. \A v \in Worker : Counting(v)' =>
        \A k \in ClosingKind : (attempt[v] \notin Logged(held[v], k))'
  <2>1. SUFFICES ASSUME NEW v \in Worker, Counting(v)', NEW k \in ClosingKind
                 PROVE  (attempt[v] \notin Logged(held[v], k))'
    OBVIOUS
  <2>2. PICK u \in Task : u = held[v]
    BY <1>5, <2>1
  <2>3. attempt[v] \notin Logged(u, k)'
    BY <1>3, <1>5, <2>1, <2>2 DEF LogInv
  <2> QED
    BY <1>2, <2>2, <2>3 DEF Logged
<1>9. \A v \in Worker : Announced(v)' => (attempt[v] \in Logged(held[v], "task_running"))'
  <2>1. SUFFICES ASSUME NEW v \in Worker, Announced(v)'
                 PROVE  (attempt[v] \in Logged(held[v], "task_running"))'
    OBVIOUS
  <2>2. PICK u \in Task : u = held[v]
    BY <1>5, <2>1 DEF Announced
  <2>3. attempt[v] \in Logged(u, "task_running")'
    BY <1>1, <1>4, <1>6, <2>1, <2>2 DEF LogInv
  <2> QED
    BY <1>2, <2>2, <2>3 DEF Logged
<1>10. \A v \in Worker : Counting(v)' => attempt'[v] \in 1..attempts'[held'[v]]
  BY <1>2, <1>5 DEF LogInv
<1>11. \A u, v \in Worker : Counting(u)' /\ Counting(v)' /\ held'[u] = held'[v]
                              /\ attempt'[u] = attempt'[v] => u = v
  BY <1>2, <1>5 DEF LogInv
<1>12. \A u \in Task : \A k \in ClosingKind : \A n \in Logged(u, k)' : n <= attempts'[u]
  BY <1>2, <1>3 DEF LogInv
<1> QED
  BY <1>7, <1>8, <1>9, <1>10, <1>11, <1>12 DEF LogInv

LEMMA CloseKeepsLog ==
  ASSUME TypeInv, LogInv, NEW w \in Worker, Close(w)
  PROVE  LogInv'
<1>0. /\ w \in Proc /\ pc \in [Proc -> Place] /\ held[w] \in Task /\ StoreTypeOK
      /\ after \in [Proc -> {"lease", "prepare", "ok", "raised", "idle"}]
      /\ attempt \in [Worker -> Nat] /\ VerdictEvent(w) \in ClosingKind
  BY VerdictType DEF TypeInv, OnceInv, StoreInv, CallFrame, Close, InCall, OncePC, Proc
<1>1. PICK t \in Task : t = held[w]
  BY <1>0
<1>2. PICK e \in ClosingKind : e = VerdictEvent(w)
  BY <1>0
<1>3. /\ AppendEvent(t, e, attempt[w]) /\ attempts' = attempts
      /\ held' = held /\ attempt' = attempt /\ pc[w] = "close"
      /\ pc' = [pc EXCEPT ![w] = "r_get"]
      /\ \E a \in {"ok", "raised"} : after' = [after EXCEPT ![w] = a]
  BY <1>1, <1>2 DEF Close, AppendEvent, CallRefresh, Goto, callVars
<1>4. \A u \in Task : \A k \in ClosingKind : Logged(u, k)' =
        IF u = t /\ k = e THEN Logged(u, k) \cup {attempt[w]} ELSE Logged(u, k)
  BY <1>0, <1>3, LogGrows
<1>5. \A u \in Task : Logged(u, "task_running")' = Logged(u, "task_running")
  BY <1>0, <1>2, <1>3, LogGrows DEF ClosingKind
<1>6. ~Counting(w)' /\ ~Announced(w)'
  BY <1>0, <1>3 DEF Counting, Announced, Underway
<1>7. \A v \in Worker : v # w => (Counting(v)' <=> Counting(v)) /\ (Announced(v)' <=> Announced(v))
  BY <1>0, <1>3 DEF Counting, Announced, Underway, Proc
<1>8. /\ Counting(w) /\ Announced(w)
      /\ attempt[w] \in Logged(t, "task_running") /\ attempt[w] <= attempts[t]
      /\ \A k \in ClosingKind : attempt[w] \notin Logged(t, k)
  BY <1>1, <1>3 DEF LogInv, Counting, Announced
<1>9. OneVerdictPerAttempt'
  <2>1. \A u \in Task : \A k \in ClosingKind : Logged(u, k)' \subseteq Logged(u, "task_running")'
    BY <1>4, <1>5, <1>8 DEF LogInv, OneVerdictPerAttempt
  <2>2. ASSUME NEW u \in Task, NEW k \in ClosingKind, NEW l \in ClosingKind,
               NEW n, n \in Logged(u, k)', n \in Logged(u, l)'
        PROVE  k = l
    BY <1>4, <1>8, <2>2 DEF LogInv, OneVerdictPerAttempt
  <2> QED
    BY <2>1, <2>2 DEF OneVerdictPerAttempt
<1>10. \A v \in Worker : Counting(v)' =>
         \A k \in ClosingKind : (attempt[v] \notin Logged(held[v], k))'
  <2>1. SUFFICES ASSUME NEW v \in Worker, Counting(v)', NEW k \in ClosingKind
                 PROVE  (attempt[v] \notin Logged(held[v], k))'
    OBVIOUS
  <2>2. v # w /\ Counting(v)
    BY <1>6, <1>7, <2>1
  <2>3. PICK u \in Task : u = held[v]
    BY <2>2, CountingHolds
  <2>4. attempt[v] \notin Logged(u, k) /\ (u = t => attempt[v] # attempt[w])
    BY <1>1, <1>8, <2>2, <2>3 DEF LogInv
  <2>5. attempt[v] \notin Logged(u, k)'
    BY <1>4, <2>4
  <2> QED
    BY <1>3, <2>3, <2>5 DEF Logged
<1>11. \A v \in Worker : Announced(v)' => (attempt[v] \in Logged(held[v], "task_running"))'
  <2>1. SUFFICES ASSUME NEW v \in Worker, Announced(v)'
                 PROVE  (attempt[v] \in Logged(held[v], "task_running"))'
    OBVIOUS
  <2>2. Announced(v) /\ held[v] \in Task
    BY <1>6, <1>7, <2>1, CountingHolds DEF Announced
  <2>3. PICK u \in Task : u = held[v]
    BY <2>2
  <2>4. attempt[v] \in Logged(u, "task_running")'
    BY <1>5, <2>2, <2>3 DEF LogInv
  <2> QED
    BY <1>3, <2>3, <2>4 DEF Logged
<1>12. \A v \in Worker : Counting(v)' => attempt'[v] \in 1..attempts'[held'[v]]
  BY <1>3, <1>6, <1>7 DEF LogInv
<1>13. \A u, v \in Worker : Counting(u)' /\ Counting(v)' /\ held'[u] = held'[v]
                              /\ attempt'[u] = attempt'[v] => u = v
  BY <1>3, <1>6, <1>7 DEF LogInv
<1>14. \A u \in Task : \A k \in ClosingKind : \A n \in Logged(u, k)' : n <= attempts'[u]
  BY <1>3, <1>4, <1>8 DEF LogInv
<1> QED
  BY <1>9, <1>10, <1>11, <1>12, <1>13, <1>14 DEF LogInv

LEMMA LogStep ==
  ASSUME TypeInv, LogInv, [Next]_vars
  PROVE  LogInv'
<1>1. CASE \A w \in Worker : ~RunOnceStep(w)
  BY <1>1, OutsideRunOnce, AsideIsCalm, CalmKeepsLog DEF Aside
<1>2. ASSUME NEW w \in Worker, RunOnceStep(w)
      PROVE  LogInv'
  BY <1>2, OnceKeepsLog, OnceKeepsAttempts, CalmKeepsLog, BumpKeepsLog, AnnounceKeepsLog,
     CloseKeepsLog DEF TypeInv, BumpAttempts, Announce, Close
<1> QED
  BY <1>1, <1>2

(* No two workers close the same attempt of a task, and none closes one     *)
(* that was not announced, however often its lease changed hands while it   *)
(* was counting.                                                            *)
THEOREM VerdictsAreSingle == Spec => []OneVerdictPerAttempt
<1>1. Init => LogInv
  <2>1. SUFFICES ASSUME Init
                 PROVE  LogInv
    OBVIOUS
  <2>2. \A t \in Task : \A k : Logged(t, k) = {}
    BY <2>1 DEF Init, OnceInit, StoreInit, Logged
  <2>3. \A w \in Worker : ~Counting(w)
    BY <2>1 DEF Init, Counting, Underway, RefreshPC, Proc
  <2> QED
    BY <2>2, <2>3 DEF LogInv, Announced, OneVerdictPerAttempt
<1>2. TypeInv /\ LogInv /\ [Next]_vars => LogInv'
  BY LogStep
<1>3. LogInv => OneVerdictPerAttempt
  BY DEF LogInv
<1> QED
  BY <1>1, <1>2, <1>3, FrameCorrect, PTL DEF Spec

-----------------------------------------------------------------------------
(***************************************************************************)
(* A verdict in the log is the status in the table.  A worker at "close"   *)
(* has written the status and not yet the event.                           *)
(***************************************************************************)
VerdictInv ==
  /\ \A w \in Worker : pc[w] = "close" /\ Verdict(w) # "PENDING" => status[held[w]] = Verdict(w)
  /\ LoggedVerdictStands

(* Only Announce and Close append an event the properties speak of, and only *)
(* Close one that closes an attempt.                                         *)
LEMMA OnlyCloseCloses ==
  ASSUME TypeInv, [Next]_vars, \A w \in Worker : ~Close(w)
  PROVE  \A t \in Task : \A k \in ClosingKind : Logged(t, k)' = Logged(t, k)
<1>1. CASE \A w \in Worker : ~RunOnceStep(w)
  BY <1>1, OutsideRunOnce DEF Aside, KeepsLog, Watched
<1>2. ASSUME NEW w \in Worker, RunOnceStep(w), ~Announce(w)
      PROVE  KeepsLog
  BY <1>2, OnceKeepsLog DEF TypeInv
<1>3. ASSUME NEW w \in Worker, Announce(w), NEW t \in Task, NEW k \in ClosingKind
      PROVE  Logged(t, k)' = Logged(t, k)
  <2>1. held[w] \in Task /\ StoreTypeOK
    BY <1>3 DEF TypeInv, OnceInv, StoreInv, CallFrame, Announce, InCall, OncePC
  <2>2. k # "task_running"
    BY DEF ClosingKind
  <2> QED
    BY <1>3, <2>1, <2>2, LogGrows DEF Announce
<1> QED
  BY <1>1, <1>2, <1>3 DEF KeepsLog, Watched

(* Outside Record the worker at "close" is the one that was there.          *)
LEMMA OnlyRecordRecords ==
  ASSUME TypeInv, [Next]_vars, \A w \in Worker : ~Record(w)
  PROVE  KeepsClosing
<1>1. CASE \A w \in Worker : ~RunOnceStep(w)
  BY <1>1, OutsideRunOnce, AsideIsCalm
<1> QED
  BY <1>1, OnceKeepsClosing DEF TypeInv

LEMMA VerdictIsFinal ==
  ASSUME NEW w \in Worker, Verdict(w) # "PENDING"
  PROVE  Verdict(w) \in TerminalTask
BY DEF Verdict, TerminalTask, TaskStatus, InProgress

LEMMA VerdictStep ==
  ASSUME TypeInv, VerdictInv, [Next]_vars
  PROVE  VerdictInv'
<1>0. /\ VerdictsStand /\ pc \in [Proc -> Place] /\ Worker \subseteq Proc /\ StoreTypeOK
      /\ \A w \in Worker : pc[w] = "close" => held[w] \in Task
  BY StoreEffect, StoreKeepsVerdicts
  DEF TypeInv, OnceInv, StoreInv, CallFrame, InCall, OncePC, Proc
<1>1. \A t \in Task : \A s \in {"SUCCEEDED", "FAILED", "TIMED_OUT", "DEGENERATE"} :
        status[t] = s => status'[t] = s
  BY <1>0 DEF VerdictsStand, TerminalTask, TaskStatus, InProgress
<1>2. ASSUME NEW v \in Worker, pc[v] = "close", held'[v] = held[v],
             attempt'[v] = attempt[v], outcome'[v] = outcome[v], Verdict(v)' # "PENDING"
      PROVE  (status[held[v]] = Verdict(v))'
  <2>1. Verdict(v)' = Verdict(v)
    BY <1>2 DEF Verdict, RetriesLeft
  <2>2. PICK t \in Task : t = held[v]
    BY <1>0, <1>2
  <2>3. status[t] = Verdict(v) /\ Verdict(v) \in TerminalTask
    BY <1>2, <2>1, <2>2, VerdictIsFinal DEF VerdictInv
  <2>4. status'[t] = status[t]
    BY <1>0, <2>3 DEF VerdictsStand
  <2> QED
    BY <1>2, <2>1, <2>2, <2>3, <2>4
<1>3. \A w \in Worker : pc'[w] = "close" /\ Verdict(w)' # "PENDING"
                          => (status[held[w]] = Verdict(w))'
  <2>1. CASE \A w \in Worker : ~Record(w)
    BY <1>2, <2>1, OnlyRecordRecords DEF KeepsClosing
  <2>2. ASSUME NEW w \in Worker, Record(w)
        PROVE  \A v \in Worker : pc'[v] = "close" /\ Verdict(v)' # "PENDING"
                                   => (status[held[v]] = Verdict(v))'
    <3>1. \A v \in Worker \ {w} : Stays(v)
      BY <2>2, OthersStay DEF TypeInv, RunOnceStep
    <3>2. held[w] \in Task
      BY <2>2 DEF Record, TypeInv, OnceInv, CallFrame, InCall, OncePC
    <3>3. Verdict(w)' = Verdict(w) /\ held' = held
      BY <2>2 DEF Record, Verdict, RetriesLeft, callVars
    <3>4. status'[held[w]] = Verdict(w)
      BY <1>0, <2>2, <3>2 DEF Record, UpdateTaskStatus, StoreTypeOK
    <3> QED
      BY <1>2, <3>1, <3>3, <3>4 DEF Stays
  <2> QED
    BY <2>1, <2>2
<1>4. LoggedVerdictStands'
  <2>1. CASE \A w \in Worker : ~Close(w)
    <3>1. \A t \in Task : \A k \in ClosingKind : Logged(t, k)' = Logged(t, k)
      BY <2>1, OnlyCloseCloses
    <3> QED
      BY <1>1, <3>1 DEF VerdictInv, LoggedVerdictStands, ClosingKind
  <2>2. ASSUME NEW w \in Worker, Close(w)
        PROVE  LoggedVerdictStands'
    <3>1. PICK t \in Task : t = held[w]
      BY <1>0, <2>2 DEF Close
    <3>2. /\ AppendEvent(t, VerdictEvent(w), attempt[w]) /\ status' = status /\ pc[w] = "close"
      BY <2>2, <3>1 DEF Close, AppendEvent, leaseVars
    <3>3. \A u \in Task : \A k \in ClosingKind :
            Logged(u, k)' = IF u = t /\ k = VerdictEvent(w) THEN Logged(u, k) \cup {attempt[w]}
                            ELSE Logged(u, k)
      BY <1>0, <3>2, LogGrows
    <3>4. /\ VerdictEvent(w) = "task_succeeded"  => Verdict(w) = "SUCCEEDED"
          /\ VerdictEvent(w) = "task_failed"     => Verdict(w) = "FAILED"
          /\ VerdictEvent(w) = "task_timed_out"  => Verdict(w) = "TIMED_OUT"
          /\ VerdictEvent(w) = "task_degenerate" => Verdict(w) = "DEGENERATE"
      BY DEF VerdictEvent, Verdict
    <3>5. Verdict(w) # "PENDING" => status[t] = Verdict(w)
      BY <3>1, <3>2 DEF VerdictInv
    <3>6. ASSUME NEW u \in Task, NEW k \in ClosingKind, NEW s \in TaskStatus \ {"PENDING"},
                 k = VerdictEvent(w) => Verdict(w) = s,
                 Logged(u, k) # {} => status[u] = s
          PROVE  Logged(u, k)' # {} => status'[u] = s
      BY <3>2, <3>3, <3>5, <3>6
    <3> QED
      BY <3>4, <3>6 DEF VerdictInv, LoggedVerdictStands, ClosingKind, TaskStatus
  <2> QED
    BY <2>1, <2>2
<1> QED
  BY <1>3, <1>4 DEF VerdictInv

(* The event of a final verdict is appended after the status, in another    *)
(* transaction; whatever other workers do in between, the status it tells   *)
(* is the one on record.                                                    *)
THEOREM LoggedVerdictsStand == Spec => []LoggedVerdictStands
<1>1. Init => VerdictInv
  <2>1. SUFFICES ASSUME Init
                 PROVE  VerdictInv
    OBVIOUS
  <2>2. \A t \in Task : \A k : Logged(t, k) = {}
    BY <2>1 DEF Init, OnceInit, StoreInit, Logged
  <2>3. \A w \in Worker : pc[w] # "close"
    BY <2>1 DEF Init, Proc
  <2> QED
    BY <2>2, <2>3 DEF VerdictInv, LoggedVerdictStands
<1>2. TypeInv /\ VerdictInv /\ [Next]_vars => VerdictInv'
  BY VerdictStep
<1>3. VerdictInv => LoggedVerdictStands
  BY DEF VerdictInv
<1> QED
  BY <1>1, <1>2, <1>3, FrameCorrect, PTL DEF Spec

-----------------------------------------------------------------------------
(***************************************************************************)
(* Successes.  A drain lays claim to a task from the moment it records the *)
(* success: what it will count is claimed already.                         *)
(***************************************************************************)
Claim(w, t) ==
  \/ t \in succeeded[w]
  \/ /\ held[w] = t
     /\ \/ pc[w] = "close" /\ outcome[w] = "ok"
        \/ pc[w] = "ok"
        \/ pc[w] \in RefreshPC /\ after[w] = "ok"

ClaimInv ==
  /\ \A w \in Worker, t \in Task : Claim(w, t) => status[t] = "SUCCEEDED"
  /\ \A v, w \in Worker, t \in Task : Claim(v, t) /\ Claim(w, t) => v = w

LEMMA OnlyCountingCounts ==
  ASSUME [Next]_vars
  PROVE  succeeded' = succeeded \/ \E w \in Worker : CountSuccess(w)
BY DEF Next, DrainStep, SwallowError, QueueEmpty, Report, Crash, ObserverStep, ObserverAsks,
       LeaseExpires, Requeue, vars, drainVars

(* Nothing but recording a success lays claim to a task.                    *)
LEMMA OnlyRecordClaims ==
  ASSUME TypeInv, [Next]_vars, \A w \in Worker : ~Record(w)
  PROVE  \A v \in Worker, t \in Task : Claim(v, t)' => Claim(v, t)
<1>0. /\ pc \in [Proc -> Place] /\ Worker \subseteq Proc /\ succeeded \in [Worker -> SUBSET Task]
      /\ after \in [Proc -> {"lease", "prepare", "ok", "raised", "idle"}]
      /\ held \in [Worker -> Task \cup {NoTask}]
  BY DEF TypeInv, OnceInv, CallFrame, DrainFrame, Proc
<1>1. ASSUME NEW w \in Worker, CountSuccess(w)
      PROVE  \A v \in Worker, t \in Task : Claim(v, t)' => Claim(v, t)
  <2>1. \A v \in Worker \ {w} : /\ pc'[v] = pc[v] /\ after'[v] = after[v] /\ held'[v] = held[v]
                                /\ outcome'[v] = outcome[v] /\ succeeded'[v] = succeeded[v]
    BY <1>0, <1>1 DEF CountSuccess, Goto, ReturnFrame, TypeInv, OnceInv, CallFrame
  <2>2. pc[w] = "ok" /\ pc'[w] \in {"lease", "report"} /\ succeeded'[w] = succeeded[w] \cup {held[w]}
    BY <1>0, <1>1 DEF CountSuccess, Goto
  <2> QED
    BY <2>1, <2>2 DEF Claim, RefreshPC
<1>2. ASSUME succeeded' = succeeded, \A w \in Worker : ~RunOnceStep(w)
      PROVE  \A v \in Worker, t \in Task : Claim(v, t)' => Claim(v, t)
  <2>1. \A v \in Worker : Stays(v) \/ Leaves(v)
    BY <1>2, OutsideRunOnce DEF Aside
  <2> QED
    BY <1>2, <2>1 DEF Claim, Stays, Leaves, RefreshPC
<1>3. ASSUME succeeded' = succeeded, NEW w \in Worker, RunOnceStep(w)
      PROVE  \A v \in Worker, t \in Task : Claim(v, t)' => Claim(v, t)
  <2>1. \A v \in Worker \ {w} : Stays(v)
    BY <1>3, OthersStay DEF TypeInv
  <2>2. CASE RefreshStep(w)
    <3>1. UNCHANGED <<held, after>> /\ pc[w] \in RefreshPC
      BY <2>2, RefreshCalm, RefreshGoes DEF TypeInv, RefreshStep, Proc
    <3>2. PICK place \in RefreshPC \cup {"r_error", after[w]} : Goto(w, place)
      BY <2>2, RefreshGoes DEF RefreshStep, Proc
    <3>3. pc'[w] # "close" /\ (pc'[w] = "ok" => after[w] = "ok")
      BY <1>0, <2>2, <3>2, RefreshCalm DEF Goto, RefreshPC
    <3>4. \A t \in Task : Claim(w, t)' => Claim(w, t)
      BY <1>3, <3>1, <3>3 DEF Claim
    <3> QED
      BY <1>3, <2>1, <3>4 DEF Claim, Stays
  <2>3. CASE Close(w)
    <3>1. /\ pc[w] = "close" /\ pc'[w] = "r_get" /\ held' = held
          /\ after'[w] = IF outcome[w] = "ok" THEN "ok" ELSE "raised"
      BY <1>0, <2>3 DEF Close, CallRefresh, Goto, callVars
    <3>2. \A t \in Task : Claim(w, t)' => Claim(w, t)
      BY <1>3, <3>1 DEF Claim
    <3> QED
      BY <1>3, <2>1, <3>2 DEF Claim, Stays
  <2>4. CASE Announce(w)
    <3>1. pc'[w] = "r_get" /\ after'[w] = "prepare"
      BY <1>0, <2>4 DEF Announce, CallRefresh, Goto
    <3>2. \A t \in Task : Claim(w, t)' => Claim(w, t)
      BY <1>3, <3>1 DEF Claim
    <3> QED
      BY <1>3, <2>1, <3>2 DEF Claim, Stays
  <2>5. CASE ~RefreshStep(w) /\ ~Close(w) /\ ~Announce(w)
    <3>1. pc'[w] \notin {"close", "ok"} \cup RefreshPC
      <4>1. PICK place \in OncePC \ {"close", "ok"} : Goto(w, place)
        BY <1>3, <2>5
        DEF RunOnceStep, Lease, LeaseNothing, BumpAttempts, MarkRunning, MarkRefused, Prepare,
            HandlerEnds, Execute, ExecuteTimesOut, OomBudget, RecordRefused, ArtifactFails,
            OncePC, ReturnPC
      <4> QED
        BY <1>0, <4>1 DEF Goto, OncePC, ReturnPC, RefreshPC
    <3>2. \A t \in Task : Claim(w, t)' => Claim(w, t)
      BY <1>3, <3>1 DEF Claim
    <3> QED
      BY <1>3, <2>1, <3>2 DEF Claim, Stays
  <2> QED
    BY <2>2, <2>3, <2>4, <2>5
<1> QED
  BY <1>1, <1>2, <1>3, OnlyCountingCounts

LEMMA ClaimStep ==
  ASSUME TypeInv, CustodyInv, ClaimInv, [Next]_vars
  PROVE  ClaimInv'
<1>0. /\ VerdictsStand /\ pc \in [Proc -> Place] /\ StoreTypeOK
  BY StoreEffect, StoreKeepsVerdicts DEF TypeInv, OnceInv, StoreInv, CallFrame
<1>1. \A t \in Task : status[t] = "SUCCEEDED" => status'[t] = "SUCCEEDED"
  BY <1>0 DEF VerdictsStand, TerminalTask, TaskStatus, InProgress
<1>2. CASE \A w \in Worker : ~Record(w)
  BY <1>1, <1>2, OnlyRecordClaims DEF ClaimInv
<1>3. ASSUME NEW w \in Worker, Record(w)
      PROVE  ClaimInv'
  <2>1. \A v \in Worker \ {w} : Stays(v)
    BY <1>3, OthersStay DEF TypeInv, RunOnceStep
  <2>2. PICK t \in Task : t = held[w] /\ status[t] = "RUNNING"
    BY <1>3 DEF Record, CustodyInv, Underway
  <2>3. \A v \in Worker : ~Claim(v, t)
    BY <2>2 DEF ClaimInv
  <2>4. /\ held' = held /\ outcome' = outcome /\ pc'[w] = "close"
        /\ status'[t] = Verdict(w)
    BY <1>0, <1>3, <2>2 DEF Record, UpdateTaskStatus, StoreTypeOK, Goto, callVars, Proc
  <2>5. outcome[w] = "ok" => Verdict(w) = "SUCCEEDED"
    BY DEF Verdict
  <2>6. succeeded' = succeeded
    <3>1. \A v \in Worker : ~CountSuccess(v)
      BY <1>0, <1>3, <2>4 DEF CountSuccess, Record, Goto, Proc
    <3> QED
      BY <3>1, OnlyCountingCounts
  <2>7. \A v \in Worker, u \in Task : Claim(v, u)' =>
          Claim(v, u) \/ (v = w /\ u = t /\ outcome[w] = "ok")
    BY <2>1, <2>2, <2>4, <2>6 DEF Claim, Stays, RefreshPC
  <2> QED
    BY <1>1, <2>3, <2>4, <2>5, <2>7 DEF ClaimInv
<1> QED
  BY <1>2, <1>3

(* A success is counted by the drain that recorded it and by no other, and  *)
(* only while it is on record.                                              *)
THEOREM SuccessesCountOnce == Spec => []SuccessCountedOnce
<1>1. Init => ClaimInv
  <2>1. SUFFICES ASSUME Init
                 PROVE  ClaimInv
    OBVIOUS
  <2>2. \A w \in Worker, t \in Task : ~Claim(w, t)
    BY <2>1 DEF Init, Claim, RefreshPC, Proc
  <2> QED
    BY <2>2 DEF ClaimInv
<1>2. TypeInv /\ CustodyInv /\ ClaimInv /\ [Next]_vars => ClaimInv'
  BY ClaimStep
<1>3. TypeInv /\ ClaimInv => SuccessCountedOnce
  <2>1. SUFFICES ASSUME TypeInv, ClaimInv
                 PROVE  SuccessCountedOnce
    OBVIOUS
  <2>2. \A w \in Worker : \A t \in succeeded[w] : t \in Task /\ Claim(w, t)
    BY <2>1 DEF TypeInv, DrainFrame, Claim
  <2> QED
    BY <2>1, <2>2 DEF SuccessCountedOnce, ClaimInv
<1> QED
  BY <1>1, <1>2, <1>3, FrameCorrect, CustodyHolds, PTL DEF Spec

-----------------------------------------------------------------------------
(***************************************************************************)
(* How often a handler starts.  A task goes back to the queue only from an *)
(* attempt below its limit, so the announcements of a task that may still  *)
(* be leased are below the limit too, however many were counted meanwhile. *)
(***************************************************************************)
Announcements(t) == Logged(t, "task_running")

Below(t) == 1..(MaxAttempts[t] - 1)

BoundInv ==
  MaxOomRetries = 0 =>
    /\ \A w \in Worker : outcome[w] # "oom" /\ pc[w] # "oom_count"
    /\ \A t \in Task : status[t] \in {"PENDING", "LEASED"} => Announcements(t) \subseteq Below(t)
    /\ \A w \in Worker : Underway(w) =>
         Announcements(held[w]) \subseteq
           Below(held[w]) \cup (IF pc[w] = "announce" THEN {} ELSE {attempt[w]})
    /\ \A t \in Task : \E n \in Nat : Announcements(t) \subseteq Below(t) \cup {n}

(* No budget, no OOM verdict.                                               *)
LEMMA NoOomVerdict ==
  ASSUME TypeInv, [Next]_vars, MaxOomRetries = 0,
         \A w \in Worker : outcome[w] # "oom" /\ pc[w] # "oom_count"
  PROVE  \A w \in Worker : outcome'[w] # "oom" /\ pc'[w] # "oom_count"
<1>0. /\ pc \in [Proc -> Place] /\ Worker \subseteq Proc /\ outcome \in [Worker -> Outcome]
      /\ \A w \in Worker : pc[w] \in RefreshPC => after[w] \in {"prepare", "ok", "raised"}
  BY DEF TypeInv, OnceInv, CallFrame, Proc
<1>1. ASSUME NEW w \in Worker, RunOnceStep(w)
      PROVE  \A v \in Worker : outcome'[v] # "oom" /\ pc'[v] # "oom_count"
  <2>1. \A v \in Worker \ {w} : outcome'[v] # "oom" /\ pc'[v] # "oom_count"
    BY <1>1, OthersStay DEF TypeInv, Stays
  <2>2. CASE HandlerEnds(w)
    <3>1. PICK o \in Outcome \ {"oom"}, place \in {"raised", "record"} :
            outcome' = [outcome EXCEPT ![w] = o] /\ Goto(w, place)
      BY <2>2 DEF HandlerEnds, Execute, ExecuteTimesOut, Outcome, HandlerOutcome
    <3> QED
      BY <1>0, <2>1, <3>1 DEF Goto
  <2>3. CASE RefreshStep(w)
    <3>1. outcome' = outcome
      BY <2>3, RefreshCalm DEF TypeInv
    <3>2. \E place \in RefreshPC \cup {"r_error", after[w]} : Goto(w, place)
      BY <2>3, RefreshGoes DEF RefreshStep, Proc
    <3>3. pc[w] \in RefreshPC
      BY <2>3, RefreshGoes DEF RefreshStep, Proc
    <3>4. pc'[w] # "oom_count"
      BY <1>0, <3>2, <3>3 DEF Goto, RefreshPC
    <3> QED
      BY <2>1, <3>1, <3>4
  <2>4. CASE ~HandlerEnds(w) /\ ~RefreshStep(w)
    <3>1. outcome' = outcome
      BY <1>1, <2>4
      DEF RunOnceStep, Lease, LeaseNothing, BumpAttempts, MarkRunning, MarkRefused, Announce,
          Prepare, OomBudget, Record, RecordRefused, ArtifactFails, Close, callVars
    <3>2. PICK place \in (OncePC \cup RefreshPC) \ {"oom_count"} : Goto(w, place)
      BY <1>1, <2>4
      DEF RunOnceStep, Lease, LeaseNothing, BumpAttempts, MarkRunning, MarkRefused, Announce,
          CallRefresh, Prepare, OomBudget, Record, RecordRefused, ArtifactFails, Close, OncePC,
          ReturnPC, RefreshPC
    <3> QED
      BY <1>0, <2>1, <3>1, <3>2 DEF Goto
  <2> QED
    BY <2>2, <2>3, <2>4
<1>2. CASE \A w \in Worker : ~RunOnceStep(w)
  <2>1. \A v \in Worker : Stays(v) \/ Leaves(v)
    BY <1>2, OutsideRunOnce DEF Aside
  <2>2. \A v \in Worker : outcome'[v] \in {outcome[v], "none"}
    BY <1>0, <1>2, RefreshGoes
    DEF Next, DrainStep, CountSuccess, SwallowError, QueueEmpty, Report, Crash, ObserverStep,
        ObserverAsks, RefreshStep, ZombieReturns, LeaseExpires, Requeue, vars, onceVars,
        callVars, ReturnFrame
  <2> QED
    BY <2>1, <2>2 DEF Stays, Leaves
<1> QED
  BY <1>1, <1>2

(* Steps that announce nothing, give no task back and begin no attempt.     *)
LEMMA CalmKeepsBound ==
  ASSUME TypeInv, BoundInv, [Next]_vars, \A t \in Task : Announcements(t)' = Announcements(t),
         \A t \in Task : status'[t] \in {"PENDING", "LEASED"} => status[t] \in {"PENDING", "LEASED"},
         \A v \in Worker : Underway(v)' =>
           /\ Underway(v) /\ held'[v] = held[v] /\ attempt'[v] = attempt[v]
           /\ pc'[v] = "announce" => pc[v] = "announce"
  PROVE  BoundInv'
<1>1. SUFFICES ASSUME MaxOomRetries = 0
               PROVE  BoundInv'
  BY DEF BoundInv
<1>2. \A t \in Task : Announcements(t)' = Announcements(t)
  OBVIOUS
<1>3. \A w \in Worker : outcome'[w] # "oom" /\ pc'[w] # "oom_count"
  BY <1>1, NoOomVerdict DEF BoundInv
<1>4. \A t \in Task : status'[t] \in {"PENDING", "LEASED"} => Announcements(t)' \subseteq Below(t)
  BY <1>1, <1>2 DEF BoundInv
<1>5. ASSUME NEW w \in Worker, Underway(w)'
      PROVE  (Announcements(held[w]) \subseteq
                Below(held[w]) \cup (IF pc[w] = "announce" THEN {} ELSE {attempt[w]}))'
  <2>1. PICK t \in Task : t = held[w]
    BY <1>5, CountingHolds DEF Counting
  <2>2. Announcements(t) \subseteq
          Below(t) \cup (IF pc'[w] = "announce" THEN {} ELSE {attempt'[w]})
    BY <1>1, <1>5, <2>1 DEF BoundInv
  <2>3. Announcements(t)' \subseteq
          Below(t) \cup (IF pc'[w] = "announce" THEN {} ELSE {attempt'[w]})
    BY <1>2, <2>2
  <2>4. held'[w] = t
    BY <1>5, <2>1
  <2> QED
    BY <2>3, <2>4 DEF Announcements, Logged, Below
<1>6. \A t \in Task : \E n \in Nat : Announcements(t)' \subseteq Below(t) \cup {n}
  BY <1>1, <1>2 DEF BoundInv
<1> QED
  BY <1>3, <1>4, <1>5, <1>6 DEF BoundInv, Below

LEMMA MarkKeepsBound ==
  ASSUME TypeInv, CustodyInv, BoundInv, [Next]_vars, NEW w \in Worker, MarkRunning(w)
  PROVE  BoundInv'
<1>1. SUFFICES ASSUME MaxOomRetries = 0
               PROVE  BoundInv'
  BY DEF BoundInv
<1>2. PICK t \in Task : t = held[w]
  BY DEF MarkRunning, TypeInv, OnceInv, CallFrame, InCall, OncePC
<1>3. /\ status[t] = "LEASED" /\ status' = [status EXCEPT ![t] = "RUNNING"] /\ events' = events
      /\ pc[w] = "mark" /\ pc'[w] = "announce" /\ held' = held /\ attempt' = attempt
      /\ status \in [Task -> TaskStatus]
  BY <1>2
  DEF MarkRunning, MarkTaskRunning, MayMark, Goto, callVars, TypeInv, OnceInv, StoreInv,
      StoreTypeOK, CallFrame, Proc
<1>4. \A u \in Task : Announcements(u)' = Announcements(u)
  BY <1>3 DEF Announcements, Logged
<1>5. \A w2 \in Worker : outcome'[w2] # "oom" /\ pc'[w2] # "oom_count"
  BY <1>1, NoOomVerdict DEF BoundInv
<1>6. \A u \in Task : status'[u] \in {"PENDING", "LEASED"} => Announcements(u)' \subseteq Below(u)
  BY <1>1, <1>3, <1>4 DEF BoundInv
<1>7. \A v \in Worker \ {w} : Stays(v)
  BY OthersStay DEF TypeInv, RunOnceStep
<1>8. ASSUME NEW v \in Worker, Underway(v)'
      PROVE  (Announcements(held[v]) \subseteq
                Below(held[v]) \cup (IF pc[v] = "announce" THEN {} ELSE {attempt[v]}))'
  <2>1. CASE v = w
    <3>1. Announcements(t)' \subseteq Below(t)
      BY <1>1, <1>3, <1>4 DEF BoundInv
    <3> QED
      BY <1>2, <1>3, <2>1, <3>1 DEF Announcements, Logged, Below
  <2>2. CASE v # w
    <3>1. Underway(v) /\ pc'[v] = pc[v]
      BY <1>3, <1>7, <1>8, <2>2 DEF Stays, Underway
    <3>2. PICK u \in Task : u = held[v]
      BY <3>1, CountingHolds DEF Counting
    <3>3. Announcements(u)' \subseteq
            Below(u) \cup (IF pc'[v] = "announce" THEN {} ELSE {attempt'[v]})
      BY <1>1, <1>3, <1>4, <3>1, <3>2 DEF BoundInv
    <3> QED
      BY <1>3, <3>2, <3>3 DEF Announcements, Logged, Below
  <2> QED
    BY <2>1, <2>2
<1>9. \A u \in Task : \E n \in Nat : Announcements(u)' \subseteq Below(u) \cup {n}
  BY <1>1, <1>4 DEF BoundInv
<1> QED
  BY <1>5, <1>6, <1>8, <1>9 DEF BoundInv, Below

LEMMA AnnounceKeepsBound ==
  ASSUME TypeInv, CustodyInv, BoundInv, [Next]_vars, NEW w \in Worker, Announce(w)
  PROVE  BoundInv'
<1>1. SUFFICES ASSUME MaxOomRetries = 0
               PROVE  BoundInv'
  BY DEF BoundInv
<1>2. PICK t \in Task : t = held[w] /\ status[t] = "RUNNING" /\ Underway(w)
  BY DEF Announce, CustodyInv, Underway
<1>3. /\ AppendEvent(t, "task_running", attempt[w]) /\ status' = status
      /\ pc[w] = "announce" /\ pc'[w] = "r_get" /\ held' = held /\ attempt' = attempt
      /\ StoreTypeOK /\ attempt[w] \in Nat
  BY <1>2
  DEF Announce, AppendEvent, CallRefresh, Goto, callVars, leaseVars, TypeInv, OnceInv, StoreInv,
      CallFrame, Proc
<1>4. \A u \in Task : Announcements(u)' = IF u = t THEN Announcements(u) \cup {attempt[w]}
                                          ELSE Announcements(u)
  BY <1>3, LogGrows DEF Announcements
<1>5. \A v \in Worker : outcome'[v] # "oom" /\ pc'[v] # "oom_count"
  BY <1>1, NoOomVerdict DEF BoundInv
<1>6. \A u \in Task : status'[u] \in {"PENDING", "LEASED"} => Announcements(u)' \subseteq Below(u)
  BY <1>1, <1>2, <1>3, <1>4 DEF BoundInv
<1>7. \A v \in Worker \ {w} : Stays(v)
  BY OthersStay DEF TypeInv, RunOnceStep
<1>t. Announcements(t)' \subseteq Below(t) \cup {attempt[w]}
  BY <1>1, <1>2, <1>3, <1>4 DEF BoundInv
<1>8. ASSUME NEW v \in Worker, Underway(v)'
      PROVE  (Announcements(held[v]) \subseteq
                Below(held[v]) \cup (IF pc[v] = "announce" THEN {} ELSE {attempt[v]}))'
  <2>1. CASE v = w
    BY <1>2, <1>3, <1>t, <2>1 DEF Announcements, Logged, Below
  <2>2. CASE v # w
    <3>1. Underway(v) /\ pc'[v] = pc[v]
      BY <1>7, <1>8, <2>2 DEF Stays, Underway
    <3>2. PICK u \in Task : u = held[v]
      BY <3>1, CountingHolds DEF Counting
    <3>3. u # t
      BY <1>2, <2>2, <3>1, <3>2 DEF CustodyInv
    <3>4. Announcements(u)' \subseteq
            Below(u) \cup (IF pc'[v] = "announce" THEN {} ELSE {attempt'[v]})
      BY <1>1, <1>3, <1>4, <3>1, <3>2, <3>3 DEF BoundInv
    <3> QED
      BY <1>3, <3>2, <3>4 DEF Announcements, Logged, Below
  <2> QED
    BY <2>1, <2>2
<1>9. \A u \in Task : \E n \in Nat : Announcements(u)' \subseteq Below(u) \cup {n}
  BY <1>1, <1>3, <1>4, <1>t DEF BoundInv
<1> QED
  BY <1>5, <1>6, <1>8, <1>9 DEF BoundInv, Below

LEMMA RecordKeepsBound ==
  ASSUME TypeInv, CustodyInv, LogInv, BoundInv, [Next]_vars, NEW w \in Worker, Record(w)
  PROVE  BoundInv'
<1>1. SUFFICES ASSUME MaxOomRetries = 0
               PROVE  BoundInv'
  BY DEF BoundInv
<1>2. PICK t \in Task : t = held[w] /\ status[t] = "RUNNING" /\ Underway(w)
  BY DEF Record, CustodyInv, Underway
<1>3. /\ status' = [status EXCEPT ![t] = Verdict(w)] /\ events' = events
      /\ pc[w] = "record" /\ pc'[w] = "close" /\ held' = held /\ attempt' = attempt
      /\ status \in [Task -> TaskStatus]
  BY <1>2
  DEF Record, UpdateTaskStatus, Goto, callVars, TypeInv, OnceInv, StoreInv, StoreTypeOK,
      CallFrame, Proc
<1>4. \A u \in Task : Announcements(u)' = Announcements(u)
  BY <1>3 DEF Announcements, Logged
<1>5. \A v \in Worker : outcome'[v] # "oom" /\ pc'[v] # "oom_count"
  BY <1>1, NoOomVerdict DEF BoundInv
<1>6. \A u \in Task : status'[u] \in {"PENDING", "LEASED"} => Announcements(u)' \subseteq Below(u)
  <2>1. Verdict(w) # "LEASED"
    BY DEF Verdict
  <2>2. ASSUME Verdict(w) = "PENDING"
        PROVE  Announcements(t) \subseteq Below(t)
    <3>1. attempt[w] < MaxAttempts[t]
      BY <1>1, <1>2, <2>2 DEF Verdict, RetriesLeft, BoundInv
    <3>2. attempt[w] \in 1..attempts[t] /\ attempts[t] \in Nat /\ MaxAttempts[t] \in Nat
      BY <1>2, RunOnceAssumption DEF LogInv, Counting, TypeInv, OnceInv, StoreInv, StoreTypeOK
    <3>3. attempt[w] \in Below(t)
      BY <3>1, <3>2 DEF Below
    <3>4. Announcements(t) \subseteq Below(t) \cup {attempt[w]}
      BY <1>1, <1>2, <1>3 DEF BoundInv
    <3> QED
      BY <3>3, <3>4
  <2> QED
    BY <1>1, <1>3, <1>4, <2>1, <2>2 DEF BoundInv
<1>7. \A v \in Worker \ {w} : Stays(v)
  BY OthersStay DEF TypeInv, RunOnceStep
<1>8. ASSUME NEW v \in Worker, Underway(v)'
      PROVE  (Announcements(held[v]) \subseteq
                Below(held[v]) \cup (IF pc[v] = "announce" THEN {} ELSE {attempt[v]}))'
  <2>1. v # w
    BY <1>3, <1>8 DEF Underway, RefreshPC
  <2>2. Underway(v) /\ pc'[v] = pc[v]
    BY <1>7, <1>8, <2>1 DEF Stays, Underway
  <2>3. PICK u \in Task : u = held[v]
    BY <2>2, CountingHolds DEF Counting
  <2>4. Announcements(u)' \subseteq
          Below(u) \cup (IF pc'[v] = "announce" THEN {} ELSE {attempt'[v]})
    BY <1>1, <1>3, <1>4, <2>2, <2>3 DEF BoundInv
  <2> QED
    BY <1>3, <2>3, <2>4 DEF Announcements, Logged, Below
<1>9. \A u \in Task : \E n \in Nat : Announcements(u)' \subseteq Below(u) \cup {n}
  BY <1>1, <1>4 DEF BoundInv
<1> QED
  BY <1>5, <1>6, <1>8, <1>9 DEF BoundInv, Below

(* A step of run_once that announces nothing and records nothing.           *)
LEMMA OnceKeepsBound ==
  ASSUME TypeInv, BoundInv, [Next]_vars, NEW w \in Worker, RunOnceStep(w),
         ~MarkRunning(w), ~Announce(w), ~Record(w)
  PROVE  BoundInv'
<1>0. /\ pc \in [Proc -> Place] /\ w \in Proc /\ StoreTypeOK
      /\ \A v \in Worker \ {w} : Stays(v)
      /\ pc[w] \in InCall => held[w] \in Task
  BY OthersStay DEF TypeInv, OnceInv, StoreInv, CallFrame, Proc
<1>1. \A t \in Task : status'[t] \in {"PENDING", "LEASED"} => status[t] \in {"PENDING", "LEASED"}
  <2>1. CASE Lease(w)
    BY <1>0, <2>1 DEF Lease, LeaseNextPendingTask, Leaseable, LeaseRanOut, StoreTypeOK
  <2>2. CASE ~Lease(w)
    BY <2>2, RefreshCalm
    DEF TypeInv, RunOnceStep, LeaseNothing, BumpAttempts, IncrementTaskAttempts, MarkRefused,
        Prepare, HandlerEnds, Execute, ExecuteTimesOut, OomBudget, RecordRefused, ArtifactFails,
        Close, AppendEvent, storeVars, leaseVars
  <2> QED
    BY <2>1, <2>2
<1>2. \A t \in Task : Announcements(t)' = Announcements(t)
  <2>1. CASE Close(w)
    <3>1. held[w] \in Task /\ VerdictEvent(w) # "task_running"
      BY <1>0, <2>1, VerdictType DEF Close, ClosingKind, InCall, OncePC
    <3> QED
      BY <1>0, <2>1, <3>1, LogGrows DEF Close, Announcements
  <2>2. CASE ~Close(w)
    BY <2>2, OnceKeepsLog DEF TypeInv, KeepsLog, Watched, Announcements
  <2> QED
    BY <2>1, <2>2
<1>3. \A v \in Worker : Underway(v)' =>
        /\ Underway(v) /\ held'[v] = held[v] /\ attempt'[v] = attempt[v]
        /\ pc'[v] = "announce" => pc[v] = "announce"
  <2>1. ASSUME Underway(w)'
        PROVE  /\ Underway(w) /\ held'[w] = held[w] /\ attempt'[w] = attempt[w]
               /\ pc'[w] # "announce"
    <3>1. CASE RefreshStep(w)
      BY <2>1, <3>1, RefreshCalm DEF TypeInv
    <3>2. CASE Prepare(w) \/ HandlerEnds(w) \/ OomBudget(w)
      <4>1. /\ pc[w] \in {"prepare", "execute", "oom_count"} /\ UNCHANGED <<held, attempt>>
            /\ pc'[w] \in {"raised", "execute", "record", "oom_count"}
        BY <1>0, <3>2 DEF Prepare, HandlerEnds, Execute, ExecuteTimesOut, OomBudget, Goto, callVars
      <4> QED
        BY <4>1 DEF Underway
    <3>3. CASE Close(w)
      BY <1>0, <2>1, <3>3
      DEF Close, CallRefresh, Goto, Underway, TypeInv, OnceInv, CallFrame, RefreshPC
    <3>4. CASE Lease(w) \/ LeaseNothing(w) \/ BumpAttempts(w) \/ MarkRefused(w)
               \/ RecordRefused(w) \/ ArtifactFails(w)
      <4>1. pc'[w] \in {"bump", "empty", "mark", "raised"}
        BY <1>0, <3>4
        DEF Lease, LeaseNothing, BumpAttempts, MarkRefused, RecordRefused, ArtifactFails, Goto
      <4> QED
        BY <2>1, <4>1 DEF Underway, RefreshPC
    <3> QED
      BY <3>1, <3>2, <3>3, <3>4 DEF RunOnceStep
  <2>2. \A v \in Worker \ {w} : Underway(v)' =>
          Underway(v) /\ held'[v] = held[v] /\ attempt'[v] = attempt[v] /\ pc'[v] = pc[v]
    BY <1>0 DEF Stays, Underway
  <2> QED
    BY <2>1, <2>2
<1> QED
  BY <1>1, <1>2, <1>3, CalmKeepsBound

LEMMA BoundStep ==
  ASSUME TypeInv, CustodyInv, LogInv, BoundInv, [Next]_vars
  PROVE  BoundInv'
<1>1. CASE \A w \in Worker : ~RunOnceStep(w)
  <2>1. Aside /\ \A v \in Worker : Underway(v)' => Stays(v) /\ Underway(v)
    BY <1>1, OutsideRunOnce, AsideIsCalm
  <2>2. \A t \in Task : Announcements(t)' = Announcements(t)
    BY <2>1 DEF Aside, KeepsLog, Watched, Announcements
  <2>3. \A t \in Task : status'[t] \in {"PENDING", "LEASED"} => status[t] \in {"PENDING", "LEASED"}
    BY <2>1 DEF Aside
  <2> QED
    BY <2>1, <2>2, <2>3, CalmKeepsBound DEF Stays
<1>2. ASSUME NEW w \in Worker, RunOnceStep(w)
      PROVE  BoundInv'
  BY <1>2, MarkKeepsBound, AnnounceKeepsBound, RecordKeepsBound, OnceKeepsBound
<1> QED
  BY <1>1, <1>2

LEMMA BoundMeansBounded ==
  ASSUME BoundInv
  PROVE  AttemptsBounded
<1>1. SUFFICES ASSUME MaxOomRetries = 0, NEW t \in Task
               PROVE  Cardinality(Announcements(t)) <= MaxAttempts[t]
  BY DEF AttemptsBounded, Announcements
<1>2. MaxAttempts[t] \in Nat \ {0}
  BY RunOnceAssumption
<1>3. PICK n \in Nat : Announcements(t) \subseteq Below(t) \cup {n}
  BY <1>1 DEF BoundInv
<1>4. IsFiniteSet(Below(t)) /\ Cardinality(Below(t)) = MaxAttempts[t] - 1
  <2>1. PICK m \in Nat : m = MaxAttempts[t] - 1
    BY <1>2
  <2>2. IsFiniteSet(1..m) /\ Cardinality(1..m) = IF 1 > m THEN 0 ELSE m - 1 + 1
    BY FS_Interval
  <2>3. Below(t) = 1..m
    BY <2>1 DEF Below
  <2>4. PICK c : c = Cardinality(1..m)
    OBVIOUS
  <2>5. c = m
    BY <2>2, <2>4
  <2> QED
    BY <2>1, <2>2, <2>3, <2>4, <2>5, Zenon
<1>5. PICK B : B = Below(t) \cup {n}
  OBVIOUS
<1>6. IsFiniteSet(B) /\ Cardinality(B) = IF n \in Below(t) THEN Cardinality(Below(t))
                                         ELSE Cardinality(Below(t)) + 1
  BY <1>4, <1>5, FS_AddElement
<1>7. PICK b \in Nat : b = Cardinality(B) /\ b <= MaxAttempts[t]
  BY <1>2, <1>4, <1>6
<1>8. PICK a \in Nat : a = Cardinality(Announcements(t)) /\ a <= b
  BY <1>3, <1>5, <1>6, <1>7, FS_Subset, FS_CardinalityType
<1> QED
  BY <1>2, <1>7, <1>8

(* Without an OOM budget no handler starts more often than its task allows, *)
(* although several workers may count attempts of one lease before one of   *)
(* them marks the task.                                                     *)
THEOREM StartsAreBounded == Spec => []AttemptsBounded
<1>1. Init => LogInv /\ BoundInv
  <2>1. SUFFICES ASSUME Init
                 PROVE  LogInv /\ BoundInv
    OBVIOUS
  <2>2. \A t \in Task : \A k : Logged(t, k) = {}
    BY <2>1 DEF Init, OnceInit, StoreInit, Logged
  <2>3. \A w \in Worker : ~Counting(w) /\ ~Underway(w) /\ outcome[w] # "oom" /\ pc[w] # "oom_count"
    BY <2>1 DEF Init, OnceInit, Counting, Underway, RefreshPC, Proc
  <2> QED
    BY <2>2, <2>3 DEF LogInv, BoundInv, Announced, Announcements, OneVerdictPerAttempt
<1>2. TypeInv /\ CustodyInv /\ LogInv /\ BoundInv /\ [Next]_vars => LogInv' /\ BoundInv'
  BY LogStep, BoundStep
<1>3. BoundInv => AttemptsBounded
  BY BoundMeansBounded
<1> QED
  BY <1>1, <1>2, <1>3, FrameCorrect, CustodyHolds, PTL DEF Spec

-----------------------------------------------------------------------------
(***************************************************************************)
(* Every verdict reaches the log, if nobody crashes and every artifact can *)
(* be written: the worker that recorded it is still there to append it.    *)
(***************************************************************************)
Final == {"SUCCEEDED", "DEGENERATE", "TIMED_OUT", "FAILED"}

EventOf(s) ==
  CASE s = "SUCCEEDED"  -> "task_succeeded"
    [] s = "DEGENERATE" -> "task_degenerate"
    [] s = "TIMED_OUT"  -> "task_timed_out"
    [] OTHER            -> "task_failed"

(* The handler has come to something that can be recorded.                  *)
OutcomeInv ==
  \A w \in Worker : pc[w] \in {"record", "close"} => outcome[w] \notin {"none", "unusable"}

SettledInv ==
  /\ OutcomeInv
  /\ \A t \in Task : status[t] \in Final =>
       \/ Logged(t, EventOf(status[t])) # {}
       \/ \E w \in Worker : /\ pc[w] = "close" /\ held[w] = t
                            /\ VerdictEvent(w) = EventOf(status[t])

(* Nothing is ever taken out of the log.                                    *)
LEMMA LogStays ==
  ASSUME TypeInv, [Next]_vars, NEW t \in Task, NEW k \in ClosingKind \cup {"task_running"}
  PROVE  Logged(t, k) \subseteq Logged(t, k)'
<1>1. CASE \A w \in Worker : ~RunOnceStep(w)
  BY <1>1, OutsideRunOnce DEF Aside, KeepsLog, Watched
<1>2. ASSUME NEW w \in Worker, RunOnceStep(w)
      PROVE  Logged(t, k) \subseteq Logged(t, k)'
  <2>1. CASE ~Announce(w) /\ ~Close(w)
    BY <1>2, <2>1, OnceKeepsLog DEF TypeInv, KeepsLog, Watched
  <2>2. CASE Announce(w) \/ Close(w)
    <3>1. StoreTypeOK /\ held[w] \in Task
      BY <2>2 DEF TypeInv, OnceInv, StoreInv, CallFrame, Announce, Close, InCall, OncePC
    <3>2. PICK e : AppendEvent(held[w], e, attempt[w])
      BY <2>2 DEF Announce, Close
    <3> QED
      BY <3>1, <3>2, LogGrows
  <2> QED
    BY <2>1, <2>2
<1> QED
  BY <1>1, <1>2

(* A worker at "close" closes, cannot store the artifact, dies or rests.    *)
LEMMA ClosingActs ==
  ASSUME TypeInv, [Next]_vars, NEW w \in Worker, pc[w] = "close"
  PROVE  Close(w) \/ ArtifactFails(w) \/ Crash(w) \/ Rests(w)
<1>1. DrainStep(w) => Close(w) \/ ArtifactFails(w)
  BY RefreshGoes
  DEF DrainStep, RunOnceStep, Lease, LeaseNothing, BumpAttempts, MarkRunning, MarkRefused,
      Announce, RefreshStep, RefreshPC, Prepare, HandlerEnds, Execute, ExecuteTimesOut,
      OomBudget, Record, RecordRefused, CountSuccess, SwallowError, QueueEmpty, Report, Proc
<1> QED
  BY <1>1, WorkerActs

LEMMA OutcomeStep ==
  ASSUME TypeInv, OutcomeInv, [Next]_vars
  PROVE  OutcomeInv'
<1>1. SUFFICES ASSUME NEW w \in Worker, pc'[w] \in {"record", "close"}
               PROVE  outcome'[w] \notin {"none", "unusable"}
  BY DEF OutcomeInv
<1>0. /\ pc \in [Proc -> Place] /\ w \in Proc /\ outcome \in [Worker -> Outcome]
      /\ pc[w] \in RefreshPC => after[w] \in {"prepare", "ok", "raised"}
  BY DEF TypeInv, OnceInv, CallFrame, Proc
<1>2. CASE Rests(w)
  BY <1>1, <1>2 DEF Rests, Stays, OutcomeInv
<1>3. CASE Crash(w) \/ (DrainStep(w) /\ ~RunOnceStep(w))
  BY <1>0, <1>1, <1>3
  DEF Crash, DrainStep, CountSuccess, SwallowError, QueueEmpty, Report, Goto
<1>4. CASE RunOnceStep(w)
  <2>1. CASE HandlerEnds(w)
    BY <1>0, <1>1, <2>1 DEF HandlerEnds, Execute, ExecuteTimesOut, HandlerOutcome, Goto
  <2>2. CASE OomBudget(w)
    BY <1>0, <2>2 DEF OomBudget
  <2>3. CASE Record(w)
    BY <1>0, <2>3 DEF Record, callVars, OutcomeInv
  <2>4. CASE RefreshStep(w)
    <3>1. pc[w] \in RefreshPC /\ \E place \in RefreshPC \cup {"r_error", after[w]} : Goto(w, place)
      BY <2>4, RefreshGoes DEF RefreshStep, Proc
    <3> QED
      BY <1>0, <1>1, <3>1 DEF Goto, RefreshPC
  <2> QED
    BY <1>0, <1>1, <1>4, <2>1, <2>2, <2>3, <2>4
    DEF RunOnceStep, Lease, LeaseNothing, BumpAttempts, MarkRunning, MarkRefused, Announce,
        CallRefresh, Prepare, RecordRefused, ArtifactFails, Close, Goto
<1> QED
  BY <1>2, <1>3, <1>4, WorkerActs

LEMMA SettledStep ==
  ASSUME TypeInv, SettledInv, [Next]_vars, MayCrash = {}, ~ArtifactFaults
  PROVE  SettledInv'
<1>0. /\ pc \in [Proc -> Place] /\ Worker \subseteq Proc /\ StoreTypeOK
      /\ held \in [Worker -> Task \cup {NoTask}]
  BY DEF TypeInv, OnceInv, StoreInv, CallFrame, Proc
<1>1. SUFFICES ASSUME NEW t \in Task, NEW s \in Final, status'[t] = s
               PROVE  \/ Logged(t, EventOf(s))' # {}
                      \/ \E w \in Worker : /\ pc'[w] = "close" /\ held'[w] = t
                                           /\ VerdictEvent(w)' = EventOf(s)
  <2>1. OutcomeInv'
    BY OutcomeStep DEF SettledInv
  <2>2. SUFFICES ASSUME NEW t \in Task, status'[t] \in Final
                 PROVE  (\/ Logged(t, EventOf(status[t])) # {}
                         \/ \E w \in Worker : /\ pc[w] = "close" /\ held[w] = t
                                              /\ VerdictEvent(w) = EventOf(status[t]))'
    BY <2>1 DEF SettledInv
  <2>3. PICK s \in Final : s = status'[t]
    BY <2>2
  <2>4. \/ Logged(t, EventOf(s))' # {}
        \/ \E w \in Worker : /\ pc'[w] = "close" /\ held'[w] = t
                             /\ VerdictEvent(w)' = EventOf(s)
    BY <1>1, <2>3
  <2> QED
    BY <2>3, <2>4 DEF Logged
<1>2. PICK e \in ClosingKind : e = EventOf(s)
  BY <1>1 DEF Final, EventOf, ClosingKind
<1>3. ASSUME NEW w \in Worker, Record(w), held[w] = t, status'[t] = Verdict(w)
      PROVE  pc'[w] = "close" /\ held'[w] = t /\ VerdictEvent(w)' = e
  <2>1. pc'[w] = "close" /\ UNCHANGED <<held, attempt, outcome>>
    BY <1>0, <1>3 DEF Record, Goto, callVars
  <2>2. VerdictEvent(w)' = VerdictEvent(w)
    BY <2>1 DEF VerdictEvent, RetriesLeft
  <2>3. VerdictEvent(w) = e
    BY <1>1, <1>2, <1>3 DEF Verdict, VerdictEvent, EventOf, Final
  <2> QED
    BY <1>3, <2>1, <2>2, <2>3
<1>4. ASSUME status'[t] = status[t]
      PROVE  \/ Logged(t, e)' # {}
             \/ \E w \in Worker : pc'[w] = "close" /\ held'[w] = t /\ VerdictEvent(w)' = e
  <2>1. CASE Logged(t, e) # {}
    BY <2>1, LogStays
  <2>2. ASSUME NEW w \in Worker, pc[w] = "close", held[w] = t, VerdictEvent(w) = e
        PROVE  Logged(t, e)' # {} \/ (pc'[w] = "close" /\ held'[w] = t /\ VerdictEvent(w)' = e)
    <3>1. CASE Rests(w)
      BY <2>2, <3>1 DEF Rests, Stays, VerdictEvent, RetriesLeft
    <3>2. CASE Close(w)
      <4>1. Logged(t, e)' = Logged(t, e) \cup {attempt[w]}
        BY <1>0, <2>2, <3>2, LogGrows DEF Close
      <4> QED
        BY <4>1
    <3>3. ~ArtifactFails(w) /\ ~Crash(w)
      BY DEF ArtifactFails, Crash
    <3> QED
      BY <2>2, <3>1, <3>2, <3>3, ClosingActs
  <2> QED
    BY <1>1, <1>2, <1>4, <2>1, <2>2 DEF SettledInv
<1>5. \/ status'[t] = status[t]
      \/ \E w \in Worker : Record(w) /\ held[w] = t /\ status'[t] = Verdict(w)
  BY <1>1, TasksMove DEF Final
<1>6. \/ Logged(t, e)' # {}
      \/ \E w \in Worker : pc'[w] = "close" /\ held'[w] = t /\ VerdictEvent(w)' = e
  BY <1>3, <1>4, <1>5
<1> QED
  BY <1>2, <1>6

(* Every settled task has the event of its verdict in the log, or a worker  *)
(* is just about to append it: as long as no worker dies between the two    *)
(* and none fails to store an artifact between them.                        *)
THEOREM SettledTasksAreLogged ==
  MayCrash = {} /\ ~ArtifactFaults => (Spec => []SettledIsLogged)
<1> SUFFICES ASSUME MayCrash = {}, ~ArtifactFaults
             PROVE  Spec => []SettledIsLogged
  OBVIOUS
<1>1. Init => SettledInv
  BY DEF Init, OnceInit, StoreInit, SettledInv, OutcomeInv, Final, Proc
<1>2. TypeInv /\ SettledInv /\ [Next]_vars => SettledInv'
  BY SettledStep
<1>3. TypeInv /\ SettledInv => SettledIsLogged
  <2>1. SUFFICES ASSUME TypeInv, SettledInv
                 PROVE  SettledIsLogged
    OBVIOUS
  <2>2. \A w \in Worker : pc[w] = "close" =>
          outcome[w] \in {"ok", "invalid", "timeout", "oom", "error", "oom_spent"}
    BY <2>1
    DEF SettledInv, OutcomeInv, TypeInv, OnceInv, CallFrame, Outcome, HandlerOutcome
  <2>3. ASSUME NEW w \in Worker, pc[w] = "close"
        PROVE  /\ VerdictEvent(w) = "task_succeeded"  => outcome[w] = "ok"
               /\ VerdictEvent(w) = "task_degenerate" => outcome[w] = "invalid"
               /\ VerdictEvent(w) = "task_timed_out"  => outcome[w] = "timeout"
               /\ VerdictEvent(w) = "task_failed"     => outcome[w] \in {"error", "oom_spent"}
    BY <2>2, <2>3 DEF VerdictEvent
  <2>4. \A t \in Task : status[t] \in Final =>
          \/ Logged(t, EventOf(status[t])) # {}
          \/ \E w \in Worker : /\ pc[w] = "close" /\ held[w] = t
                               /\ VerdictEvent(w) = EventOf(status[t])
    BY <2>1 DEF SettledInv
  <2> QED
    BY <2>3, <2>4 DEF SettledIsLogged, EventOf, Final
<1> QED
  BY <1>1, <1>2, <1>3, FrameCorrect, PTL DEF Spec

-----------------------------------------------------------------------------
(***************************************************************************)
(* No success is lost, if every artifact can be written.  The drain that   *)
(* lays claim to a task keeps its claim until it dies: the refresh after a *)
(* success is never refused, which is what RowInv is for.                  *)
(***************************************************************************)
ClaimedInv ==
  \A t \in Task : status[t] = "SUCCEEDED" => \E w \in Worker : Claim(w, t) \/ pc[w] = "dead"

LEMMA DeadStaysDead ==
  ASSUME TypeInv, [Next]_vars, NEW w \in Worker, pc[w] = "dead"
  PROVE  pc'[w] = "dead"
<1>1. ~DrainStep(w) /\ ~Crash(w)
  BY RefreshGoes
  DEF DrainStep, RunOnceStep, Lease, LeaseNothing, BumpAttempts, MarkRunning, MarkRefused,
      Announce, RefreshStep, RefreshPC, Prepare, HandlerEnds, Execute, ExecuteTimesOut,
      OomBudget, Record, RecordRefused, ArtifactFails, Close, CountSuccess, SwallowError,
      QueueEmpty, Report, Crash, Proc
<1> QED
  BY <1>1, WorkerActs DEF Rests, Stays

(* A worker in a refresh goes on with it, dies or rests.                    *)
LEMMA RefreshingActs ==
  ASSUME TypeInv, [Next]_vars, NEW w \in Worker, pc[w] \in RefreshPC
  PROVE  \/ RefreshStep(w) /\ UNCHANGED drainVars
         \/ Crash(w)
         \/ Rests(w)
<1>1. DrainStep(w) => RefreshStep(w) /\ UNCHANGED drainVars
  BY DEF DrainStep, RunOnceStep, Lease, LeaseNothing, BumpAttempts, MarkRunning, MarkRefused,
         Announce, RefreshPC, Prepare, HandlerEnds, Execute, ExecuteTimesOut, OomBudget, Record,
         RecordRefused, ArtifactFails, Close, CountSuccess, SwallowError, QueueEmpty, Report
<1> QED
  BY <1>1, WorkerActs

LEMMA ClaimStays ==
  ASSUME TypeInv, RowInv', [Next]_vars, ~ArtifactFaults, NEW w \in Worker, NEW t \in Task,
         Claim(w, t)
  PROVE  Claim(w, t)' \/ pc'[w] = "dead"
<1>0. /\ pc \in [Proc -> Place] /\ w \in Proc /\ succeeded \in [Worker -> SUBSET Task]
      /\ after \in [Proc -> {"lease", "prepare", "ok", "raised", "idle"}]
  BY DEF TypeInv, OnceInv, CallFrame, DrainFrame, Proc
<1>1. CASE t \in succeeded[w]
  <2>1. succeeded' = succeeded \/ \E v \in Worker : succeeded' = [succeeded EXCEPT ![v] = @ \cup {held[v]}]
    BY OnlyCountingCounts DEF CountSuccess
  <2>2. t \in succeeded'[w]
    BY <1>0, <1>1, <2>1
  <2> QED
    BY <2>2 DEF Claim
<1>2. CASE Crash(w)
  BY <1>0, <1>2 DEF Crash, Goto
<1>3. CASE Rests(w)
  BY <1>3 DEF Rests, Stays, Claim
<1>4. CASE held[w] = t /\ pc[w] = "close" /\ outcome[w] = "ok"
  <2>1. ASSUME Close(w)
        PROVE  Claim(w, t)'
    <3>1. pc'[w] = "r_get" /\ after'[w] = "ok" /\ held'[w] = t
      BY <1>0, <1>4, <2>1 DEF Close, CallRefresh, Goto, callVars
    <3> QED
      BY <3>1 DEF Claim, RefreshPC
  <2>2. ~ArtifactFails(w)
    BY DEF ArtifactFails
  <2> QED
    BY <1>2, <1>3, <1>4, <2>1, <2>2, ClosingActs
<1>5. CASE held[w] = t /\ pc[w] = "ok"
  <2>1. DrainStep(w) => CountSuccess(w)
    BY <1>5, RefreshGoes
    DEF DrainStep, RunOnceStep, Lease, LeaseNothing, BumpAttempts, MarkRunning, MarkRefused,
        Announce, RefreshStep, RefreshPC, Prepare, HandlerEnds, Execute, ExecuteTimesOut,
        OomBudget, Record, RecordRefused, ArtifactFails, Close, SwallowError, QueueEmpty,
        Report, Proc
  <2>2. CountSuccess(w) => t \in succeeded'[w]
    BY <1>0, <1>5 DEF CountSuccess
  <2> QED
    BY <1>2, <1>3, <2>1, <2>2, WorkerActs DEF Claim
<1>6. CASE held[w] = t /\ pc[w] \in RefreshPC /\ after[w] = "ok"
  <2>1. ASSUME RefreshStep(w)
        PROVE  Claim(w, t)'
    <3>1. /\ after'[w] = "ok" /\ held'[w] = t
          /\ \E place \in RefreshPC \cup {"r_error", "ok"} : Goto(w, place)
      BY <1>6, <2>1, RefreshGoes DEF RefreshStep, callVars, Proc
    <3>2. pc'[w] # "r_error"
      BY <3>1 DEF RowInv, WorkerRow
    <3> QED
      BY <1>0, <3>1, <3>2 DEF Claim, Goto
  <2> QED
    BY <1>2, <1>3, <1>6, <2>1, RefreshingActs
<1> QED
  BY <1>1, <1>4, <1>5, <1>6 DEF Claim

LEMMA ClaimedStep ==
  ASSUME TypeInv, ClaimedInv, RowInv', [Next]_vars, ~ArtifactFaults
  PROVE  ClaimedInv'
<1>0. pc \in [Proc -> Place] /\ Worker \subseteq Proc
  BY DEF TypeInv, OnceInv, CallFrame, Proc
<1>1. SUFFICES ASSUME NEW t \in Task, status'[t] = "SUCCEEDED"
               PROVE  \E w \in Worker : Claim(w, t)' \/ pc'[w] = "dead"
  BY DEF ClaimedInv
<1>2. ASSUME NEW w \in Worker, Record(w), held[w] = t, Verdict(w) = "SUCCEEDED"
      PROVE  Claim(w, t)'
  <2>1. outcome[w] = "ok"
    BY <1>2 DEF Verdict
  <2> QED
    BY <1>0, <1>2, <2>1 DEF Record, Goto, callVars, Claim
<1>3. CASE status[t] = "SUCCEEDED"
  <2>1. PICK w \in Worker : Claim(w, t) \/ pc[w] = "dead"
    BY <1>3 DEF ClaimedInv
  <2> QED
    BY <2>1, ClaimStays, DeadStaysDead
<1>4. \/ status'[t] = status[t]
      \/ \E w \in Worker : Record(w) /\ held[w] = t /\ status'[t] = Verdict(w)
  BY <1>1, TasksMove
<1> QED
  BY <1>1, <1>2, <1>3, <1>4

(* When every drain has returned, between them they counted every success:  *)
(* the handler of a success may be long, leases may run out and change      *)
(* hands meanwhile, and the refresh after it finds the run as it may.       *)
THEOREM NoSuccessIsLost == ~ArtifactFaults => (Spec => []EverySuccessCounted)
<1> SUFFICES ASSUME ~ArtifactFaults
             PROVE  Spec => []EverySuccessCounted
  OBVIOUS
<1>1. Init => ClaimInv /\ ClaimedInv
  <2>1. SUFFICES ASSUME Init
                 PROVE  ClaimInv /\ ClaimedInv
    OBVIOUS
  <2>2. \A w \in Worker, t \in Task : ~Claim(w, t)
    BY <2>1 DEF Init, Claim, RefreshPC, Proc
  <2> QED
    BY <2>1, <2>2 DEF Init, OnceInit, StoreInit, ClaimInv, ClaimedInv
<1>2. TypeInv /\ CustodyInv /\ ClaimInv /\ [Next]_vars => ClaimInv'
  BY ClaimStep
<1>3. TypeInv /\ ClaimedInv /\ RowInv' /\ [Next]_vars => ClaimedInv'
  BY ClaimedStep
<1>4. TypeInv /\ ClaimInv /\ ClaimedInv => EverySuccessCounted
  <2>1. SUFFICES ASSUME TypeInv, ClaimInv, ClaimedInv, \A w \in Worker : pc[w] = "done"
                 PROVE  {t \in Task : status[t] = "SUCCEEDED"}
                          = UNION {succeeded[w] : w \in Worker}
    BY DEF EverySuccessCounted
  <2>2. \A w \in Worker, t \in Task : Claim(w, t) <=> t \in succeeded[w]
    BY <2>1 DEF Claim, RefreshPC
  <2>3. \A w \in Worker : succeeded[w] \subseteq Task
    BY <2>1 DEF TypeInv, DrainFrame
  <2>4. \A t \in Task : status[t] = "SUCCEEDED" => \E w \in Worker : t \in succeeded[w]
    BY <2>1, <2>2 DEF ClaimedInv
  <2>5. \A w \in Worker : \A t \in succeeded[w] : t \in Task /\ status[t] = "SUCCEEDED"
    BY <2>1, <2>2, <2>3 DEF ClaimInv
  <2> QED
    BY <2>4, <2>5
<1> QED
  BY <1>1, <1>2, <1>3, <1>4, RowHolds, CustodyHolds, FrameCorrect, PTL DEF Spec

-----------------------------------------------------------------------------
(***************************************************************************)
(* A run whose tasks all succeeded reads COMPLETED, if only the drains     *)
(* refresh it and every artifact can be written.  Once the last success is *)
(* recorded every refresh under way writes COMPLETED or nothing, and the   *)
(* drain that recorded it has one before it.                               *)
(***************************************************************************)
AllSucceeded == \A t \in Task : status[t] = "SUCCEEDED"

Finishing(w) ==
  \/ pc[w] = "close"
  \/ pc[w] = "r_get" /\ after[w] # "prepare"
  \/ pc[w] = "r_list" /\ seen[w] # "COMPLETED"
  \/ pc[w] = "r_write"

CompletingInv ==
  AllSucceeded => \/ runStatus = "COMPLETED"
                  \/ \E w \in Worker : Finishing(w) \/ pc[w] = "dead"

(* What a refresh under way can be about when all tasks have succeeded.     *)
LEMMA LateRefresh ==
  ASSUME TypeInv, CustodyInv, StatusInv, RowInv, Task # {}, AllSucceeded, NEW w \in Worker
  PROVE  /\ pc[w] \in RefreshPC => after[w] \in {"ok", "raised"} /\ Seasoned(w)
         /\ pc[w] # "r_hop"
         /\ pc[w] = "r_write" => target[w] = "COMPLETED"
         /\ RunTarget(Task, status, attempts) = "COMPLETED"
<1>1. ASSUME pc[w] \in RefreshPC
      PROVE  after[w] \in {"ok", "raised"} /\ Seasoned(w)
  <2>1. after[w] \in {"prepare", "ok", "raised"}
    BY <1>1 DEF TypeInv, OnceInv, CallFrame
  <2>2. ~Underway(w)
    BY DEF CustodyInv, AllSucceeded
  <2> QED
    BY <1>1, <2>1, <2>2 DEF Underway, Seasoned
<1>2. pc[w] # "r_hop"
  BY <1>1 DEF RowInv, WorkerRow, RefreshPC
<1>3. ASSUME pc[w] = "r_write"
      PROVE  target[w] = "COMPLETED"
  <2>1. target[w] \in Reached \ {"VALIDATED", "RUNNING"} /\ Justifies(target[w])
    BY <1>1, <1>3 DEF RowInv, RowOf, WorkerRow, StatusInv, RefreshPC, TargetPC, Proc
  <2> QED
    BY <2>1 DEF Reached, Justifies, AllSucceeded, Unsuccessful
<1>4. RunTarget(Task, status, attempts) = "COMPLETED"
  BY DEF RunTarget, AllSucceeded
<1> QED
  BY <1>1, <1>2, <1>3, <1>4

LEMMA FinishingGoesOn ==
  ASSUME TypeInv, CustodyInv, StatusInv, RowInv, RowInv', [Next]_vars, ~ArtifactFaults,
         Task # {}, AllSucceeded, NEW w \in Worker, Finishing(w)
  PROVE  runStatus' = "COMPLETED" \/ Finishing(w)' \/ pc'[w] = "dead"
<1>0. /\ pc \in [Proc -> Place] /\ w \in Proc /\ seen \in [Proc -> RunStatus]
      /\ after \in [Proc -> {"lease", "prepare", "ok", "raised", "idle"}]
  BY DEF TypeInv, OnceInv, CallFrame, RefreshTypeOK, Proc
<1>1. CASE Crash(w)
  BY <1>0, <1>1 DEF Crash, Goto
<1>2. CASE Rests(w)
  BY <1>2 DEF Rests, Stays, Idles, Finishing
<1>3. CASE Close(w)
  <2>1. pc'[w] = "r_get" /\ after'[w] # "prepare"
    BY <1>0, <1>3 DEF Close, CallRefresh, Goto
  <2> QED
    BY <2>1 DEF Finishing
<1>4. CASE RefreshGetRun(w)
  BY <1>0, <1>4 DEF RefreshGetRun, ReadRun, Goto, storeVars, Finishing
<1>5. CASE RefreshListTasks(w)
  <2>1. PICK tgt : tgt = RunTarget(Task, status, attempts) /\ tgt = "COMPLETED"
    BY LateRefresh
  <2>2. pc[w] = "r_list" /\ seen[w] # "COMPLETED"
    BY <1>5 DEF RefreshListTasks, Finishing
  <2>3. Goto(w, RouteTo(w, tgt)) /\ after' = after
    BY <1>5, <2>1, <2>2 DEF RefreshListTasks
  <2>4. after[w] \in {"ok", "raised"}
    BY <2>2, LateRefresh DEF RefreshPC
  <2>5. pc'[w] \in {"r_write", "r_hop", "r_error"}
    BY <1>0, <2>3 DEF Goto, RouteTo
  <2>6. pc'[w] # "r_error" /\ pc'[w] # "r_hop"
    BY <2>3, <2>4 DEF RowInv, WorkerRow, Seasoned, RefreshPC
  <2> QED
    BY <2>5, <2>6 DEF Finishing
<1>6. CASE RefreshWrite(w)
  BY <1>6, LateRefresh DEF RefreshWrite, UpdateRunStatus
<1>7. CASE pc[w] = "close"
  <2>1. ~ArtifactFails(w)
    BY DEF ArtifactFails
  <2> QED
    BY <1>1, <1>2, <1>3, <1>7, <2>1, ClosingActs
<1>8. CASE pc[w] \in RefreshPC
  <2>1. RefreshStep(w) => RefreshGetRun(w) \/ RefreshListTasks(w) \/ RefreshWrite(w)
    BY DEF Finishing, RefreshStep, Refresh, RefreshHop, RefreshReread, RefreshFinish
  <2> QED
    BY <1>1, <1>2, <1>4, <1>5, <1>6, <1>8, <2>1, RefreshingActs
<1> QED
  BY <1>7, <1>8 DEF Finishing, RefreshPC

LEMMA CompletingStep ==
  ASSUME TypeInv, CustodyInv, StatusInv, RowInv, RowInv', CompletingInv, [Next]_vars,
         ~ArtifactFaults, Observer = {}, Task # {}
  PROVE  CompletingInv'
<1>0. pc \in [Proc -> Place] /\ Worker = Proc
  BY DEF TypeInv, OnceInv, CallFrame, Proc
<1>1. SUFFICES ASSUME AllSucceeded'
               PROVE  \/ runStatus' = "COMPLETED"
                      \/ \E w \in Worker : Finishing(w)' \/ pc'[w] = "dead"
  BY DEF CompletingInv
<1>2. CASE AllSucceeded
  <2>1. ASSUME runStatus = "COMPLETED"
        PROVE  runStatus' = "COMPLETED"
    <3>1. ASSUME NEW p \in Worker, Refresh(p)
          PROVE  runStatus' = "COMPLETED"
      <4>1. ~RefreshHop(p)
        BY <1>2, LateRefresh DEF RefreshHop
      <4>2. RefreshWrite(p) => runStatus' = "COMPLETED"
        BY <1>2, LateRefresh DEF RefreshWrite, UpdateRunStatus
      <4> QED
        BY <2>1, <3>1, <4>1, <4>2
        DEF Refresh, RefreshGetRun, RefreshListTasks, RefreshReread, RefreshFinish,
            UpdateRunFinishedAt, storeVars
    <3> QED
      BY <1>0, <2>1, <3>1, OnlyRefreshWrites
  <2>2. ASSUME NEW w \in Worker, Finishing(w) \/ pc[w] = "dead"
        PROVE  runStatus' = "COMPLETED" \/ Finishing(w)' \/ pc'[w] = "dead"
    BY <1>2, <2>2, FinishingGoesOn, DeadStaysDead
  <2> QED
    BY <1>2, <2>1, <2>2 DEF CompletingInv
<1>3. CASE ~AllSucceeded
  <2>1. PICK t \in Task : status[t] # "SUCCEEDED" /\ status'[t] = "SUCCEEDED"
    BY <1>1, <1>3 DEF AllSucceeded
  <2>2. PICK w \in Worker : Record(w)
    BY <2>1, TasksMove
  <2>3. pc'[w] = "close"
    BY <1>0, <2>2 DEF Record, Goto
  <2> QED
    BY <2>3 DEF Finishing
<1> QED
  BY <1>2, <1>3

(* Once every drain has returned, a run whose tasks all succeeded reads     *)
(* COMPLETED: no drain's refresh, however stale, undoes the last one's.     *)
(* (Somebody who only asks for the status may: see SeqStaleRefresh.)        *)
THEOREM AllSucceededReadsCompleted ==
  ~ArtifactFaults /\ Observer = {} /\ Task # {} => (Spec => []CompletedRunReadsCompleted)
<1> SUFFICES ASSUME ~ArtifactFaults, Observer = {}, Task # {}
             PROVE  Spec => []CompletedRunReadsCompleted
  OBVIOUS
<1>1. Init => CompletingInv
  BY DEF Init, OnceInit, StoreInit, CompletingInv, AllSucceeded
<1>2. TypeInv /\ CustodyInv /\ StatusInv /\ RowInv /\ RowInv' /\ CompletingInv /\ [Next]_vars
        => CompletingInv'
  BY CompletingStep
<1>3. CompletingInv => CompletedRunReadsCompleted
  BY DEF CompletingInv, CompletedRunReadsCompleted, AllSucceeded, Finishing
<1> QED
  BY <1>1, <1>2, <1>3, RowHolds, StatusHolds, CustodyHolds, FrameCorrect, PTL DEF Spec

-----------------------------------------------------------------------------
(***************************************************************************)
(* One worker alone, with whatever observers.  Its refresh never has to    *)
(* take the detour through RUNNING, which is the only way to be refused;   *)
(* and what it swallows in drain has its event in the log.                 *)
(***************************************************************************)
OneWorker == \A v, w \in Worker : v = w

(* Every attempt comes to something that can be recorded: a timeout that    *)
(* can be resolved, a result and an artifact that can be stored.            *)
Storable ==
  /\ MalformedTask = {} /\ ~ArtifactFaults
  /\ \A t \in Task, a \in Nat : "unusable" \notin Yield(t, a)

NoneUnsuccessful == \A t \in Task : status[t] \notin Unsuccessful

LoneRow ==
  /\ runStatus = "VALIDATED" => NoneUnsuccessful
  /\ \A w \in Worker :
       /\ pc[w] = "r_list" /\ seen[w] = "VALIDATED" => NoneUnsuccessful
       /\ pc[w] \notin {"r_hop", "r_reread", "r_error"}

(* Only Record makes a task unsuccessful.                                   *)
LEMMA OnlyRecordSettles ==
  ASSUME TypeInv, [Next]_vars, NoneUnsuccessful, \A w \in Worker : ~Record(w)
  PROVE  NoneUnsuccessful'
BY TasksMove DEF NoneUnsuccessful, Unsuccessful

(* A worker that reads VALIDATED on the way to its handler finds no task    *)
(* settled yet, so its refresh writes RUNNING.                              *)
LEMMA LoneListing ==
  ASSUME TypeInv, CustodyInv, RowInv, LoneRow, NEW w \in Worker, RefreshListTasks(w),
         held'[w] = held[w]
  PROVE  pc'[w] \notin {"r_hop", "r_reread", "r_error"} /\ pc'[w] # "r_list"
<1>0. /\ pc \in [Proc -> Place] /\ w \in Proc /\ pc[w] = "r_list"
      /\ after[w] \in {"prepare", "ok", "raised"} /\ held[w] \in Task
      /\ seen[w] \in Reached
  BY DEF TypeInv, OnceInv, CallFrame, RefreshListTasks, RowInv, RowOf, InCall, RefreshPC, Proc
<1>1. PICK tgt \in Reached : tgt = RunTarget(Task, status, attempts)
  BY RunTargetType DEF Reached
<1>2. pc'[w] # "r_error"
  BY <1>0, ListingKeepsRow DEF TypeInv
<1>3. pc'[w] = RouteTo(w, tgt) \/ pc'[w] = after[w]
  BY <1>0, <1>1 DEF RefreshListTasks, ReturnFromRefresh, Goto
<1>4. ASSUME seen[w] = "VALIDATED"
      PROVE  tgt \in {"VALIDATED", "RUNNING"}
  <2>1. NoneUnsuccessful
    BY <1>0, <1>4 DEF LoneRow
  <2>2. ~Seasoned(w)
    BY <1>0, <1>4 DEF RowInv, WorkerRow
  <2>3. status[held[w]] = "RUNNING"
    BY <1>0, <2>2 DEF Seasoned, CustodyInv, Underway, RefreshPC
  <2> QED
    BY <1>0, <1>1, <2>1, <2>3 DEF RunTarget, NoneUnsuccessful, RowInv, NoneCancelled
<1>5. RouteTo(w, tgt) # "r_hop"
  BY <1>0, <1>1, <1>4 DEF RouteTo, RunTransitionAllowed, ReachableViaRunning, Reached
<1> QED
  BY <1>0, <1>2, <1>3, <1>5 DEF RouteTo

LEMMA LoneRowStep ==
  ASSUME TypeInv, CustodyInv, StatusInv, RowInv, LoneRow, [Next]_vars, OneWorker
  PROVE  LoneRow'
<1>0. /\ pc \in [Proc -> Place] /\ Worker \subseteq Proc
      /\ after \in [Proc -> {"lease", "prepare", "ok", "raised", "idle"}]
      /\ seen \in [Proc -> RunStatus]
  BY DEF TypeInv, OnceInv, CallFrame, RefreshTypeOK, Proc
<1>1. ASSUME runStatus' = "VALIDATED"
      PROVE  NoneUnsuccessful'
  <2>1. runStatus = "VALIDATED"
    BY <1>1, RowLeavesValidated DEF RowMoves
  <2>2. ASSUME NEW w \in Worker, Record(w)
        PROVE  FALSE
    BY <2>1, <2>2 DEF Record, RowInv, WorkerRow, Seasoned
  <2> QED
    BY <2>1, <2>2, OnlyRecordSettles DEF LoneRow
<1>2. ASSUME NEW w \in Worker
      PROVE  /\ pc'[w] = "r_list" /\ seen'[w] = "VALIDATED" => NoneUnsuccessful'
             /\ pc'[w] \notin {"r_hop", "r_reread", "r_error"}
  <2>1. CASE Rests(w)
    <3>1. ASSUME pc[w] = "r_list", seen[w] = "VALIDATED"
          PROVE  NoneUnsuccessful'
      <4>1. \A v \in Worker : ~Record(v)
        BY <3>1 DEF OneWorker, Record
      <4> QED
        BY <1>2, <3>1, <4>1, OnlyRecordSettles DEF LoneRow
    <3> QED
      BY <1>2, <2>1, <3>1 DEF Rests, Stays, Idles, LoneRow
  <2>2. CASE RefreshStep(w)
    <3>1. UNCHANGED <<status, held>>
      BY <2>2, RefreshCalm DEF TypeInv
    <3>2. CASE RefreshGetRun(w)
      <4>1. pc'[w] = "r_list" /\ seen'[w] = runStatus
        BY <1>0, <3>2 DEF RefreshGetRun, ReadRun, Goto
      <4> QED
        BY <3>1, <4>1 DEF LoneRow, NoneUnsuccessful
    <3>3. CASE RefreshListTasks(w)
      BY <3>1, <3>3, LoneListing
    <3>4. CASE RefreshWrite(w) \/ RefreshFinish(w)
      <4>1. pc[w] \in RefreshPC /\ pc'[w] \in {"r_finish", after[w]}
        BY <1>0, <3>4
        DEF RefreshWrite, RefreshFinish, ReturnFromRefresh, Goto, RefreshPC
      <4>2. after[w] \in {"prepare", "ok", "raised"}
        BY <4>1 DEF TypeInv, OnceInv, CallFrame
      <4> QED
        BY <4>1, <4>2
    <3> QED
      BY <1>2, <2>2, <3>2, <3>3, <3>4
      DEF LoneRow, RefreshStep, Refresh, RefreshHop, RefreshReread
  <2>3. CASE (RunOnceStep(w) /\ ~RefreshStep(w))
    <3>1. PICK place \in (OncePC \ {"r_error"}) \cup {"r_get"} : Goto(w, place)
      BY <2>3
      DEF RunOnceStep, Lease, LeaseNothing, BumpAttempts, MarkRunning, MarkRefused, Announce,
          CallRefresh, Prepare, HandlerEnds, Execute, ExecuteTimesOut, OomBudget, Record,
          RecordRefused, ArtifactFails, Close, OncePC, ReturnPC
    <3> QED
      BY <1>0, <3>1 DEF Goto, OncePC, ReturnPC
  <2>4. CASE Crash(w) \/ (DrainStep(w) /\ ~RunOnceStep(w))
    BY <1>0, <2>4 DEF Crash, DrainStep, CountSuccess, SwallowError, QueueEmpty, Report, Goto
  <2> QED
    BY <2>1, <2>2, <2>3, <2>4, WorkerActs
<1> QED
  BY <1>1, <1>2 DEF LoneRow

(* The attempt in hand has its closing event.                               *)
Closed(w) == \E k \in ClosingKind : attempt[w] \in Logged(held[w], k)

(* Before it is announced an attempt is not in the log; once it is over it  *)
(* is closed.                                                               *)
FreshOf(w) ==
  /\ pc[w] \in {"mark", "announce"} => attempt[w] \notin Logged(held[w], "task_running")
  /\ pc[w] = "raised" => attempt[w] \notin Logged(held[w], "task_running") \/ Closed(w)
  /\ pc[w] \in RefreshPC /\ after[w] \in {"ok", "raised"} => Closed(w)

FreshInv ==
  /\ \A t \in Task : \A n \in Logged(t, "task_running") : n <= attempts[t]
  /\ \A w \in Worker : FreshOf(w)

LEMMA OnlyAnnounceAnnounces ==
  ASSUME TypeInv, [Next]_vars, \A w \in Worker : ~Announce(w)
  PROVE  \A t \in Task : Logged(t, "task_running")' = Logged(t, "task_running")
<1>1. CASE \A w \in Worker : ~RunOnceStep(w)
  BY <1>1, OutsideRunOnce DEF Aside, KeepsLog, Watched
<1>2. ASSUME NEW w \in Worker, RunOnceStep(w), ~Close(w)
      PROVE  KeepsLog
  BY <1>2, OnceKeepsLog DEF TypeInv
<1>3. ASSUME NEW w \in Worker, Close(w), NEW t \in Task
      PROVE  Logged(t, "task_running")' = Logged(t, "task_running")
  <2>1. held[w] \in Task /\ StoreTypeOK
    BY <1>3 DEF TypeInv, OnceInv, StoreInv, CallFrame, Close, InCall, OncePC
  <2>2. VerdictEvent(w) # "task_running"
    BY VerdictType DEF ClosingKind
  <2> QED
    BY <1>3, <2>1, <2>2, LogGrows DEF Close
<1> QED
  BY <1>1, <1>2, <1>3 DEF KeepsLog, Watched

(* No attempt beyond the count is announced.                                *)
LEMMA CountedAnnouncements ==
  ASSUME TypeInv, LogInv, FreshInv, [Next]_vars
  PROVE  \A t \in Task : \A n \in Logged(t, "task_running")' : n <= attempts'[t]
<1>0. StoreTypeOK /\ attempts \in [Task -> Nat]
  BY DEF TypeInv, OnceInv, StoreInv, StoreTypeOK
<1>1. CASE \A w \in Worker : ~RunOnceStep(w)
  <2>1. attempts' = attempts
    BY <1>1, OutsideRunOnce DEF Aside
  <2>2. \A w \in Worker : ~Announce(w)
    BY <1>1 DEF RunOnceStep
  <2> QED
    BY <2>1, <2>2, OnlyAnnounceAnnounces DEF FreshInv
<1>2. ASSUME NEW w \in Worker, RunOnceStep(w)
      PROVE  \A t \in Task : \A n \in Logged(t, "task_running")' : n <= attempts'[t]
  <2>1. CASE Announce(w)
    <3>1. PICK u \in Task : u = held[w]
      BY <2>1 DEF TypeInv, OnceInv, CallFrame, Announce, InCall, OncePC
    <3>2. AppendEvent(u, "task_running", attempt[w]) /\ attempts' = attempts
      BY <2>1, <3>1 DEF Announce, AppendEvent
    <3>3. attempt[w] <= attempts[u]
      BY <1>0, <2>1, <3>1 DEF LogInv, Counting, Underway, Announce
    <3>4. \A t \in Task : Logged(t, "task_running")' =
            IF t = u THEN Logged(t, "task_running") \cup {attempt[w]}
            ELSE Logged(t, "task_running")
      BY <1>0, <3>2, LogGrows
    <3> QED
      BY <3>2, <3>3, <3>4 DEF FreshInv
  <2>2. CASE ~Announce(w)
    <3>1. \A v \in Worker \ {w} : Stays(v)
      BY <1>2, OthersStay DEF TypeInv
    <3>2. \A v \in Worker : ~Announce(v)
      <4>1. ASSUME NEW v \in Worker \ {w}, Announce(v)
            PROVE  FALSE
        <5>1. pc'[v] = "r_get" /\ pc[v] = "announce"
          BY <4>1 DEF Announce, CallRefresh, Goto, TypeInv, OnceInv, CallFrame, Proc
        <5> QED
          BY <3>1, <4>1, <5>1 DEF Stays
      <4> QED
        BY <2>2, <4>1
    <3>3. \A t \in Task : Logged(t, "task_running")' = Logged(t, "task_running")
      BY <3>2, OnlyAnnounceAnnounces
    <3>4. CASE BumpAttempts(w)
      <4>1. \A t \in Task : attempts'[t] \in Nat /\ attempts[t] \in Nat /\ attempts[t] <= attempts'[t]
        BY <1>0, <3>4 DEF BumpAttempts, IncrementTaskAttempts
      <4>2. \A t \in Task : \A n \in Logged(t, "task_running") : n \in Nat /\ n <= attempts[t]
        BY <1>0 DEF FreshInv, Logged, StoreTypeOK
      <4> QED
        BY <3>3, <4>1, <4>2
    <3>5. CASE ~BumpAttempts(w)
      <4>1. attempts' = attempts
        BY <1>2, <2>2, <3>5, OnceKeepsAttempts DEF TypeInv, Close, AppendEvent
      <4> QED
        BY <3>3, <4>1 DEF FreshInv
    <3> QED
      BY <3>4, <3>5
  <2> QED
    BY <2>1, <2>2
<1> QED
  BY <1>1, <1>2

(* A closed attempt stays closed while its worker stays in the call.        *)
LEMMA ClosedStays ==
  ASSUME TypeInv, [Next]_vars, NEW w \in Worker, held[w] \in Task,
         held'[w] = held[w], attempt'[w] = attempt[w], Closed(w)
  PROVE  Closed(w)'
<1>1. PICK t \in Task : t = held[w]
  OBVIOUS
<1>2. PICK k \in ClosingKind : attempt[w] \in Logged(t, k)
  BY <1>1 DEF Closed
<1>3. attempt'[w] \in Logged(t, k)'
  BY <1>2, LogStays
<1> QED
  BY <1>1, <1>3 DEF Closed, Logged

LEMMA UnannouncedStays ==
  ASSUME TypeInv, [Next]_vars, \A v \in Worker : ~Announce(v), NEW w \in Worker, held[w] \in Task,
         held'[w] = held[w], attempt'[w] = attempt[w],
         attempt[w] \notin Logged(held[w], "task_running")
  PROVE  (attempt[w] \notin Logged(held[w], "task_running"))'
<1>1. PICK t \in Task : t = held[w]
  OBVIOUS
<1>2. attempt'[w] \notin Logged(t, "task_running")'
  BY <1>1, OnlyAnnounceAnnounces
<1> QED
  BY <1>1, <1>2 DEF Logged

(* How the attempt of a worker alone comes to be announced and closed.      *)
LEMMA FreshOnce ==
  ASSUME TypeInv, CustodyInv, LogInv, FreshInv, [Next]_vars, OneWorker, Storable,
         NEW w \in Worker, RunOnceStep(w)
  PROVE  FreshOf(w)'
<1>0. /\ pc \in [Proc -> Place] /\ w \in Proc /\ StoreTypeOK
      /\ after \in [Proc -> {"lease", "prepare", "ok", "raised", "idle"}]
      /\ attempts \in [Task -> Nat] /\ attempt \in [Worker -> Nat]
      /\ pc[w] \in InCall => held[w] \in Task
      /\ FreshOf(w)
      /\ \A v \in Worker : v = w
  BY DEF TypeInv, OnceInv, StoreInv, StoreTypeOK, CallFrame, FreshInv, OneWorker, Proc
<1>1. ASSUME pc'[w] \notin {"mark", "announce", "raised"} \cup RefreshPC
      PROVE  FreshOf(w)'
  BY <1>1 DEF FreshOf
<1>2. CASE Lease(w) \/ LeaseNothing(w) \/ Prepare(w) \/ HandlerEnds(w) \/ OomBudget(w)
             \/ Record(w) \/ RecordRefused(w) \/ ArtifactFails(w)
  <2>1. ~RecordRefused(w) /\ ~ArtifactFails(w)
    BY RecordNeverRefused DEF TypeInv, Storable, ArtifactFails
  <2>2. ASSUME Prepare(w)
        PROVE  pc'[w] = "execute"
    BY <1>0, <2>2 DEF Prepare, Storable, Goto
  <2>3. ASSUME HandlerEnds(w)
        PROVE  pc'[w] \in {"record", "oom_count"}
    <3>1. held[w] \in Task /\ attempt[w] \in Nat
      BY <1>0, <2>3 DEF HandlerEnds, Execute, ExecuteTimesOut, InCall, OncePC
    <3>2. "unusable" \notin Yield(held[w], attempt[w])
      BY <3>1 DEF Storable
    <3> QED
      BY <1>0, <2>3, <3>2 DEF HandlerEnds, Execute, ExecuteTimesOut, Goto
  <2>4. ASSUME Lease(w) \/ LeaseNothing(w) \/ OomBudget(w) \/ Record(w)
        PROVE  pc'[w] \in {"bump", "empty", "record", "close"}
    BY <1>0, <2>4 DEF Lease, LeaseNothing, OomBudget, Record, Goto
  <2> QED
    BY <1>1, <1>2, <2>1, <2>2, <2>3, <2>4 DEF RefreshPC
<1>3. CASE BumpAttempts(w)
  <2>1. PICK t \in Task : t = held[w]
    BY <1>0, <1>3 DEF BumpAttempts, InCall, OncePC
  <2>2. /\ held' = held /\ attempt'[w] = attempts[t] + 1 /\ events' = events /\ pc'[w] = "mark"
    BY <1>0, <1>3, <2>1 DEF BumpAttempts, IncrementTaskAttempts, Goto
  <2>3. \A n \in Logged(t, "task_running") : n <= attempts[t]
    BY DEF FreshInv
  <2>4. attempt'[w] \notin Logged(t, "task_running")
    BY <1>0, <2>2, <2>3
  <2> QED
    BY <2>1, <2>2, <2>4 DEF FreshOf, Logged, RefreshPC
<1>4. CASE MarkRunning(w) \/ MarkRefused(w)
  <2>1. /\ pc[w] = "mark" /\ pc'[w] \in {"announce", "raised"} /\ UNCHANGED <<held, attempt>>
    BY <1>0, <1>4 DEF MarkRunning, MarkRefused, Goto, callVars
  <2>2. \A v \in Worker : ~Announce(v)
    BY <1>0, <2>1 DEF Announce
  <2>3. (attempt[w] \notin Logged(held[w], "task_running"))'
    <3>1. held[w] \in Task /\ attempt[w] \notin Logged(held[w], "task_running")
      BY <1>0, <2>1 DEF FreshOf, InCall, OncePC
    <3> QED
      BY <2>1, <2>2, <3>1, UnannouncedStays
  <2> QED
    BY <2>1, <2>3 DEF FreshOf, RefreshPC
<1>5. CASE Announce(w)
  <2>1. pc'[w] = "r_get" /\ after'[w] = "prepare"
    BY <1>0, <1>5 DEF Announce, CallRefresh, Goto
  <2> QED
    BY <2>1 DEF FreshOf
<1>6. CASE Close(w)
  <2>1. /\ pc'[w] = "r_get" /\ UNCHANGED <<held, attempt>> /\ pc[w] = "close"
        /\ AppendEvent(held[w], VerdictEvent(w), attempt[w])
    BY <1>0, <1>6 DEF Close, CallRefresh, Goto, callVars
  <2>2. PICK t \in Task : t = held[w]
    BY <1>0, <2>1 DEF InCall, OncePC
  <2>3. PICK k \in ClosingKind : k = VerdictEvent(w)
    BY VerdictType
  <2>4. Logged(t, k)' = Logged(t, k) \cup {attempt[w]}
    BY <1>0, <2>1, <2>2, <2>3, LogGrows
  <2>5. attempt'[w] \in Logged(t, k)'
    BY <2>1, <2>4
  <2>6. Closed(w)'
    BY <2>1, <2>2, <2>5 DEF Closed, Logged
  <2> QED
    BY <2>1, <2>6 DEF FreshOf
<1>7. CASE RefreshStep(w)
  <2>1. /\ pc[w] \in RefreshPC /\ UNCHANGED <<held, attempt, after>>
        /\ \E place \in RefreshPC \cup {"r_error", after[w]} : Goto(w, place)
    BY <1>7, RefreshGoes DEF RefreshStep, callVars, Proc
  <2>2. pc'[w] \in RefreshPC \cup {"r_error", after[w]} /\ held[w] \in Task
        /\ after[w] \in {"prepare", "ok", "raised"}
    BY <1>0, <2>1 DEF Goto, InCall, TypeInv, OnceInv, CallFrame
  <2>3. after[w] \in {"ok", "raised"} => Closed(w)'
    BY <1>0, <2>1, <2>2, ClosedStays DEF FreshOf
  <2>4. after'[w] = after[w] /\ pc'[w] \notin {"mark", "announce"}
    BY <2>1, <2>2 DEF RefreshPC
  <2>5. pc'[w] = "raised" => after[w] = "raised"
    BY <2>2 DEF RefreshPC
  <2> QED
    BY <2>3, <2>4, <2>5 DEF FreshOf
<1> QED
  BY <1>2, <1>3, <1>4, <1>5, <1>6, <1>7 DEF RunOnceStep

LEMMA FreshStep ==
  ASSUME TypeInv, CustodyInv, LogInv, FreshInv, [Next]_vars, OneWorker, Storable
  PROVE  FreshInv'
<1>1. ASSUME NEW w \in Worker
      PROVE  FreshOf(w)'
  <2>0. /\ pc \in [Proc -> Place] /\ w \in Proc /\ FreshOf(w)
        /\ pc[w] \in InCall => held[w] \in Task
    BY DEF TypeInv, OnceInv, CallFrame, FreshInv, Proc
  <2>1. CASE RunOnceStep(w)
    BY <2>1, FreshOnce
  <2>2. CASE Crash(w) \/ (DrainStep(w) /\ ~RunOnceStep(w))
    <3>1. pc'[w] \in {"lease", "report", "done", "dead"}
      BY <2>0, <2>2 DEF Crash, DrainStep, CountSuccess, SwallowError, QueueEmpty, Report, Goto
    <3> QED
      BY <3>1 DEF FreshOf, RefreshPC
  <2>3. CASE Rests(w)
    <3>1. \A v \in Worker : ~Announce(v)
      <4>1. Announce(w) => pc'[w] = "r_get" /\ pc[w] = "announce"
        BY <2>0 DEF Announce, CallRefresh, Goto
      <4> QED
        BY <2>3, <4>1 DEF OneWorker, Rests, Stays
    <3>2. /\ pc'[w] = pc[w] /\ after'[w] = after[w] /\ held'[w] = held[w]
          /\ attempt'[w] = attempt[w]
      BY <2>3 DEF Rests, Stays
    <3>3. pc[w] \in InCall /\ attempt[w] \notin Logged(held[w], "task_running")
            => (attempt[w] \notin Logged(held[w], "task_running"))'
      BY <2>0, <3>1, <3>2, UnannouncedStays
    <3>4. pc[w] \in InCall /\ Closed(w) => Closed(w)'
      BY <2>0, <3>2, ClosedStays
    <3>5. pc[w] \in {"mark", "announce", "raised"} \cup RefreshPC => pc[w] \in InCall
      BY DEF InCall, OncePC, ReturnPC
    <3> QED
      BY <2>0, <3>2, <3>3, <3>4, <3>5 DEF FreshOf
  <2> QED
    BY <2>1, <2>2, <2>3, WorkerActs
<1> QED
  BY <1>1, CountedAnnouncements DEF FreshInv

LEMMA LoneInit ==
  ASSUME Init
  PROVE  LogInv /\ LoneRow /\ FreshInv
<1>1. \A t \in Task : \A k : Logged(t, k) = {}
  BY DEF Init, OnceInit, StoreInit, Logged
<1>2. \A w \in Worker : pc[w] = "lease"
  BY DEF Init, Proc
<1>3. NoneUnsuccessful
  BY DEF Init, OnceInit, StoreInit, NoneUnsuccessful, Unsuccessful
<1> QED
  BY <1>1, <1>2, <1>3
  DEF LogInv, LoneRow, FreshInv, FreshOf, Counting, Announced, Underway, RefreshPC,
      OneVerdictPerAttempt

(* What one worker alone swallows in drain has its event in the log, if it  *)
(* was announced at all: no refresh is refused and no attempt ends          *)
(* unrecorded, whatever leases expire, are requeued or are observed.        *)
THEOREM SwallowedMeansRecorded ==
  OneWorker /\ Storable => (Spec => []RaisedMeansRecorded)
<1> SUFFICES ASSUME OneWorker, Storable
             PROVE  Spec => []RaisedMeansRecorded
  OBVIOUS
<1>1. TypeInv /\ CustodyInv /\ StatusInv /\ RowInv /\ LogInv /\ LoneRow /\ FreshInv /\ [Next]_vars
        => LogInv' /\ LoneRow' /\ FreshInv'
  BY LogStep, LoneRowStep, FreshStep
<1>2. LoneRow /\ FreshInv => RaisedMeansRecorded
  BY DEF LoneRow, FreshInv, FreshOf, Closed, RaisedMeansRecorded
<1> QED
  BY <1>1, <1>2, LoneInit, RowHolds, StatusHolds, CustodyHolds, FrameCorrect, PTL DEF Spec

-----------------------------------------------------------------------------
(***************************************************************************)
(* A drain that has the run to itself.  Whatever is LEASED or RUNNING is   *)
(* in its hands, so nothing changes between what its refresh reads and     *)
(* what it writes, and the row it leaves is the one the tasks call for.    *)
(***************************************************************************)
Owed == RunTarget(Task, status, attempts)

Holding(w) ==
  /\ \A t \in Task : status[t] = "LEASED" => held[w] = t /\ pc[w] \in {"bump", "mark"}
  /\ \A t \in Task : status[t] = "RUNNING" => held[w] = t /\ Underway(w)
  /\ pc[w] \in {"bump", "mark"} => status[held[w]] \in {"LEASED", "PENDING"}

RowRight(w) ==
  /\ pc[w] = "r_list" => seen[w] = runStatus
  /\ pc[w] = "r_write" => target[w] = Owed
  /\ pc[w] = "r_finish" => runStatus = Owed
  /\ pc[w] \in {"ok", "raised", "lease"} =>
       runStatus = Owed \/ \E t \in Task : status[t] = "PENDING"
  /\ pc[w] \in {"empty", "report", "done"} => AllSettled /\ runStatus = Owed
  /\ pc[w] = "done" => (verdict[w] = "clean" <=> AllSucceeded)

LoneInv == \A w \in Worker : pc[w] # "dead" => Holding(w) /\ RowRight(w)

(* Nobody acts but the worker: a lease may be given up, nothing else.       *)
LEMMA AloneMeansAside ==
  ASSUME TypeInv, [Next]_vars, OneWorker, Observer = {}, NEW w \in Worker
  PROVE  /\ ~RunOnceStep(w) => Aside
         /\ ~RefreshStep(w) => runStatus' = runStatus
<1>1. \A v \in Worker : v = w
  BY DEF OneWorker
<1>2. ~RunOnceStep(w) => Aside
  <2>1. ASSUME ~RunOnceStep(w)
        PROVE  \A v \in Worker : ~RunOnceStep(v)
    BY <1>1, <2>1
  <2> QED
    BY <2>1, OutsideRunOnce
<1>3. ASSUME ~RefreshStep(w), NEW v \in Worker
      PROVE  ~RefreshStep(v)
  BY <1>1, <1>3
<1>4. ~RefreshStep(w) => runStatus' = runStatus
  BY <1>3
  DEF Next, DrainStep, RunOnceStep, Lease, LeaseNextPendingTask, LeaseNothing,
      BumpAttempts, IncrementTaskAttempts, MarkRunning, MarkTaskRunning, MarkRefused, Announce,
      AppendEvent, Prepare, HandlerEnds, Execute, ExecuteTimesOut, OomBudget, Record,
      UpdateTaskStatus, RecordRefused, ArtifactFails, Close, CountSuccess, SwallowError,
      QueueEmpty, Report, Crash, ZombieReturns, LeaseExpires, LeaseDeadlinePasses, Requeue,
      RequeueExpiredLeases, vars, onceVars, storeVars, runVars
<1> QED
  BY <1>2, <1>4

LEMMA HoldingStep ==
  ASSUME TypeInv, CustodyInv, [Next]_vars, OneWorker, Observer = {}, Storable,
         NEW w \in Worker, LoneRow', pc'[w] # "dead", Holding(w)
  PROVE  Holding(w)'
<1>0. /\ pc \in [Proc -> Place] /\ w \in Proc /\ status \in [Task -> TaskStatus]
      /\ after \in [Proc -> {"lease", "prepare", "ok", "raised", "idle"}]
      /\ pc[w] \in InCall => held[w] \in Task
      /\ held \in [Worker -> Task \cup {NoTask}] /\ attempt \in [Worker -> Nat]
  BY DEF TypeInv, OnceInv, StoreInv, StoreTypeOK, CallFrame, Proc
<1>1. CASE ~RunOnceStep(w)
  <2>1. Aside
    BY <1>1, AloneMeansAside
  <2>2. CASE Rests(w)
    <3>1. pc[w] \in {"bump", "mark"} => held[w] \in Task
      BY <1>0 DEF InCall, OncePC
    <3>2. (Underway(w)' <=> Underway(w)) /\ pc'[w] = pc[w] /\ held'[w] = held[w]
      BY <2>2 DEF Rests, Stays, Underway
    <3>3. \A t \in Task : status'[t] = status[t] \/ (status[t] = "LEASED" /\ status'[t] = "PENDING")
      BY <2>1 DEF Aside
    <3> QED
      BY <3>1, <3>2, <3>3 DEF Holding
  <2>3. CASE DrainStep(w)
    <3>1. /\ pc[w] \in {"ok", "raised", "r_error", "empty", "report"}
          /\ pc'[w] \in {"lease", "report", "done"}
      BY <1>0, <1>1, <2>3 DEF DrainStep, CountSuccess, SwallowError, QueueEmpty, Report, Goto
    <3>2. \A t \in Task : status[t] \notin {"LEASED", "RUNNING"}
      BY <3>1 DEF Holding, Underway, RefreshPC
    <3>3. \A t \in Task : status'[t] \notin {"LEASED", "RUNNING"}
      BY <2>1, <3>2 DEF Aside
    <3> QED
      BY <3>1, <3>3 DEF Holding
  <2>4. ~Crash(w)
    BY <1>0 DEF Crash, Goto
  <2> QED
    BY <2>2, <2>3, <2>4, WorkerActs
<1>2. CASE Lease(w)
  <2>1. PICK u \in Task : LeaseNextPendingTask(w, u) /\ held' = [held EXCEPT ![w] = u]
    BY <1>2 DEF Lease
  <2>2. /\ pc[w] = "lease" /\ pc'[w] = "bump" /\ held'[w] = u
        /\ status' = [status EXCEPT ![u] = "LEASED"]
    BY <1>0, <1>2, <2>1 DEF Lease, Goto, LeaseNextPendingTask
  <2>3. \A t \in Task : status[t] \notin {"LEASED", "RUNNING"}
    BY <2>2 DEF Holding, Underway, RefreshPC
  <2>4. \A t \in Task : status'[t] \in {"LEASED", "RUNNING"} => t = u /\ status'[t] = "LEASED"
    BY <1>0, <2>2, <2>3
  <2>5. status'[u] = "LEASED"
    BY <1>0, <2>2
  <2> QED
    BY <2>2, <2>4, <2>5 DEF Holding
<1>3. CASE MarkRunning(w)
  <2>1. PICK u \in Task : u = held[w]
    BY <1>0, <1>3 DEF MarkRunning, InCall, OncePC
  <2>2. /\ pc[w] = "mark" /\ pc'[w] = "announce" /\ held'[w] = u
        /\ status' = [status EXCEPT ![u] = "RUNNING"]
    BY <1>0, <1>3, <2>1 DEF MarkRunning, Goto, MarkTaskRunning, callVars
  <2>3. \A t \in Task : t # u => status[t] \notin {"LEASED", "RUNNING"}
    BY <2>1, <2>2 DEF Holding, Underway, RefreshPC
  <2>4. \A t \in Task : status'[t] \in {"LEASED", "RUNNING"} => t = u /\ status'[t] = "RUNNING"
    BY <1>0, <2>2, <2>3
  <2> QED
    BY <2>2, <2>4 DEF Holding, Underway
<1>4. CASE Record(w)
  <2>1. PICK u \in Task : u = held[w]
    BY <1>0, <1>4 DEF Record, InCall, OncePC
  <2>2. /\ pc[w] = "record" /\ pc'[w] = "close"
        /\ status' = [status EXCEPT ![u] = Verdict(w)] /\ Verdict(w) \notin {"LEASED", "RUNNING"}
    BY <1>0, <1>4, <2>1, VerdictType DEF Record, Goto, UpdateTaskStatus, Recorded
  <2>3. \A t \in Task : t # u => status[t] \notin {"LEASED", "RUNNING"}
    BY <2>1, <2>2 DEF Holding
  <2>4. \A t \in Task : status'[t] \notin {"LEASED", "RUNNING"}
    BY <1>0, <2>2, <2>3
  <2> QED
    BY <2>2, <2>4 DEF Holding
<1>5. ASSUME status' = status, held'[w] = held[w],
             \A t \in Task : status[t] = "LEASED" => pc'[w] \in {"bump", "mark"},
             Underway(w) => Underway(w)',
             pc'[w] \in {"bump", "mark"} => pc[w] \in {"bump", "mark"}
      PROVE  Holding(w)'
  BY <1>5 DEF Holding
<1>6. CASE BumpAttempts(w)
  <2>1. /\ pc[w] = "bump" /\ pc'[w] = "mark" /\ status' = status /\ held' = held
    BY <1>0, <1>6 DEF BumpAttempts, IncrementTaskAttempts, Goto, leaseVars
  <2> QED
    BY <1>5, <2>1 DEF Underway, RefreshPC
<1>7. CASE MarkRefused(w)
  <2>1. /\ pc[w] = "mark" /\ pc'[w] = "raised" /\ status' = status /\ held' = held
        /\ status[held[w]] # "LEASED"
    BY <1>0, <1>7 DEF MarkRefused, MayMark, Goto, storeVars, callVars
  <2>2. \A t \in Task : status[t] # "LEASED"
    BY <2>1 DEF Holding
  <2> QED
    BY <1>5, <2>1, <2>2 DEF Underway, RefreshPC
<1>8. CASE LeaseNothing(w) \/ Announce(w) \/ Prepare(w) \/ HandlerEnds(w) \/ OomBudget(w) \/ Close(w)
  <2>1. /\ status' = status /\ held' = held
        /\ pc[w] \in {"lease", "announce", "prepare", "execute", "oom_count", "close"}
    BY <1>8
    DEF LeaseNothing, Announce, AppendEvent, Prepare, HandlerEnds, Execute, ExecuteTimesOut,
        OomBudget, Close, storeVars, leaseVars, callVars
  <2>2. \A t \in Task : status[t] # "LEASED"
    BY <2>1 DEF Holding
  <2>3. CASE Announce(w)
    <3>1. pc'[w] = "r_get" /\ after'[w] = "prepare"
      BY <1>0, <2>3 DEF Announce, CallRefresh, Goto
    <3> QED
      BY <1>5, <2>1, <2>2, <3>1 DEF Underway, RefreshPC
  <2>4. CASE Prepare(w) \/ OomBudget(w)
    <3>1. pc'[w] \in {"execute", "record"}
      BY <1>0, <2>4 DEF Prepare, OomBudget, Storable, Goto
    <3> QED
      BY <1>5, <2>1, <2>2, <3>1 DEF Underway
  <2>5. CASE HandlerEnds(w)
    <3>1. held[w] \in Task /\ attempt[w] \in Nat
      BY <1>0, <2>5 DEF HandlerEnds, Execute, ExecuteTimesOut, InCall, OncePC
    <3>2. "unusable" \notin Yield(held[w], attempt[w])
      BY <3>1 DEF Storable
    <3>3. pc'[w] \in {"record", "oom_count"}
      BY <1>0, <2>5, <3>2 DEF HandlerEnds, Execute, ExecuteTimesOut, Goto
    <3> QED
      BY <1>5, <2>1, <2>2, <3>3 DEF Underway
  <2>6. CASE LeaseNothing(w) \/ Close(w)
    <3>1. pc[w] \in {"lease", "close"} /\ pc'[w] \in {"empty", "r_get"}
      BY <1>0, <2>6 DEF LeaseNothing, Close, CallRefresh, Goto
    <3> QED
      BY <1>5, <2>1, <2>2, <3>1 DEF Underway, RefreshPC
  <2> QED
    BY <1>8, <2>3, <2>4, <2>5, <2>6
<1>9. CASE RefreshStep(w)
  <2>1. /\ pc[w] \in RefreshPC /\ UNCHANGED <<status, held, after>>
        /\ \E place \in RefreshPC \cup {"r_error", after[w]} : Goto(w, place)
    BY <1>9, RefreshGoes DEF RefreshStep, callVars, leaseVars, Proc
  <2>2. pc'[w] \in RefreshPC \cup {after[w]} /\ after[w] \in {"prepare", "ok", "raised"}
    BY <1>0, <2>1 DEF Goto, LoneRow, TypeInv, OnceInv, CallFrame
  <2>3. Underway(w) => Underway(w)'
    BY <2>1, <2>2 DEF Underway, RefreshPC
  <2>4. pc[w] \notin {"bump", "mark"} /\ pc'[w] \notin {"bump", "mark"}
    BY <2>1, <2>2 DEF RefreshPC
  <2>5. \A t \in Task : status[t] # "LEASED"
    BY <2>4 DEF Holding
  <2> QED
    BY <1>5, <2>1, <2>3, <2>4, <2>5
<1>10. ~RecordRefused(w) /\ ~ArtifactFails(w)
  BY RecordNeverRefused DEF TypeInv, Storable, ArtifactFails
<1> QED
  BY <1>1, <1>2, <1>3, <1>4, <1>6, <1>7, <1>8, <1>9, <1>10 DEF RunOnceStep

(* While no task changes, what the tasks call for does not change.          *)
LEMMA OwedStays ==
  ASSUME status' = status, attempts' = attempts
  PROVE  /\ Owed' = Owed
         /\ AllSettled' <=> AllSettled
         /\ AllSucceeded' <=> AllSucceeded
         /\ (\E t \in Task : status'[t] = "PENDING") <=> (\E t \in Task : status[t] = "PENDING")
BY DEF Owed, RunTarget, AllSettled, AllSucceeded

(* Outside its call the worker settles on what it found.                    *)
LEMMA RightAside ==
  ASSUME TypeInv, RowInv, [Next]_vars, OneWorker, Observer = {}, ~StopEarly,
         NEW w \in Worker, LoneRow, Holding(w), RowRight(w), pc'[w] # "dead", ~RunOnceStep(w)
  PROVE  RowRight(w)'
<1>0. /\ pc \in [Proc -> Place] /\ w \in Proc /\ StoreTypeOK /\ status' \in [Task -> TaskStatus]
      /\ verdict \in [Worker -> {"none", "clean", "degraded"}]
  BY StoreEffect, StoreKeepsTypes
  DEF TypeInv, OnceInv, StoreInv, StoreTypeOK, CallFrame, DrainFrame, Proc
<1>1. Aside /\ runStatus' = runStatus
  BY AloneMeansAside DEF RunOnceStep
<1>2. ASSUME pc[w] \notin {"bump", "mark"}
      PROVE  status' = status /\ attempts' = attempts
  <2>1. \A t \in Task : status'[t] = status[t]
    BY <1>1, <1>2 DEF Aside, Holding
  <2> QED
    BY <1>0, <1>1, <2>1 DEF StoreTypeOK, Aside
<1>3. CASE Rests(w)
  <2>1. CASE pc[w] \in {"bump", "mark"}
    BY <1>3, <2>1 DEF Rests, Stays, RowRight
  <2>2. CASE pc[w] \notin {"bump", "mark"}
    <3>1. /\ Owed' = Owed /\ (AllSettled' <=> AllSettled) /\ (AllSucceeded' <=> AllSucceeded)
          /\ status' = status
      BY <1>2, <2>2, OwedStays
    <3> QED
      BY <1>1, <1>3, <3>1 DEF Rests, Stays, Idles, RowRight
  <2> QED
    BY <2>1, <2>2
<1>4. CASE DrainStep(w)
  <2>1. pc[w] \in {"ok", "raised", "r_error", "empty", "report"}
    BY <1>4 DEF DrainStep, CountSuccess, SwallowError, QueueEmpty, Report
  <2>2. /\ Owed' = Owed /\ (AllSettled' <=> AllSettled) /\ (AllSucceeded' <=> AllSucceeded)
        /\ status' = status
    BY <1>2, <2>1, OwedStays
  <2>3. CASE CountSuccess(w) \/ SwallowError(w)
    <3>1. pc[w] \in {"ok", "raised"} /\ pc'[w] = "lease"
      BY <1>0, <2>3 DEF CountSuccess, SwallowError, Goto, LoneRow
    <3> QED
      BY <1>1, <2>2, <3>1 DEF RowRight
  <2>4. CASE QueueEmpty(w)
    <3>1. pc[w] = "empty" /\ pc'[w] = "report"
      BY <1>0, <2>4 DEF QueueEmpty, Goto
    <3> QED
      BY <1>1, <2>2, <3>1 DEF RowRight
  <2>5. CASE Report(w)
    <3>1. /\ pc[w] = "report" /\ pc'[w] = "done"
          /\ verdict'[w] = IF \E t \in Task : status[t] \in Unsuccessful THEN "degraded"
                           ELSE "clean"
      BY <1>0, <2>5 DEF Report, Goto
    <3>2. AllSettled
      BY <3>1 DEF RowRight
    <3>3. AllSucceeded <=> \A t \in Task : status[t] \notin Unsuccessful
      BY <1>0, <3>2
      DEF RowInv, NoneCancelled, AllSettled, AllSucceeded, StoreTypeOK, TerminalTask,
          TaskStatus, InProgress, Unsuccessful
    <3>4. verdict'[w] = "clean" <=> AllSucceeded
      BY <3>1, <3>3
    <3> QED
      BY <1>1, <2>2, <3>1, <3>2, <3>4 DEF RowRight
  <2> QED
    BY <1>4, <2>3, <2>4, <2>5 DEF DrainStep
<1>5. ~Crash(w)
  BY <1>0 DEF Crash, Goto
<1> QED
  BY <1>3, <1>4, <1>5, WorkerActs

(* Its refresh writes what the tasks call for.                              *)
LEMMA RightRefresh ==
  ASSUME TypeInv, NEW w \in Worker, LoneRow, LoneRow', RowRight(w), RefreshStep(w)
  PROVE  RowRight(w)'
<1>0. /\ pc \in [Proc -> Place] /\ w \in Proc /\ pc[w] \in RefreshPC
      /\ after[w] \in {"prepare", "ok", "raised"}
      /\ seen \in [Proc -> RunStatus] /\ target \in [Proc -> RunStatus]
      /\ UNCHANGED <<status, attempts, after>>
  BY RefreshGoes, RefreshCalm
  DEF TypeInv, OnceInv, CallFrame, RefreshStep, RefreshTypeOK, Proc
<1>1. Owed' = Owed
  BY <1>0, OwedStays
<1>2. pc'[w] \notin {"r_hop", "r_reread", "r_error"}
  BY DEF LoneRow
<1>3. ASSUME pc'[w] = after[w], runStatus' = Owed
      PROVE  RowRight(w)'
  BY <1>0, <1>1, <1>3 DEF RowRight
<1>4. CASE RefreshGetRun(w)
  <2>1. pc'[w] = "r_list" /\ seen'[w] = runStatus /\ runStatus' = runStatus
    BY <1>0, <1>4 DEF RefreshGetRun, ReadRun, Goto, storeVars
  <2> QED
    BY <2>1 DEF RowRight
<1>5. CASE RefreshListTasks(w)
  <2>1. PICK tgt : tgt = RunTarget(Task, status, attempts) /\ tgt = Owed
    BY DEF Owed
  <2>2. pc[w] = "r_list" /\ seen[w] = runStatus /\ runStatus' = runStatus
    BY <1>5 DEF RefreshListTasks, RowRight, storeVars
  <2>3. CASE tgt = seen[w]
    <3>1. pc'[w] = after[w]
      BY <1>0, <1>5, <2>1, <2>3 DEF RefreshListTasks, ReturnFromRefresh, Goto
    <3> QED
      BY <1>3, <2>1, <2>2, <2>3, <3>1
  <2>4. CASE tgt # seen[w]
    <3>1. pc'[w] = RouteTo(w, tgt) /\ target'[w] = tgt
      BY <1>0, <1>5, <2>1, <2>4 DEF RefreshListTasks, Goto
    <3>2. pc'[w] = "r_write"
      BY <1>2, <3>1 DEF RouteTo
    <3> QED
      BY <1>1, <2>1, <3>1, <3>2 DEF RowRight
  <2> QED
    BY <2>3, <2>4
<1>6. CASE RefreshWrite(w)
  <2>1. /\ pc[w] = "r_write" /\ pc'[w] \in {"r_finish", after[w]} /\ runStatus' = target[w]
    BY <1>0, <1>6 DEF RefreshWrite, ReturnFromRefresh, Goto, UpdateRunStatus
  <2>2. runStatus' = Owed
    BY <2>1 DEF RowRight
  <2> QED
    BY <1>1, <1>3, <2>1, <2>2 DEF RowRight
<1>7. CASE RefreshFinish(w)
  <2>1. pc[w] = "r_finish" /\ pc'[w] = after[w] /\ runStatus' = runStatus
    BY <1>0, <1>7 DEF RefreshFinish, ReturnFromRefresh, Goto, UpdateRunFinishedAt
  <2> QED
    BY <1>3, <2>1 DEF RowRight
<1>8. ~RefreshHop(w) /\ ~RefreshReread(w)
  BY DEF LoneRow, RefreshHop, RefreshReread
<1> QED
  BY <1>4, <1>5, <1>6, <1>7, <1>8 DEF RefreshStep, Refresh

LEMMA RightStep ==
  ASSUME TypeInv, CustodyInv, RowInv, [Next]_vars, OneWorker, Observer = {}, Storable, ~StopEarly,
         NEW w \in Worker, LoneRow, LoneRow', Holding(w), RowRight(w), pc'[w] # "dead"
  PROVE  RowRight(w)'
<1>0. /\ pc \in [Proc -> Place] /\ w \in Proc /\ StoreTypeOK
  BY DEF TypeInv, OnceInv, StoreInv, CallFrame, Proc
<1>1. CASE ~RunOnceStep(w)
  BY <1>1, RightAside
<1>2. CASE RefreshStep(w)
  BY <1>2, RightRefresh
<1>3. CASE LeaseNothing(w)
  <2>1. /\ pc[w] = "lease" /\ pc'[w] = "empty" /\ UNCHANGED <<status, attempts, runStatus>>
        /\ \A t \in Task : ~Leaseable(t)
    BY <1>0, <1>3 DEF LeaseNothing, Goto, storeVars
  <2>2. \A t \in Task : status[t] \notin {"PENDING", "LEASED", "RUNNING"}
    BY <2>1 DEF Leaseable, Holding, Underway, RefreshPC
  <2>3. AllSettled
    BY <1>0, <2>2 DEF AllSettled, StoreTypeOK, TerminalTask, TaskStatus, InProgress
  <2>4. runStatus = Owed
    BY <2>1, <2>2 DEF RowRight
  <2> QED
    BY <2>1, <2>3, <2>4, OwedStays DEF RowRight
<1>4. CASE MarkRefused(w)
  <2>1. /\ pc[w] = "mark" /\ pc'[w] = "raised" /\ status' = status /\ status[held[w]] # "LEASED"
    BY <1>0, <1>4 DEF MarkRefused, MayMark, Goto, storeVars
  <2>2. held[w] \in Task /\ status[held[w]] = "PENDING"
    BY <2>1 DEF Holding, TypeInv, OnceInv, CallFrame, InCall, OncePC
  <2> QED
    BY <2>1, <2>2 DEF RowRight
<1>5. ~RecordRefused(w) /\ ~ArtifactFails(w)
  BY RecordNeverRefused DEF TypeInv, Storable, ArtifactFails
<1>6. CASE HandlerEnds(w)
  <2>1. held[w] \in Task /\ attempt[w] \in Nat
    BY <1>6
    DEF HandlerEnds, Execute, ExecuteTimesOut, TypeInv, OnceInv, CallFrame, InCall, OncePC
  <2>2. "unusable" \notin Yield(held[w], attempt[w])
    BY <2>1 DEF Storable
  <2>3. pc'[w] \in {"record", "oom_count"}
    BY <1>0, <1>6, <2>2 DEF HandlerEnds, Execute, ExecuteTimesOut, Goto
  <2> QED
    BY <2>3 DEF RowRight
<1>7. CASE \/ Lease(w) \/ BumpAttempts(w) \/ MarkRunning(w) \/ Announce(w) \/ Prepare(w)
           \/ OomBudget(w) \/ Record(w) \/ Close(w)
  <2>1. pc'[w] \in {"bump", "mark", "announce", "r_get", "execute", "record", "close"}
    BY <1>0, <1>7
    DEF Lease, BumpAttempts, MarkRunning, Announce, CallRefresh, Prepare, OomBudget, Record,
        Close, Storable, Goto
  <2> QED
    BY <2>1 DEF RowRight
<1> QED
  BY <1>1, <1>2, <1>3, <1>4, <1>5, <1>6, <1>7 DEF RunOnceStep

LEMMA LoneStep ==
  ASSUME TypeInv, CustodyInv, RowInv, LoneRow, LoneRow', LoneInv, [Next]_vars,
         OneWorker, Observer = {}, Storable, ~StopEarly
  PROVE  LoneInv'
<1>1. SUFFICES ASSUME NEW w \in Worker, pc'[w] # "dead"
               PROVE  Holding(w)' /\ RowRight(w)'
  BY DEF LoneInv
<1>2. Holding(w) /\ RowRight(w)
  BY <1>1, DeadStaysDead DEF LoneInv
<1> QED
  BY <1>1, <1>2, HoldingStep, RightStep

(* A drain that has the run to itself and is not stopped early returns      *)
(* normally only if every task succeeded, counts exactly the successes and  *)
(* leaves the run in the status its tasks call for: whatever its handlers   *)
(* do, and also when its own leases run out or are requeued meanwhile.      *)
THEOREM LoneDrainTellsTheTruth ==
  OneWorker /\ Observer = {} /\ Storable /\ ~StopEarly => (Spec => []LoneDrainTruthful)
<1> SUFFICES ASSUME OneWorker, Observer = {}, Storable, ~StopEarly
             PROVE  Spec => []LoneDrainTruthful
  OBVIOUS
<1>1. Init => LoneInv /\ ClaimInv /\ ClaimedInv
  <2>1. SUFFICES ASSUME Init
                 PROVE  LoneInv /\ ClaimInv /\ ClaimedInv
    OBVIOUS
  <2>2. \A w \in Worker : pc[w] = "lease" /\ succeeded[w] = {}
    BY <2>1 DEF Init, Proc
  <2>3. ClaimInv /\ ClaimedInv
    BY <2>1, <2>2 DEF Init, OnceInit, StoreInit, ClaimInv, ClaimedInv, Claim, RefreshPC
  <2>4. \A t \in Task : status[t] = "PENDING"
    BY <2>1 DEF Init, OnceInit, StoreInit
  <2>5. Task = {} => runStatus = Owed
    BY <2>1 DEF Init, OnceInit, StoreInit, Owed, RunTarget
  <2>6. \A w \in Worker : Holding(w) /\ RowRight(w)
    BY <2>2, <2>4, <2>5 DEF Holding, RowRight
  <2> QED
    BY <2>3, <2>6 DEF LoneInv
<1>2. TypeInv /\ CustodyInv /\ StatusInv /\ RowInv /\ RowInv' /\ LoneRow /\ LoneInv
        /\ ClaimInv /\ ClaimedInv /\ [Next]_vars
        => LoneRow' /\ LoneInv' /\ ClaimInv' /\ ClaimedInv'
  <2>1. SUFFICES ASSUME TypeInv, CustodyInv, StatusInv, RowInv, RowInv', LoneRow, LoneInv,
                        ClaimInv, ClaimedInv, [Next]_vars
                 PROVE  LoneRow' /\ LoneInv' /\ ClaimInv' /\ ClaimedInv'
    OBVIOUS
  <2>2. LoneRow' /\ ClaimInv' /\ ClaimedInv'
    BY <2>1, LoneRowStep, ClaimStep, ClaimedStep DEF Storable
  <2> QED
    BY <2>1, <2>2, LoneStep
<1>3. TypeInv /\ LoneInv /\ ClaimInv /\ ClaimedInv => LoneDrainTruthful
  <2>1. SUFFICES ASSUME TypeInv, LoneInv, ClaimInv, ClaimedInv, NEW w \in Worker, pc[w] = "done"
                 PROVE  /\ verdict[w] = "clean" <=> AllSucceeded
                        /\ succeeded[w] = {t \in Task : status[t] = "SUCCEEDED"}
                        /\ runStatus = Owed
    BY DEF LoneDrainTruthful, AllSucceeded, Owed
  <2>2. RowRight(w) /\ \A v \in Worker : v = w
    BY <2>1 DEF LoneInv, OneWorker
  <2>3. \A t \in Task : Claim(w, t) <=> t \in succeeded[w]
    BY <2>1 DEF Claim, RefreshPC
  <2>4. succeeded[w] \subseteq Task
    BY <2>1 DEF TypeInv, DrainFrame
  <2>5. \A t \in Task : status[t] = "SUCCEEDED" => t \in succeeded[w]
    BY <2>1, <2>2, <2>3 DEF ClaimedInv
  <2>6. \A t \in succeeded[w] : t \in Task /\ status[t] = "SUCCEEDED"
    BY <2>1, <2>3, <2>4 DEF ClaimInv
  <2>7. succeeded[w] = {t \in Task : status[t] = "SUCCEEDED"}
    BY <2>5, <2>6
  <2> QED
    BY <2>1, <2>2, <2>7 DEF RowRight
<1>4. Init => LoneRow
  BY LoneInit
<1> QED
  BY <1>1, <1>2, <1>3, <1>4, RowHolds, StatusHolds, CustodyHolds, FrameCorrect, PTL DEF Spec
=============================================================================
