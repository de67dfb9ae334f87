----------------------------- MODULE LabProofs ------------------------------
(***************************************************************************)
(* Proofs about two parts behind the Lab dashboard, its tasks and a        *)
(* training run, for any numbers of plans, requests, tasks, pool threads,  *)
(* steps, losses and faults.                                               *)
(*                                                                         *)
(* Tasks: a used plan is held by one request or stands behind one task     *)
(* (PlansOK); a task that has ended, or does not exist yet, has no thread  *)
(* and no future that could start one, and a cancel in time keeps its      *)
(* thread from completing (TaskOK).                                        *)
(*                                                                         *)
(* Training: no checkpoint is better than the best or newer than the top,  *)
(* a torn one is never seen by a process at work (SlotOK), and a process   *)
(* is past every checkpoint there is (RunOK); that retention keeps what it *)
(* must rests on the least elements of finite sets (KeptOnes).             *)
(*                                                                         *)
(* For both, a rank that falls with every step of a thread or process, and *)
(* the guards that let it take one: what liveness needs besides fairness.  *)
(***************************************************************************)
EXTENDS DashboardTasks, TrainingRun, FiniteSetTheorems, WellFoundedInduction,
        TLAPS

-----------------------------------------------------------------------------
(* The tasks of the dashboard *)

PlansOK ==
    /\ \A t \in Tasks : origin[t] # NoPlan => plan[origin[t]] = "used"
    /\ \A r \in Requests : confirmed[r] # NoPlan =>
          /\ plan[confirmed[r]] = "used"
          /\ \A t \in Tasks : origin[t] # confirmed[r]
          /\ \A q \in Requests : q # r => confirmed[q] # confirmed[r]

TaskOK(t) ==
    /\ status[t] \in Terminal \cup {"none"} =>
         thread[t] = "none" /\ future[t] # "pending"
    /\ t \in inTime =>
         cancel[t] /\ thread[t] # "completing" /\ status[t] # "COMPLETED"

TasksOK == \A t \in Tasks : TaskOK(t)

TasksIInv == TasksTypeOK /\ PlansOK /\ OneTaskPerPlan /\ TasksOK

LEMMA TasksInitial == TasksInit => TasksIInv
  <1> SUFFICES ASSUME TasksInit PROVE TasksIInv
    OBVIOUS
  <1>1. TasksTypeOK
    BY TasksAssumption DEF TasksInit, TasksTypeOK, PlanStates, Futures, Places
  <1>2. PlansOK /\ OneTaskPerPlan
    BY TasksAssumption DEF TasksInit, PlansOK, OneTaskPerPlan
  <1>3. TasksOK
    BY DEF TasksInit, TasksOK, TaskOK
  <1> QED
    BY <1>1, <1>2, <1>3 DEF TasksIInv

\* The steps of plans leave the tasks as they are.
LEMMA PlanSteps ==
  ASSUME TasksIInv,
         \/ \E p \in Plans : Issues(p) \/ Expires(p)
         \/ \E r \in Requests, p \in Plans : Consumes(r, p)
         \/ \E r \in Requests : Drops(r)
  PROVE  TasksIInv'
  <1> USE TasksAssumption
  <1>1. UNCHANGED <<future, thread, status, cancel, origin, inTime>>
    BY DEF Issues, Expires, Consumes, Drops, recordVars
  <1>2. TasksOK' /\ OneTaskPerPlan'
    BY <1>1 DEF TasksIInv, TasksOK, TaskOK, OneTaskPerPlan
  <1>3. TasksTypeOK'
    BY <1>1 DEF TasksIInv, TasksTypeOK, PlanStates, Issues, Expires, Consumes,
                Drops
  <1>4. PlansOK'
    <2>1. CASE \E p \in Plans : Issues(p) \/ Expires(p)
      <3>1. PICK p \in Plans : Issues(p) \/ Expires(p)
        BY <2>1
      <3>2. \A q \in Plans : plan[q] = "used" => plan'[q] = "used"
        BY <3>1 DEF Issues, Expires, TasksIInv, TasksTypeOK
      <3>3. confirmed' = confirmed
        BY <3>1 DEF Issues, Expires
      <3> QED
        BY <1>1, <3>2, <3>3 DEF TasksIInv, TasksTypeOK, PlansOK
    <2>2. CASE \E r \in Requests, p \in Plans : Consumes(r, p)
      <3>1. PICK r \in Requests, p \in Plans : Consumes(r, p)
        BY <2>2
      <3>2. /\ plan[p] # "used" /\ plan' = [plan EXCEPT ![p] = "used"]
            /\ confirmed' = [confirmed EXCEPT ![r] = p]
        BY <3>1 DEF Consumes, Consumable
      <3>3. \A q \in Plans : plan'[q] = IF q = p THEN "used" ELSE plan[q]
        BY <3>2 DEF TasksIInv, TasksTypeOK
      <3>4. \A q \in Requests :
               confirmed'[q] = IF q = r THEN p ELSE confirmed[q]
        BY <3>2 DEF TasksIInv, TasksTypeOK
      <3>5. \A t \in Tasks : origin[t] # p
        BY <3>2 DEF TasksIInv, PlansOK
      <3>6. \A q \in Requests : confirmed[q] # p
        BY <3>2 DEF TasksIInv, PlansOK
      <3> QED
        BY <1>1, <3>3, <3>4, <3>5, <3>6 DEF TasksIInv, TasksTypeOK, PlansOK
    <2>3. CASE \E r \in Requests : Drops(r)
      BY <1>1, <2>3 DEF Drops, TasksIInv, TasksTypeOK, PlansOK
    <2> QED
      BY <2>1, <2>2, <2>3
  <1> QED
    BY <1>2, <1>3, <1>4 DEF TasksIInv

\* enqueue, for a plan that no task has yet, or for none
LEMMA Enqueued ==
  ASSUME TasksIInv, NEW t \in Tasks, NEW p \in Plans \cup {NoPlan},
         Enqueues(t, p), p # NoPlan => \A u \in Tasks : origin[u] # p
  PROVE  /\ status' \in [Tasks -> Statuses \cup {"none"}]
         /\ cancel' \in [Tasks -> BOOLEAN]
         /\ future' \in [Tasks -> Futures]
         /\ thread' \in [Tasks -> Places]
         /\ origin' \in [Tasks -> Plans \cup {NoPlan}]
         /\ inTime' \in SUBSET Tasks
         /\ \A u \in Tasks : thread'[u] # "none" => future'[u] = "running"
         /\ \A u \in Tasks : origin'[u] = IF u = t THEN p ELSE origin[u]
         /\ OneTaskPerPlan' /\ TasksOK'
  <1> USE TasksAssumption
  <1>1. /\ status[t] = "none" /\ UNCHANGED <<plan, cancel, thread, inTime>>
        /\ \A u \in Tasks :
              /\ status'[u] = IF u = t THEN "QUEUED" ELSE status[u]
              /\ future'[u] = IF u = t THEN "pending" ELSE future[u]
              /\ origin'[u] = IF u = t THEN p ELSE origin[u]
    BY DEF Enqueues, TasksIInv, TasksTypeOK
  <1>2. thread[t] = "none"
    BY <1>1 DEF TasksIInv, TasksOK, TaskOK
  <1>3. /\ status' \in [Tasks -> Statuses \cup {"none"}]
        /\ future' \in [Tasks -> Futures]
        /\ origin' \in [Tasks -> Plans \cup {NoPlan}]
    BY DEF Enqueues, TasksIInv, TasksTypeOK, Statuses, Futures
  <1>4. \A u \in Tasks : thread'[u] # "none" => future'[u] = "running"
    BY <1>1, <1>2 DEF TasksIInv, TasksTypeOK
  <1>5. OneTaskPerPlan'
    BY <1>1 DEF TasksIInv, OneTaskPerPlan
  <1>6. TasksOK'
    BY <1>1, <1>2 DEF TasksIInv, TasksOK, TaskOK, Terminal
  <1> QED
    BY <1>1, <1>3, <1>4, <1>5, <1>6 DEF TasksIInv, TasksTypeOK

LEMMA EnqueueSteps ==
  ASSUME TasksIInv, NEW t \in Tasks,
         EnqueuesFreely(t) \/ \E r \in Requests : EnqueuesConfirmed(r, t)
  PROVE  TasksIInv'
  <1> USE TasksAssumption
  <1>1. CASE EnqueuesFreely(t)
    <2>1. Enqueues(t, NoPlan) /\ UNCHANGED <<plan, confirmed>>
      BY <1>1 DEF EnqueuesFreely, Enqueues
    <2>2. PlansOK'
      BY <2>1, Enqueued DEF TasksIInv, TasksTypeOK, PlansOK
    <2> QED
      BY <2>1, <2>2, Enqueued DEF TasksIInv, TasksTypeOK
  <1>2. CASE \E r \in Requests : EnqueuesConfirmed(r, t)
    <2>1. PICK r \in Requests :
             /\ confirmed[r] # NoPlan /\ Enqueues(t, confirmed[r])
             /\ confirmed' = [confirmed EXCEPT ![r] = NoPlan]
             /\ plan' = plan
      BY <1>2 DEF EnqueuesConfirmed, Enqueues
    <2>2. /\ confirmed[r] \in Plans /\ plan[confirmed[r]] = "used"
          /\ \A u \in Tasks : origin[u] # confirmed[r]
          /\ \A q \in Requests : q # r => confirmed[q] # confirmed[r]
      BY <2>1 DEF TasksIInv, TasksTypeOK, PlansOK
    <2>3. \A q \in Requests :
             confirmed'[q] = IF q = r THEN NoPlan ELSE confirmed[q]
      BY <2>1 DEF TasksIInv, TasksTypeOK
    <2>4. \A u \in Tasks :
             origin'[u] = IF u = t THEN confirmed[r] ELSE origin[u]
      BY <2>1, <2>2, Enqueued
    <2>5. PlansOK'
      BY <2>1, <2>2, <2>3, <2>4 DEF TasksIInv, TasksTypeOK, PlansOK
    <2>6. confirmed' \in [Requests -> Plans \cup {NoPlan}]
      BY <2>1 DEF TasksIInv, TasksTypeOK
    <2> QED
      BY <2>1, <2>2, <2>5, <2>6, Enqueued DEF TasksIInv, TasksTypeOK
  <1> QED
    BY <1>1, <1>2

\* What a step may change of one task and of nothing else
Touches(t) ==
    /\ UNCHANGED <<plan, confirmed, origin>>
    /\ status' \in [Tasks -> Statuses \cup {"none"}]
    /\ cancel' \in [Tasks -> BOOLEAN]
    /\ future' \in [Tasks -> Futures]
    /\ thread' \in [Tasks -> Places]
    /\ inTime' \in {inTime, inTime \cup {t}}
    /\ \A u \in Tasks \ {t} :
          /\ status'[u] = status[u] /\ cancel'[u] = cancel[u]
          /\ future'[u] = future[u] /\ thread'[u] = thread[u]

LEMMA OneTask ==
  ASSUME TasksIInv, NEW t \in Tasks, Touches(t), TaskOK(t)',
         thread'[t] # "none" => future'[t] = "running"
  PROVE  TasksIInv'
  <1>1. TasksTypeOK'
    BY DEF Touches, TasksIInv, TasksTypeOK
  <1>2. PlansOK' /\ OneTaskPerPlan'
    BY DEF Touches, TasksIInv, PlansOK, OneTaskPerPlan
  <1>3. ASSUME NEW u \in Tasks, u # t PROVE TaskOK(u)'
    BY <1>3 DEF Touches, TasksIInv, TasksOK, TaskOK
  <1> QED
    BY <1>1, <1>2, <1>3 DEF TasksIInv, TasksOK

\* A thread at work has a record without an end and a running future.
LEMMA TaskAtWork ==
  ASSUME TasksIInv, NEW t \in Tasks, thread[t] # "none"
  PROVE  status[t] \in {"QUEUED", "RUNNING"} /\ future[t] = "running"
  BY DEF TasksIInv, TasksTypeOK, TasksOK, TaskOK, Statuses, Terminal

\* The steps in which a thread goes from one place to another
LEMMA WalkSteps ==
  ASSUME TasksIInv, NEW t \in Tasks,
         \/ ChecksFirst(t) \/ WorkerReturns(t) \/ WorkerRaises(t)
         \/ WorkerStops(t) \/ ChecksLast(t) \/ WriteFails(t)
  PROVE  TasksIInv' /\ UNCHANGED status
  <1>1. /\ thread[t] # "none"
        /\ UNCHANGED <<plan, confirmed, future, status, cancel, origin, inTime>>
    BY DEF ChecksFirst, WorkerReturns, WorkerRaises, WorkerStops, ChecksLast,
           WriteFails, Walks, Stays, recordVars
  <1>2. PICK h \in Places \ {"none"} :
           /\ thread' = [thread EXCEPT ![t] = h]
           /\ h = "completing" => ~cancel[t]
    BY DEF ChecksFirst, WorkerReturns, WorkerRaises, WorkerStops, ChecksLast,
           WriteFails, Walks, AfterWork, Places
  <1>3. thread'[t] = h /\ Touches(t)
    BY <1>1, <1>2 DEF Touches, TasksIInv, TasksTypeOK
  <1>4. status[t] \in {"QUEUED", "RUNNING"} /\ future[t] = "running"
    BY <1>1, TaskAtWork
  <1>5. TaskOK(t)'
    BY <1>1, <1>2, <1>3, <1>4 DEF TasksIInv, TasksOK, TaskOK, Terminal
  <1> QED
    BY <1>1, <1>3, <1>4, <1>5, OneTask

\* The thread of the pool takes a task, and writes that it runs.
LEMMA StartSteps ==
  ASSUME TasksIInv, NEW t \in Tasks, PicksUp(t) \/ Starts(t)
  PROVE  TasksIInv' /\ KeepsEnds
  <1>1. CASE PicksUp(t)
    <2>1. /\ future[t] = "pending"
          /\ UNCHANGED <<plan, confirmed, status, cancel, origin, inTime>>
          /\ future' = [future EXCEPT ![t] = "running"]
          /\ thread' = [thread EXCEPT ![t] = "checking"]
      BY <1>1 DEF PicksUp, Walks, Stays, recordVars
    <2>2. Touches(t) /\ future'[t] = "running" /\ thread'[t] = "checking"
      BY <2>1 DEF Touches, TasksIInv, TasksTypeOK, Futures, Places
    <2>3. TaskOK(t)'
      BY <2>1, <2>2 DEF TasksIInv, TasksOK, TaskOK, Terminal
    <2> QED
      BY <2>1, <2>2, <2>3, OneTask DEF KeepsEnds
  <1>2. CASE Starts(t)
    <2>1. /\ thread[t] = "starting"
          /\ UNCHANGED <<plan, confirmed, future, cancel, origin, inTime>>
          /\ status' = [status EXCEPT ![t] = "RUNNING"]
          /\ thread' = [thread EXCEPT ![t] = "working"]
      BY <1>2 DEF Starts, Walks, Stays
    <2>2. Touches(t) /\ status'[t] = "RUNNING" /\ thread'[t] = "working"
      BY <2>1 DEF Touches, TasksIInv, TasksTypeOK, Statuses, Places
    <2>3. status[t] \in {"QUEUED", "RUNNING"} /\ future[t] = "running"
      BY <2>1, TaskAtWork
    <2>4. TaskOK(t)'
      BY <2>1, <2>2 DEF TasksIInv, TasksOK, TaskOK, Terminal
    <2>5. KeepsEnds
      BY <2>2, <2>3 DEF KeepsEnds, Touches, Terminal
    <2> QED
      BY <2>1, <2>2, <2>3, <2>4, <2>5, OneTask
  <1> QED
    BY <1>1, <1>2

\* The thread is free again: the record says how, or a last write failed.
LEMMA EndSteps ==
  ASSUME TasksIInv, NEW t \in Tasks,
         Completes(t) \/ Cancels(t) \/ Fails(t) \/ LastWriteFails(t)
  PROVE  TasksIInv' /\ KeepsEnds
  <1>1. /\ thread[t] # "none"
        /\ UNCHANGED <<plan, confirmed, cancel, origin, inTime>>
        /\ future' = [future EXCEPT ![t] = "done"]
        /\ thread' = [thread EXCEPT ![t] = "none"]
    BY DEF Completes, Cancels, Fails, LastWriteFails, Ends, Walks, Stays,
           recordVars
  <1>2. status[t] \in {"QUEUED", "RUNNING"}
    BY <1>1, TaskAtWork
  <1>3. PICK s \in Statuses :
           /\ status' = [status EXCEPT ![t] = s]
           /\ s = "COMPLETED" => thread[t] = "completing"
    <2>1. CASE Completes(t) \/ Cancels(t) \/ Fails(t)
      BY <2>1 DEF Completes, Cancels, Fails, Ends, Walks, Statuses
    <2>2. CASE LastWriteFails(t)
      BY <1>2, <2>2 DEF LastWriteFails, recordVars, Statuses, TasksIInv,
                        TasksTypeOK
    <2> QED
      BY <2>1, <2>2
  <1>4. /\ Touches(t) /\ status'[t] = s
        /\ future'[t] = "done" /\ thread'[t] = "none"
    BY <1>1, <1>3 DEF Touches, TasksIInv, TasksTypeOK, Futures, Places
  <1>5. TaskOK(t)'
    BY <1>1, <1>3, <1>4 DEF TasksIInv, TasksOK, TaskOK
  <1>6. KeepsEnds
    BY <1>2, <1>4 DEF KeepsEnds, Touches, Terminal
  <1> QED
    BY <1>4, <1>5, <1>6, OneTask

\* cancel, with its write and without
LEMMA CancelSteps ==
  ASSUME TasksIInv, NEW t \in Tasks, UserCancels(t) \/ CancelIsLost(t)
  PROVE  TasksIInv' /\ KeepsEnds
  <1>1. /\ status[t] \in {"QUEUED", "RUNNING"}
        /\ UNCHANGED <<plan, confirmed, thread, origin>>
    BY DEF UserCancels, CancelIsLost, Stays, recordVars
  <1>2. CASE CancelIsLost(t)
    <2>1. /\ future[t] = "pending" /\ UNCHANGED <<status, cancel, inTime>>
          /\ future' = [future EXCEPT ![t] = "cancelled"]
      BY <1>2 DEF CancelIsLost, FutureCancels, recordVars
    <2>2. Touches(t) /\ future'[t] = "cancelled" /\ thread[t] = "none"
      BY <1>1, <2>1 DEF Touches, TasksIInv, TasksTypeOK, Futures
    <2>3. TaskOK(t)'
      BY <1>1, <2>1, <2>2 DEF TasksIInv, TasksOK, TaskOK
    <2> QED
      BY <1>1, <2>1, <2>2, <2>3, OneTask DEF KeepsEnds
  <1>3. CASE UserCancels(t)
    <2>1. /\ cancel' = [cancel EXCEPT ![t] = TRUE]
          /\ inTime' \in {inTime, inTime \cup {t}}
          /\ thread[t] = "completing" => inTime' = inTime
      BY <1>3 DEF UserCancels
    <2>2. CASE future[t] = "pending"
      <3>1. /\ future' = [future EXCEPT ![t] = "cancelled"]
            /\ status' = [status EXCEPT ![t] = "CANCELLED"]
        BY <1>3, <2>2 DEF UserCancels, FutureCancels
      <3>2. /\ Touches(t) /\ future'[t] = "cancelled" /\ thread[t] = "none"
            /\ status'[t] = "CANCELLED" /\ cancel'[t]
        BY <1>1, <2>1, <2>2, <3>1
        DEF Touches, TasksIInv, TasksTypeOK, Futures, Statuses
      <3>3. TaskOK(t)'
        BY <1>1, <3>2 DEF TaskOK
      <3>4. KeepsEnds
        BY <1>1, <3>2 DEF KeepsEnds, Touches, Terminal
      <3> QED
        BY <1>1, <3>2, <3>3, <3>4, OneTask
    <2>3. CASE future[t] # "pending"
      <3>1. UNCHANGED <<future, status>>
        BY <1>3, <2>3 DEF UserCancels, FutureCancels
      <3>2. Touches(t) /\ cancel'[t]
        BY <1>1, <2>1, <3>1 DEF Touches, TasksIInv, TasksTypeOK
      <3>3. TaskOK(t)'
        BY <1>1, <2>1, <3>1, <3>2 DEF TasksIInv, TasksOK, TaskOK, Terminal
      <3>4. thread'[t] # "none" => future'[t] = "running"
        BY <1>1, <3>1 DEF TasksIInv, TasksTypeOK
      <3> QED
        BY <3>1, <3>2, <3>3, <3>4, OneTask DEF KeepsEnds
    <2> QED
      BY <2>2, <2>3
  <1> QED
    BY <1>2, <1>3

LEMMA RestartStep ==
  ASSUME TasksIInv, Restarts
  PROVE  TasksIInv' /\ KeepsEnds
  <1>1. /\ UNCHANGED <<plan, cancel, origin, inTime>>
        /\ \A t \in Tasks :
              /\ status'[t] = IF Unfinished(status[t]) THEN "FAILED"
                                                       ELSE status[t]
              /\ future'[t] = "none" /\ thread'[t] = "none"
        /\ \A r \in Requests : confirmed'[r] = NoPlan
    BY DEF Restarts
  <1>2. TasksTypeOK'
    BY <1>1 DEF Restarts, TasksIInv, TasksTypeOK, Statuses, Futures, Places
  <1>3. PlansOK' /\ OneTaskPerPlan'
    BY <1>1 DEF TasksIInv, PlansOK, OneTaskPerPlan
  <1>4. TasksOK'
    BY <1>1 DEF TasksIInv, TasksOK, TaskOK
  <1>5. KeepsEnds
    BY <1>1 DEF KeepsEnds, Unfinished, Terminal
  <1> QED
    BY <1>2, <1>3, <1>4, <1>5 DEF TasksIInv

LEMMA TasksStep ==
  ASSUME TasksIInv, [TasksNext]_tasksVars
  PROVE  TasksIInv' /\ [KeepsEnds]_tasksVars
  <1>1. CASE UNCHANGED tasksVars
    <2>1. UNCHANGED <<plan, confirmed, status, cancel, future, thread, origin,
                      inTime>>
      BY <1>1 DEF tasksVars
    <2>2. TasksTypeOK' /\ PlansOK' /\ OneTaskPerPlan' /\ TasksOK'
      BY <2>1 DEF TasksIInv, TasksTypeOK, PlansOK, OneTaskPerPlan, TasksOK,
                  TaskOK
    <2> QED
      BY <1>1, <2>2 DEF TasksIInv
  <1>2. CASE \/ \E p \in Plans : Issues(p) \/ Expires(p)
             \/ \E r \in Requests, p \in Plans : Consumes(r, p)
             \/ \E r \in Requests : Drops(r)
    <2>1. UNCHANGED status
      BY <1>2 DEF Issues, Expires, Consumes, Drops, recordVars
    <2>2. KeepsEnds
      BY <2>1 DEF KeepsEnds
    <2> QED
      BY <1>2, <2>2, PlanSteps
  <1>3. ASSUME NEW t \in Tasks,
               EnqueuesFreely(t) \/ \E r \in Requests : EnqueuesConfirmed(r, t)
        PROVE  TasksIInv' /\ KeepsEnds
    <2>1. /\ status[t] = "none"
          /\ status' = [status EXCEPT ![t] = "QUEUED"]
      BY <1>3 DEF EnqueuesFreely, EnqueuesConfirmed, Enqueues
    <2>2. KeepsEnds
      BY <2>1 DEF KeepsEnds, Terminal, TasksIInv, TasksTypeOK
    <2> QED
      BY <1>3, <2>2, EnqueueSteps
  <1>4. ASSUME NEW t \in Tasks,
               Runs(t) \/ WriteFails(t) \/ LastWriteFails(t)
        PROVE  TasksIInv' /\ KeepsEnds
    <2>1. CASE \/ ChecksFirst(t) \/ WorkerReturns(t) \/ WorkerRaises(t)
               \/ WorkerStops(t) \/ ChecksLast(t) \/ WriteFails(t)
      BY <2>1, WalkSteps DEF KeepsEnds
    <2>2. CASE PicksUp(t) \/ Starts(t)
      BY <2>2, StartSteps
    <2>3. CASE Completes(t) \/ Cancels(t) \/ Fails(t) \/ LastWriteFails(t)
      BY <2>3, EndSteps
    <2> QED
      BY <1>4, <2>1, <2>2, <2>3 DEF Runs
  <1>5. ASSUME NEW t \in Tasks, UserCancels(t) \/ CancelIsLost(t)
        PROVE  TasksIInv' /\ KeepsEnds
    BY <1>5, CancelSteps
  <1> QED
    BY <1>1, <1>2, <1>3, <1>4, <1>5, RestartStep DEF TasksNext

LEMMA TasksInvariant == TasksSpec => []TasksIInv
  <1>1. TasksIInv /\ [TasksNext]_tasksVars => TasksIInv'
    BY TasksStep
  <1> QED
    BY <1>1, TasksInitial, PTL DEF TasksSpec

\* The records, the futures and the threads hold what the code can put there,
\* and a thread at work belongs to a running future (OperationTaskService).
THEOREM TasksTypeCorrect == TasksSpec => []TasksTypeOK
  <1>1. TasksIInv => TasksTypeOK
    BY DEF TasksIInv
  <1> QED
    BY <1>1, TasksInvariant, PTL

\* A plan is spent on one task however many requests present it (consume), and
\* a task cancelled before its thread's last look does not end COMPLETED
\* (_run, cancel).
THEOREM PlansAndCancels == TasksSpec => []TasksHold
  <1>1. TasksIInv => TasksHold
    BY DEF TasksIInv, TasksOK, TaskOK, TasksTypeOK, TasksHold, CancelInTimeHolds
  <1> QED
    BY <1>1, TasksInvariant, PTL

\* How a task ended is not written over, by a thread or by a restart
\* (_run, cancel, _recover_unfinished).
THEOREM EndsStay == TasksSpec => EndIsFinal
  <1>1. TasksIInv /\ [TasksNext]_tasksVars => [KeepsEnds]_tasksVars
    BY TasksStep
  <1> QED
    BY <1>1, TasksInvariant, PTL DEF TasksSpec, EndIsFinal

-----------------------------------------------------------------------------
(* How the tasks go on *)

\* Nobody but a thread at work holds the pool, and no record waits for a
\* future that was lost with the service.
FutureOK(t) ==
    /\ future[t] = "running" => thread[t] # "none"
    /\ Unfinished(status[t]) => future[t] # "none"

FuturesOK == \A t \in Tasks : FutureOK(t)

\* What a task has still before it: a pool thread takes no step twice.
TaskRank(t) ==
    IF future[t] = "pending" THEN 7
    ELSE IF thread[t] = "checking" THEN 6
    ELSE IF thread[t] = "starting" THEN 5
    ELSE IF thread[t] = "working" THEN 4
    ELSE IF thread[t] = "returned" THEN 3
    ELSE IF thread[t] = "completing" THEN 2
    ELSE IF thread[t] \in {"cancelling", "failing"} THEN 1
    ELSE 0

\* When Runs(t) can be taken: a thread is never held up, a pending future
\* waits for a free thread.
CanRun(t) ==
    \/ thread[t] # "none"
    \/ /\ future[t] = "pending"
       /\ Cardinality({u \in Tasks : future[u] = "running"}) < PoolSize

\* A task without an end can go on, or waits for one that can, unless the
\* write of its end has failed.
NobodyWaitsForNothing ==
    \A t \in Tasks : Unfinished(status[t]) =>
        \/ LostWrite(t) \/ CanRun(t)
        \/ \E u \in Tasks : u # t /\ thread[u] # "none"

\* No step sends a task back, and its own bring it nearer to its end.
TaskNearsEnd(t) ==
    status[t] # "none" =>
        /\ TaskRank(t)' <= TaskRank(t)
        /\ Runs(t) => TaskRank(t)' < TaskRank(t)

TasksNearEnd == \A t \in Tasks : TaskNearsEnd(t)

\* Steps that leave a task's thread, future and status alone
LEMMA TaskStandsStill ==
  ASSUME NEW t \in Tasks, UNCHANGED <<thread[t], future[t], status[t]>>,
         FutureOK(t)
  PROVE  FutureOK(t)' /\ TaskRank(t)' <= TaskRank(t)
  <1>1. TaskRank(t)' = TaskRank(t) /\ TaskRank(t) \in Nat
    BY DEF TaskRank
  <1> HIDE DEF TaskRank
  <1>2. TaskRank(t)' <= TaskRank(t)
    BY <1>1
  <1> QED
    BY <1>2 DEF FutureOK

LEMMA RunsNearEnd ==
  ASSUME TasksIInv, NEW t \in Tasks, FutureOK(t), Runs(t)
  PROVE  FutureOK(t)' /\ TaskRank(t)' < TaskRank(t)
  <1>1. /\ thread \in [Tasks -> Places] /\ future \in [Tasks -> Futures]
        /\ status \in [Tasks -> Statuses \cup {"none"}]
        /\ thread[t] # "none" => future[t] = "running"
    BY DEF TasksIInv, TasksTypeOK
  <1>2. CASE PicksUp(t)
    BY <1>1, <1>2 DEF PicksUp, Walks, FutureOK, TaskRank, recordVars
  <1>3. CASE ChecksFirst(t) \/ WorkerReturns(t) \/ WorkerRaises(t)
             \/ WorkerStops(t) \/ ChecksLast(t)
    BY <1>1, <1>3 DEF ChecksFirst, WorkerReturns, WorkerRaises, WorkerStops,
       ChecksLast, AfterWork, Walks, FutureOK, TaskRank, recordVars
  <1>4. CASE Starts(t)
    BY <1>1, <1>4 DEF Starts, Walks, FutureOK, TaskRank
  <1>5. CASE Completes(t) \/ Cancels(t) \/ Fails(t)
    BY <1>1, <1>5 DEF Completes, Cancels, Fails, Ends, Walks, FutureOK, TaskRank
  <1> QED
    BY <1>2, <1>3, <1>4, <1>5 DEF Runs

\* What a failing write, a cancel or the end of the service does to a task
LEMMA SetbacksNearEnd ==
  ASSUME TasksIInv, NEW t \in Tasks, FutureOK(t),
         \/ WriteFails(t) \/ LastWriteFails(t)
         \/ UserCancels(t) \/ CancelIsLost(t) \/ Restarts
  PROVE  FutureOK(t)' /\ TaskRank(t)' <= TaskRank(t)
  <1>1. /\ thread \in [Tasks -> Places] /\ future \in [Tasks -> Futures]
        /\ status \in [Tasks -> Statuses \cup {"none"}]
        /\ thread[t] # "none" => future[t] = "running"
    BY DEF TasksIInv, TasksTypeOK
  <1>2. CASE WriteFails(t) \/ LastWriteFails(t)
    BY <1>1, <1>2 DEF WriteFails, LastWriteFails, FutureOK, TaskRank, recordVars
  <1>3. CASE UserCancels(t)
    BY <1>1, <1>3 DEF UserCancels, FutureCancels, FutureOK, Unfinished, TaskRank
  <1>4. CASE CancelIsLost(t)
    BY <1>1, <1>4 DEF CancelIsLost, FutureCancels, FutureOK, TaskRank, recordVars
  <1>5. CASE Restarts
    BY <1>1, <1>5 DEF Restarts, FutureOK, Unfinished, TaskRank
  <1> QED
    BY <1>2, <1>3, <1>4, <1>5

LEMMA TaskMoves ==
  ASSUME TasksIInv, FuturesOK, [TasksNext]_tasksVars, NEW t \in Tasks
  PROVE  /\ FutureOK(t)'
         /\ status[t] # "none" => TaskRank(t)' <= TaskRank(t)
  <1>1. FutureOK(t)
    BY DEF FuturesOK
  <1>2. /\ thread \in [Tasks -> Places] /\ future \in [Tasks -> Futures]
        /\ status \in [Tasks -> Statuses \cup {"none"}]
    BY DEF TasksIInv, TasksTypeOK
  <1>3. CASE UNCHANGED <<thread[t], future[t], status[t]>>
    BY <1>1, <1>3, TaskStandsStill
  <1>4. CASE Runs(t)
    <2>1. FutureOK(t)' /\ TaskRank(t)' < TaskRank(t)
      BY <1>1, <1>4, RunsNearEnd
    <2>2. TaskRank(t) \in Nat /\ TaskRank(t)' \in Nat
      BY DEF TaskRank
    <2> QED
      BY <2>1, <2>2
  <1>5. CASE \/ WriteFails(t) \/ LastWriteFails(t)
             \/ UserCancels(t) \/ CancelIsLost(t) \/ Restarts
    BY <1>1, <1>5, SetbacksNearEnd
  <1>6. ASSUME NEW u \in Tasks,
               EnqueuesFreely(u) \/ \E r \in Requests : EnqueuesConfirmed(r, u)
        PROVE  /\ FutureOK(t)'
               /\ status[t] # "none" => TaskRank(t)' <= TaskRank(t)
    <2>1. /\ status[u] = "none" /\ UNCHANGED thread
          /\ status' = [status EXCEPT ![u] = "QUEUED"]
          /\ future' = [future EXCEPT ![u] = "pending"]
      BY <1>6 DEF EnqueuesFreely, EnqueuesConfirmed, Enqueues
    <2>2. CASE u = t
      BY <1>2, <2>1, <2>2 DEF FutureOK
    <2>3. CASE u # t
      BY <1>1, <1>2, <2>1, <2>3, TaskStandsStill
    <2> QED
      BY <2>2, <2>3
  <1>7. ASSUME NEW u \in Tasks, u # t,
               \/ Runs(u) \/ WriteFails(u) \/ LastWriteFails(u)
               \/ UserCancels(u) \/ CancelIsLost(u)
        PROVE  UNCHANGED <<thread[t], future[t], status[t]>>
    BY <1>2, <1>7 DEF Runs, PicksUp, ChecksFirst, Starts, WorkerReturns,
       WorkerRaises, WorkerStops, ChecksLast, Completes, Cancels, Fails, Ends,
       Walks, WriteFails, LastWriteFails, UserCancels, CancelIsLost, recordVars
  <1>8. ASSUME \/ UNCHANGED tasksVars
               \/ \E p \in Plans : Issues(p) \/ Expires(p)
               \/ \E r \in Requests : Drops(r) \/ \E p \in Plans : Consumes(r, p)
        PROVE  UNCHANGED <<thread[t], future[t], status[t]>>
    BY <1>8 DEF tasksVars, Issues, Expires, Drops, Consumes, recordVars
  <1> QED
    BY <1>3, <1>4, <1>5, <1>6, <1>7, <1>8 DEF TasksNext

LEMMA TasksGoOnStep ==
  TasksIInv /\ FuturesOK /\ [TasksNext]_tasksVars
    => FuturesOK' /\ [TasksNearEnd]_tasksVars
  <1> SUFFICES ASSUME TasksIInv, FuturesOK, [TasksNext]_tasksVars
               PROVE  FuturesOK' /\ TasksNearEnd
    OBVIOUS
  <1>1. ASSUME NEW t \in Tasks PROVE FutureOK(t)' /\ TaskNearsEnd(t)
    <2>1. /\ FutureOK(t)'
          /\ status[t] # "none" => TaskRank(t)' <= TaskRank(t)
      BY TaskMoves
    <2>2. Runs(t) => TaskRank(t)' < TaskRank(t)
      BY RunsNearEnd DEF FuturesOK
    <2> QED
      BY <2>1, <2>2 DEF TaskNearsEnd
  <1> QED
    BY <1>1 DEF FuturesOK, TasksNearEnd

\* A pool that is full has a thread at work.
LEMMA FullPoolWorks ==
  ASSUME TasksIInv, FuturesOK, NEW t \in Tasks, Unfinished(status[t]),
         ~LostWrite(t), ~CanRun(t)
  PROVE  \E u \in Tasks : u # t /\ thread[u] # "none"
  <1> DEFINE running == {u \in Tasks : future[u] = "running"}
  <1>1. future[t] \in Futures /\ future[t] # "none"
    BY DEF TasksIInv, TasksTypeOK, FuturesOK, FutureOK
  <1>2. future[t] = "pending" /\ ~(Cardinality(running) < PoolSize)
    BY <1>1 DEF LostWrite, CanRun, Futures, FuturesOK, FutureOK
  <1>3. running # {}
    <2>1. running = {} => Cardinality(running) = 0
      BY FS_EmptySet
    <2> HIDE DEF running
    <2> QED
      BY <1>2, <2>1, TasksAssumption
  <1> QED
    BY <1>2, <1>3 DEF FuturesOK, FutureOK

\* What the liveness of a queued task rests on, short of the fairness of the
\* pool: a task without an end can be taken on by its thread, or its thread is
\* busy with another, unless the write of its end failed; no step puts it back,
\* and each of its thread's steps brings it nearer to the end
\* (_run, cancel, _recover_unfinished).
THEOREM TasksGoOn ==
  TasksSpec => []NobodyWaitsForNothing /\ [][TasksNearEnd]_tasksVars
  <1>1. TasksInit => FuturesOK
    BY DEF TasksInit, FuturesOK, FutureOK, Unfinished
  <1>2. TasksIInv /\ FuturesOK => NobodyWaitsForNothing
    BY FullPoolWorks DEF NobodyWaitsForNothing
  <1> QED
    BY <1>1, <1>2, TasksGoOnStep, TasksInvariant, PTL DEF TasksSpec

-----------------------------------------------------------------------------
(* Training runs and checkpoints *)

\* A set of numbers has a least one.
LEMMA LeastNat ==
  ASSUME NEW T, T \subseteq Nat, T # {}
  PROVE  \E x \in T : \A y \in T : x <= y
  <1>1. PICK x \in T : \A y \in T : <<y, x>> \notin OpToRel(<, Nat)
    BY NatLessThanWellFounded, WFMin
  <1>2. \A y \in T : ~(y < x)
    BY <1>1 DEF OpToRel
  <1> QED
    BY <1>2

LEMMA NewestSaved ==
  ASSUME NEW S, S \subseteq Steps, S # {}
  PROVE  Newest(S) \in S /\ \A r \in S : r <= Newest(S)
  <1> DEFINE T == {MaxStep - s : s \in S}
  <1>1. MaxStep \in Nat
    BY TrainingAssumption
  <1>2. T \subseteq Nat /\ T # {}
    <2>1. \A s \in S : MaxStep - s \in Nat
      BY <1>1 DEF Steps
    <2> QED
      BY <2>1
  <1>3. PICK x \in T : \A y \in T : x <= y
    BY <1>2, LeastNat
  <1>4. PICK s \in S : x = MaxStep - s
    BY <1>3
  <1>5. \A r \in S : MaxStep - s <= MaxStep - r
    BY <1>3, <1>4
  <1>6. \A r \in S : r <= s
    BY <1>1, <1>5 DEF Steps
  <1> QED
    BY <1>6 DEF Newest

\* The best checkpoint exists: the least loss, and the least step with it.
LEMMA BestExists ==
  ASSUME Saved # {}, \A s \in Saved : loss[s] \in Losses
  PROVE  /\ BestSaved \in Saved
         /\ \A r \in Saved : loss[BestSaved] <= loss[r]
  <1> DEFINE L == {loss[s] : s \in Saved}
  <1>1. L \subseteq Nat /\ L # {} /\ \A s \in Saved : loss[s] \in Nat
    BY TrainingAssumption
  <1>2. PICK l \in L : \A k \in L : l <= k
    BY <1>1, LeastNat
  <1> DEFINE T == {s \in Saved : loss[s] = l}
  <1>3. T \subseteq Nat /\ T # {}
    BY <1>2 DEF Saved, Steps
  <1>4. PICK t \in T : \A s \in T : t <= s
    <2> HIDE DEF T
    <2> QED
      BY <1>3, LeastNat
  <1>5. ASSUME NEW r \in Saved
        PROVE  loss[t] < loss[r] \/ (loss[t] = loss[r] /\ t <= r)
    <2>1. loss[t] = l /\ l <= loss[r]
      BY <1>2, <1>4
    <2>2. loss[r] = l => t <= r
      BY <1>4
    <2> QED
      BY <1>1, <2>1, <2>2
  <1>6. \A r \in Saved :
           \/ loss[BestSaved] < loss[r]
           \/ (loss[BestSaved] = loss[r] /\ BestSaved <= r)
    BY <1>4, <1>5 DEF BestSaved
  <1>7. BestSaved \in Saved
    BY <1>4, <1>5 DEF BestSaved
  <1> QED
    BY <1>1, <1>6, <1>7

\* At most n are the newest n.
LEMMA NewestAreFew ==
  ASSUME NEW S, S \subseteq Steps, NEW n \in Nat
  PROVE  /\ IsFiniteSet(NewestOf(S, n)) /\ Cardinality(NewestOf(S, n)) <= n
         /\ NewestOf(S, n) \subseteq S
  <1> DEFINE T == NewestOf(S, n)
  <1>1. IsFiniteSet(Steps) /\ IsFiniteSet(S)
    <2>1. MaxStep \in Int /\ 1 \in Int
      BY TrainingAssumption
    <2>2. IsFiniteSet(Steps)
      BY <2>1, FS_Interval DEF Steps
    <2> QED
      BY <2>2, FS_Subset
  <1>2. T \subseteq S /\ IsFiniteSet(T)
    BY <1>1, FS_Subset DEF NewestOf
  <1>3. CASE T = {}
    BY <1>2, <1>3, FS_EmptySet
  <1>4. CASE T # {}
    <2>1. PICK m \in T : \A s \in T : m <= s
      <3>1. T \subseteq Nat
        <4>1. Steps \subseteq Nat
          BY DEF Steps
        <4> HIDE DEF T
        <4> QED
          BY <1>2, <4>1
      <3> HIDE DEF T
      <3> QED
        BY <1>4, <3>1, LeastNat
    <2> DEFINE above == {r \in S : r > m}
    <2>2. Cardinality(above) < n
      BY <2>1 DEF NewestOf
    <2>3. T \ {m} \subseteq above
      <3>1. \A s \in T \ {m} : s \in S /\ s > m
        <4> HIDE DEF T
        <4> QED
          BY <1>2, <2>1 DEF Steps
      <3> HIDE DEF T
      <3> QED
        BY <3>1
    <2>4. /\ IsFiniteSet(above) /\ Cardinality(above) \in Nat
          /\ Cardinality(T \ {m}) <= Cardinality(above)
      BY <1>1, <2>3, FS_Subset, FS_CardinalityType
    <2>5. Cardinality(T \ {m}) = Cardinality(T) - 1
      BY <1>2, <2>1, FS_RemoveElement
    <2>6. Cardinality(T) \in Nat
      BY <1>2, FS_CardinalityType
    <2> HIDE DEF T, above
    <2>7. Cardinality(T) <= n
      BY <2>2, <2>4, <2>5, <2>6
    <2> QED
      BY <1>2, <2>7 DEF T
  <1> QED
    BY <1>3, <1>4

SlotOK(s) ==
    /\ folder[s] = "whole" => /\ loss[s] \in Losses /\ best \in Losses
                              /\ best <= loss[s] /\ s <= top
    /\ folder[s] = "torn" => place = "off" /\ runStatus # "CREATED"
    /\ stored[s] # NoWeights => stored[s] <= s /\ (~bare => stored[s] = s)

RunOK ==
    /\ runStatus = "CREATED" => Saved = {} /\ step = 0 /\ weights = 0
    /\ place \in {"restoring", "retaining"} => step \in Saved
    /\ place \in {"publishing", "loading", "storing"} => step \in Steps
    /\ place = "publishing" => \A s \in Saved : s < step
    /\ place # "off" => \A s \in Saved : s <= step
    /\ place \notin {"off", "restoring"} =>
         weights <= step /\ (~bare => weights = step)

TrainingIInv ==
    /\ TrainingTypeOK /\ RunOK
    /\ \A s \in Steps : SlotOK(s)
    /\ BestIsKept /\ NewestIsKept /\ LimitHolds

LEMMA TrainingInitial == TrainingInit => TrainingIInv
  <1> SUFFICES ASSUME TrainingInit PROVE TrainingIInv
    OBVIOUS
  <1>1. \A s \in Steps : folder[s] = "none" /\ stored[s] = NoWeights
    BY DEF TrainingInit
  <1>2. Saved = {}
    BY <1>1 DEF Saved
  <1>3. MaxStep \in Nat /\ MaxFaults \in Nat
    BY TrainingAssumption
  <1>4. TrainingTypeOK
    <2>1. /\ step \in 0..MaxStep /\ weights \in 0..MaxStep
          /\ faults \in 0..MaxFaults /\ top \in 0..MaxStep
      BY <1>3 DEF TrainingInit
    <2> QED
      BY <2>1, Zenon DEF TrainingInit, TrainingTypeOK, RunStatuses, RunPlaces
  <1>5. RunOK
    BY <1>2 DEF TrainingInit, RunOK
  <1>6. \A s \in Steps : SlotOK(s)
    BY <1>1 DEF SlotOK
  <1>7. BestIsKept /\ NewestIsKept /\ LimitHolds
    BY DEF TrainingInit, BestIsKept, NewestIsKept, LimitHolds
  <1> QED
    BY <1>4, <1>5, <1>6, <1>7 DEF TrainingIInv

\* The numbers of the model
LEMMA StepNumbers ==
  /\ MaxStep \in Nat \ {0} /\ MaxFaults \in Nat /\ SaveSteps \in Nat \ {0}
  /\ Losses \subseteq Nat /\ Limits \subseteq Nat \ {0}
  /\ \A s \in Steps : s \in Nat /\ s >= 1 /\ s <= MaxStep
  BY TrainingAssumption DEF Steps

\* Steps that leave the checkpoints as they are
LEMMA SameCheckpoints ==
  ASSUME TrainingIInv,
         UNCHANGED <<limit, folder, loss, stored, best, top>>,
         bare' \in BOOLEAN, bare => bare',
         runStatus' \in RunStatuses, place' \in RunPlaces,
         step' \in 0..MaxStep, weights' \in 0..MaxStep,
         faults' \in 0..MaxFaults,
         place' # "off" => runStatus' = "RUNNING",
         runStatus' = "CREATED" => runStatus = "CREATED" /\ UNCHANGED place,
         place' # "off" => \A s \in Saved : folder[s] = "whole",
         place' \in {"loading", "storing"} => place \in {"loading", "storing"},
         RunOK'
  PROVE  TrainingIInv'
  <1>1. TrainingTypeOK'
    BY DEF TrainingIInv, TrainingTypeOK
  <1>2. \A s \in Steps : SlotOK(s)'
    <2> SUFFICES ASSUME NEW s \in Steps PROVE SlotOK(s)'
      OBVIOUS
    <2>1. SlotOK(s) /\ (s \notin Saved => folder[s] = "none")
      BY DEF TrainingIInv, Saved
    <2>2. folder[s] = "torn" => place' = "off" /\ runStatus' # "CREATED"
      BY <2>1 DEF SlotOK
    <2> QED
      BY <2>1, <2>2 DEF SlotOK
  <1>3. BestIsKept' /\ NewestIsKept' /\ LimitHolds'
    BY DEF TrainingIInv, BestIsKept, NewestIsKept, LimitHolds, Saved
  <1> QED
    BY <1>1, <1>2, <1>3 DEF TrainingIInv

\* A process at work has whole checkpoints only.
LEMMA AllWhole ==
  ASSUME TrainingIInv, place # "off" \/ runStatus = "CREATED"
  PROVE  \A s \in Saved : s \in Steps /\ folder[s] = "whole"
  BY DEF TrainingIInv, SlotOK, Saved, TrainingTypeOK

LEMMA StopStep ==
  ASSUME TrainingIInv,
         NEW end \in {"FAILED", "INTERRUPTED", "RUNNING"}, Stops(end),
         UNCHANGED <<limit, folder, loss, stored, best, top, bare>>,
         faults' \in 0..MaxFaults
  PROVE  TrainingIInv'
  <1>1. /\ place' = "off" /\ runStatus' = end /\ step' = 0 /\ weights' = 0
        /\ 0 \in 0..MaxStep
    BY StepNumbers DEF Stops
  <1>2. RunOK'
    BY <1>1 DEF RunOK
  <1>3. bare' \in BOOLEAN /\ runStatus' \in RunStatuses /\ place' \in RunPlaces
    BY <1>1 DEF TrainingIInv, TrainingTypeOK, RunStatuses, RunPlaces
  <1> QED
    BY <1>1, <1>2, <1>3, SameCheckpoints

LEMMA WorkSteps ==
  ASSUME TrainingIInv, UNCHANGED limit,
         StartsRun \/ ResumesRun \/ TrainsStep \/ Loads \/ CompletesRun
  PROVE  TrainingIInv'
  <1>1. UNCHANGED <<limit, folder, loss, stored, best, top, bare, faults>>
    BY DEF StartsRun, ResumesRun, TrainsStep, Loads, CompletesRun,
           checkpointVars
  <1>2. /\ bare \in BOOLEAN /\ faults \in 0..MaxFaults
        /\ step \in 0..MaxStep /\ weights \in 0..MaxStep
    BY DEF TrainingIInv, TrainingTypeOK
  <1>3. Saved' = Saved
    BY <1>1 DEF Saved
  <1>4. CASE StartsRun
    <2>1. /\ runStatus = "CREATED" /\ runStatus' = "RUNNING"
          /\ place' = "training" /\ UNCHANGED <<step, weights>>
      BY <1>4 DEF StartsRun
    <2>2. Saved = {} /\ step = 0 /\ weights = 0
      BY <2>1 DEF TrainingIInv, RunOK
    <2>3. RunOK'
      BY <1>3, <2>1, <2>2 DEF RunOK
    <2> QED
      BY <1>1, <1>2, <2>1, <2>2, <2>3, SameCheckpoints
      DEF RunStatuses, RunPlaces
  <1>5. CASE ResumesRun
    <2>1. /\ Saved # {} /\ \A s \in Saved : folder[s] = "whole"
          /\ runStatus' = "RUNNING" /\ place' = "restoring"
          /\ step' = Newest(Saved) /\ UNCHANGED weights
      BY <1>5 DEF ResumesRun, Resumable
    <2>2. step' \in Saved /\ \A s \in Saved : s <= step'
      BY <2>1, NewestSaved DEF Saved
    <2>3. step' \in 0..MaxStep
      BY <2>2, StepNumbers DEF Saved
    <2>4. RunOK'
      BY <1>3, <2>1, <2>2 DEF RunOK
    <2> QED
      BY <1>1, <1>2, <2>1, <2>3, <2>4, SameCheckpoints
      DEF RunStatuses, RunPlaces
  <1>6. CASE TrainsStep
    <2>1. /\ place = "training" /\ step < MaxStep /\ step' = step + 1
          /\ weights' = weights + 1 /\ UNCHANGED runStatus
          /\ place' \in {"publishing", "training"}
      BY <1>6 DEF TrainsStep
    <2>2. runStatus = "RUNNING"
      BY <2>1 DEF TrainingIInv, TrainingTypeOK
    <2>3. /\ weights <= step /\ (~bare => weights = step)
          /\ \A s \in Saved : s <= step
      BY <2>1 DEF TrainingIInv, RunOK
    <2>4. step' \in Steps /\ step' \in 0..MaxStep /\ weights' \in 0..MaxStep
      BY <1>2, <2>1, <2>3, StepNumbers DEF Steps
    <2>5. \A s \in Saved : s < step'
      BY <1>2, <2>1, <2>3, StepNumbers DEF Saved
    <2>6. weights' <= step' /\ (~bare => weights' = step')
      BY <1>2, <2>1, <2>3
    <2>7. \A s \in Saved : s <= step'
      BY <1>2, <2>1, <2>5, StepNumbers DEF Saved
    <2>8. RunOK'
      BY <1>1, <1>3, <2>1, <2>2, <2>4, <2>5, <2>6, <2>7 DEF RunOK
    <2> QED
      BY <1>1, <1>2, <2>1, <2>2, <2>4, <2>8, AllWhole, SameCheckpoints
      DEF RunStatuses, RunPlaces
  <1>7. CASE Loads
    <2>1. /\ place = "loading" /\ place' = "storing"
          /\ UNCHANGED <<runStatus, step, weights>>
      BY <1>7 DEF Loads
    <2>2. runStatus = "RUNNING"
      BY <2>1 DEF TrainingIInv, TrainingTypeOK
    <2>3. RunOK'
      BY <1>1, <1>3, <2>1, <2>2 DEF TrainingIInv, RunOK
    <2> QED
      BY <1>1, <1>2, <2>1, <2>2, <2>3, AllWhole, SameCheckpoints
      DEF RunStatuses, RunPlaces
  <1>8. CASE CompletesRun
    <2>1. /\ place' = "off" /\ runStatus' = "COMPLETED"
          /\ UNCHANGED <<step, weights>>
      BY <1>8 DEF CompletesRun
    <2>2. RunOK'
      BY <2>1 DEF RunOK
    <2> QED
      BY <1>1, <1>2, <2>1, <2>2, SameCheckpoints DEF RunStatuses, RunPlaces
  <1> QED
    BY <1>4, <1>5, <1>6, <1>7, <1>8

LEMMA RestoreStep ==
  ASSUME TrainingIInv, UNCHANGED limit, Restores
  PROVE  TrainingIInv'
  <1>1. /\ place = "restoring" /\ place' = "training"
        /\ UNCHANGED <<limit, runStatus, folder, loss, stored, step, faults,
                       best, top>>
    BY DEF Restores, checkpointVars
  <1>2. /\ runStatus = "RUNNING" /\ step \in 0..MaxStep
        /\ faults \in 0..MaxFaults /\ bare \in BOOLEAN
    BY <1>1 DEF TrainingIInv, TrainingTypeOK
  <1>3. /\ step \in Steps /\ stored[step] \in 0..MaxStep \cup {NoWeights}
        /\ SlotOK(step) /\ \A s \in Saved : s <= step
    BY <1>1 DEF TrainingIInv, RunOK, Saved, TrainingTypeOK
  <1>4. /\ bare' \in BOOLEAN /\ (bare => bare') /\ weights' \in 0..MaxStep
        /\ weights' <= step /\ (~bare' => weights' = step)
    <2>1. CASE stored[step] = NoWeights
      <3>1. weights' = 0 /\ bare'
        BY <2>1 DEF Restores
      <3> QED
        BY <1>3, <3>1, StepNumbers
    <2>2. CASE stored[step] # NoWeights
      <3>1. weights' = stored[step] /\ bare' = bare
        BY <2>2 DEF Restores, LoadedWeights
      <3> QED
        BY <1>2, <1>3, <2>2, <3>1 DEF SlotOK
    <2> QED
      BY <2>1, <2>2
  <1>5. RunOK'
    BY <1>1, <1>2, <1>3, <1>4 DEF RunOK, Saved
  <1> QED
    BY <1>1, <1>2, <1>4, <1>5, AllWhole, SameCheckpoints
    DEF RunStatuses, RunPlaces

LEMMA StoreStep ==
  ASSUME TrainingIInv, UNCHANGED limit, Stores
  PROVE  TrainingIInv'
  <1>1. /\ place = "storing" /\ place' = "training"
        /\ stored' = [stored EXCEPT ![step] = weights]
        /\ UNCHANGED <<limit, runStatus, folder, loss, step, weights, faults,
                       best, top, bare>>
    BY DEF Stores
  <1>2. /\ step \in Steps /\ weights <= step /\ (~bare => weights = step)
        /\ \A s \in Saved : s <= step
    BY <1>1 DEF TrainingIInv, RunOK
  <1>3. TrainingTypeOK'
    <2>1. stored' \in [Steps -> 0..MaxStep \cup {NoWeights}]
      BY <1>1, <1>2 DEF TrainingIInv, TrainingTypeOK
    <2> QED
      BY <1>1, <2>1 DEF TrainingIInv, TrainingTypeOK, RunPlaces
  <1>4. \A s \in Steps : stored'[s] = IF s = step THEN weights ELSE stored[s]
    BY <1>1 DEF TrainingIInv, TrainingTypeOK
  <1>5. Saved' = Saved /\ runStatus = "RUNNING"
    BY <1>1 DEF Saved, TrainingIInv, TrainingTypeOK
  <1>6. ASSUME NEW s \in Steps PROVE SlotOK(s)'
    <2>1. SlotOK(s) /\ folder[s] # "torn"
      BY <1>1 DEF TrainingIInv, SlotOK
    <2> QED
      BY <1>1, <1>2, <1>4, <2>1 DEF SlotOK
  <1>7. RunOK'
    BY <1>1, <1>2, <1>5 DEF RunOK
  <1>8. BestIsKept' /\ NewestIsKept' /\ LimitHolds'
    BY <1>1, <1>5 DEF TrainingIInv, BestIsKept, NewestIsKept, LimitHolds
  <1> QED
    BY <1>3, <1>6, <1>7, <1>8 DEF TrainingIInv

LEMMA PublishStep ==
  ASSUME TrainingIInv, UNCHANGED limit, Publishes
  PROVE  TrainingIInv'
  <1>1. /\ place = "publishing" /\ place' = "retaining"
        /\ folder' = [folder EXCEPT ![step] = "whole"]
        /\ stored' = [stored EXCEPT ![step] = NoWeights]
        /\ top' = IF step > top THEN step ELSE top
        /\ UNCHANGED <<limit, runStatus, step, weights, faults, bare>>
    BY DEF Publishes
  <1>2. PICK l \in Losses :
           /\ loss' = [loss EXCEPT ![step] = l]
           /\ best' = IF best = NoLoss \/ l < best THEN l ELSE best
    BY DEF Publishes
  <1>3. /\ step \in Steps /\ weights <= step /\ (~bare => weights = step)
        /\ \A s \in Saved : s < step
    BY <1>1 DEF TrainingIInv, RunOK
  <1>4. /\ top \in 0..MaxStep /\ best \in Losses \cup {NoLoss}
        /\ step \in Nat /\ step >= 1 /\ step <= MaxStep /\ l \in Nat
        /\ Losses \subseteq Nat /\ MaxStep \in Nat
    BY <1>2, <1>3, StepNumbers DEF TrainingIInv, TrainingTypeOK
  <1>5. /\ top' \in 0..MaxStep /\ best' \in Losses /\ best' <= l
        /\ top <= top' /\ step <= top' /\ (best # NoLoss => best' <= best)
        /\ best' = l \/ (best' = best /\ best # NoLoss)
    BY <1>1, <1>2, <1>4 DEF NoLoss
  <1>6. \A s \in Steps :
           /\ folder'[s] = IF s = step THEN "whole" ELSE folder[s]
           /\ loss'[s] = IF s = step THEN l ELSE loss[s]
           /\ stored'[s] = IF s = step THEN NoWeights ELSE stored[s]
    BY <1>1, <1>2 DEF TrainingIInv, TrainingTypeOK
  <1>7. TrainingTypeOK'
    <2>1. /\ folder' \in [Steps -> {"none", "whole", "torn"}]
          /\ loss' \in [Steps -> Losses \cup {NoLoss}]
          /\ stored' \in [Steps -> 0..MaxStep \cup {NoWeights}]
      BY <1>1, <1>2 DEF TrainingIInv, TrainingTypeOK
    <2> QED
      BY <1>1, <1>5, <2>1 DEF TrainingIInv, TrainingTypeOK, RunPlaces
  <1>8. \A s \in Steps : s \in Saved' <=> s = step \/ s \in Saved
    BY <1>6 DEF Saved
  <1>9. runStatus = "RUNNING" /\ folder[step] = "none"
    BY <1>1, <1>3, <1>4 DEF TrainingIInv, TrainingTypeOK, Saved
  <1>10. ASSUME NEW s \in Steps PROVE SlotOK(s)'
    <2>1. SlotOK(s) /\ folder[s] # "torn" /\ s \in Nat
          /\ loss[s] \in Losses \cup {NoLoss}
      BY <1>1, StepNumbers DEF TrainingIInv, SlotOK, TrainingTypeOK
    <2>2. CASE s = step
      BY <1>1, <1>5, <1>6, <2>2, <1>2 DEF SlotOK
    <2>3. CASE s # step
      <3>1. /\ folder'[s] = folder[s] /\ loss'[s] = loss[s]
            /\ stored'[s] = stored[s]
        BY <1>6, <2>3
      <3>2. folder[s] = "whole" => best # NoLoss
        BY <2>1, <1>4 DEF SlotOK, NoLoss
      <3>3. ASSUME folder[s] = "whole"
            PROVE  /\ loss[s] \in Losses /\ best' \in Losses
                   /\ best' <= loss[s] /\ s <= top'
        <4>1. /\ loss[s] \in Nat /\ best \in Nat /\ best' \in Nat
              /\ best <= loss[s] /\ s <= top /\ loss[s] \in Losses
          BY <1>4, <1>5, <2>1, <3>3 DEF SlotOK
        <4> QED
          BY <1>4, <1>5, <2>1, <3>2, <3>3, <4>1
      <3> QED
        BY <1>1, <2>1, <3>1, <3>3 DEF SlotOK
    <2> QED
      BY <2>2, <2>3
  <1>11. RunOK'
    <2>1. \A s \in Saved' : s \in Steps
      BY DEF Saved
    <2>2. ASSUME NEW s \in Saved' PROVE s <= step
      <3>1. s \in Steps /\ s \in Nat
        BY <2>1, StepNumbers
      <3>2. s = step \/ s < step
        BY <1>3, <1>8, <3>1
      <3> QED
        BY <1>4, <3>1, <3>2
    <2> QED
      BY <1>1, <1>3, <1>8, <1>9, <2>2 DEF RunOK
  <1>12. BestIsKept'
    <2>1. CASE best' = l
      BY <1>3, <1>6, <2>1 DEF BestIsKept
    <2>2. CASE best' = best /\ best # NoLoss
      <3>1. PICK s \in Steps : folder[s] = "whole" /\ loss[s] = best
        BY <2>2 DEF TrainingIInv, BestIsKept
      <3> QED
        BY <1>6, <1>9, <2>2, <3>1 DEF BestIsKept
    <2> QED
      BY <1>5, <2>1, <2>2
  <1>13. NewestIsKept'
    <2>1. ASSUME limit > 1 PROVE top' = step
      <3>1. top # 0 => top \in Saved
        BY <1>4, <2>1 DEF TrainingIInv, NewestIsKept, Saved, Steps
      <3> QED
        BY <1>1, <1>3, <1>4, <3>1
    <2> QED
      BY <1>1, <1>3, <1>6, <2>1 DEF NewestIsKept
  <1> QED
    BY <1>1, <1>7, <1>10, <1>11, <1>12, <1>13 DEF TrainingIInv, LimitHolds

\* Retention keeps the best of all losses and, with room for two, the newest.
LEMMA KeptOnes ==
  ASSUME TrainingIInv, place = "retaining"
  PROVE  /\ best # NoLoss => \E s \in Steps \cap Kept :
              folder[s] = "whole" /\ loss[s] = best
         /\ limit > 1 /\ top # 0 => top \in Steps \cap Kept
         /\ Kept \subseteq Saved
         /\ IsFiniteSet(Kept) /\ Cardinality(Kept) <= limit
  <1> DEFINE S == Saved \ {BestSaved}
  <1>1. /\ Saved # {} /\ \A s \in Saved : /\ s \in Steps /\ folder[s] = "whole"
                                          /\ loss[s] \in Losses
    BY AllWhole DEF TrainingIInv, RunOK, SlotOK
  <1>2. /\ BestSaved \in Saved
        /\ \A r \in Saved : loss[BestSaved] <= loss[r]
    BY <1>1, BestExists
  <1>3. limit \in Nat \ {0}
    BY StepNumbers DEF TrainingIInv, TrainingTypeOK
  <1>4. /\ S \subseteq Steps /\ limit - 1 \in Nat
        /\ KeptSlots(S) = NewestOf(S, limit - 1)
    BY <1>1, <1>3 DEF KeptSlots
  <1> HIDE DEF S
  <1>5. /\ IsFiniteSet(KeptSlots(S)) /\ Cardinality(KeptSlots(S)) <= limit - 1
        /\ KeptSlots(S) \subseteq S
    BY <1>4, NewestAreFew
  <1>6. Kept = KeptSlots(S) \cup {BestSaved}
    BY DEF Kept, S
  <1>7. Kept \subseteq Saved
    BY <1>2, <1>5, <1>6 DEF S
  <1>8. IsFiniteSet(Kept) /\ Cardinality(Kept) <= limit
    <2>1. BestSaved \notin KeptSlots(S)
      BY <1>5 DEF S
    <2>2. /\ IsFiniteSet(KeptSlots(S) \cup {BestSaved})
          /\ Cardinality(KeptSlots(S) \cup {BestSaved}) =
               Cardinality(KeptSlots(S)) + 1
      BY <1>5, <2>1, FS_AddElement
    <2>3. Cardinality(KeptSlots(S)) \in Nat
      BY <1>5, FS_CardinalityType
    <2> QED
      BY <1>3, <1>5, <1>6, <2>2, <2>3
  <1>9. ASSUME best # NoLoss
        PROVE  \E s \in Steps \cap Kept : folder[s] = "whole" /\ loss[s] = best
    <2>1. PICK s \in Steps : folder[s] = "whole" /\ loss[s] = best
      BY <1>9 DEF TrainingIInv, BestIsKept
    <2>2. s \in Saved /\ BestSaved \in Steps /\ BestSaved \in Kept
      BY <1>1, <1>2, <1>6, <2>1 DEF Saved
    <2>3. /\ loss[BestSaved] <= best /\ best <= loss[BestSaved]
          /\ loss[BestSaved] \in Nat /\ best \in Nat
      BY <1>1, <1>2, <2>1, <2>2, StepNumbers DEF TrainingIInv, SlotOK
    <2> QED
      BY <1>1, <1>2, <2>2, <2>3
  <1>10. ASSUME limit > 1, top # 0 PROVE top \in Steps \cap Kept
    <2>1. folder[top] = "whole" /\ top \in Steps /\ top \in Saved
      BY <1>10 DEF TrainingIInv, NewestIsKept, TrainingTypeOK, Saved, Steps
    <2>2. CASE top = BestSaved
      BY <1>6, <2>1, <2>2
    <2>3. CASE top # BestSaved
      <3>1. top \in S
        BY <2>1, <2>3 DEF S
      <3>2. \A r \in S : r <= top /\ r \in Nat /\ top \in Nat
        BY <1>1, <2>1, StepNumbers DEF S, TrainingIInv, SlotOK
      <3>3. {r \in S : r > top} = {}
        BY <3>2
      <3>4. Cardinality({r \in S : r > top}) = 0
        BY <3>3, FS_EmptySet
      <3>5. 0 < limit - 1
        BY <1>3, <1>10
      <3>6. top \in NewestOf(S, limit - 1)
        BY <3>1, <3>4, <3>5 DEF NewestOf
      <3> QED
        BY <1>4, <1>6, <2>1, <3>6
    <2> QED
      BY <2>2, <2>3
  <1> QED
    BY <1>7, <1>8, <1>9, <1>10

\* What a removal of checkpoints that are not kept does
LEMMA Removed ==
  ASSUME TrainingIInv, place = "retaining", NEW gone, NEW torn,
         gone \subseteq Saved \ Kept, Removes(gone, torn), torn \subseteq gone,
         UNCHANGED <<limit, best, top, bare>>
  PROVE  /\ folder' \in [Steps -> {"none", "whole", "torn"}]
         /\ loss' \in [Steps -> Losses \cup {NoLoss}]
         /\ stored' \in [Steps -> 0..MaxStep \cup {NoWeights}]
         /\ \A s \in Steps \ gone : /\ folder'[s] = folder[s]
                                    /\ loss'[s] = loss[s]
                                    /\ stored'[s] = stored[s]
         /\ \A s \in gone :
               /\ folder'[s] \in {"none", "torn"} /\ stored'[s] = NoWeights
               /\ folder'[s] = "torn" => s \in torn
         /\ BestIsKept' /\ NewestIsKept'
  <1>1. /\ folder' = [s \in Steps |-> IF s \in torn THEN "torn"
                                ELSE IF s \in gone THEN "none" ELSE folder[s]]
        /\ loss' = [s \in Steps |-> IF s \in gone THEN NoLoss ELSE loss[s]]
        /\ stored' =
             [s \in Steps |-> IF s \in gone THEN NoWeights ELSE stored[s]]
    BY DEF Removes
  <1>2. /\ folder \in [Steps -> {"none", "whole", "torn"}]
        /\ loss \in [Steps -> Losses \cup {NoLoss}]
        /\ stored \in [Steps -> 0..MaxStep \cup {NoWeights}]
    BY DEF TrainingIInv, TrainingTypeOK
  <1>3. gone \subseteq Steps
    BY DEF Saved
  <1>4. /\ folder' \in [Steps -> {"none", "whole", "torn"}]
        /\ loss' \in [Steps -> Losses \cup {NoLoss}]
        /\ stored' \in [Steps -> 0..MaxStep \cup {NoWeights}]
    BY <1>1, <1>2
  <1>5. \A s \in Steps \ gone : /\ folder'[s] = folder[s]
                                /\ loss'[s] = loss[s]
                                /\ stored'[s] = stored[s]
    BY <1>1
  <1>6. \A s \in gone :
           /\ folder'[s] \in {"none", "torn"} /\ stored'[s] = NoWeights
           /\ folder'[s] = "torn" => s \in torn
    BY <1>1, <1>3
  <1>7. BestIsKept'
    BY <1>5, KeptOnes DEF BestIsKept
  <1>8. NewestIsKept'
    <2>1. limit > 1 /\ top # 0 => top \in Steps \ gone
      BY KeptOnes
    <2> QED
      BY <1>5, <2>1 DEF TrainingIInv, NewestIsKept
  <1> QED
    BY <1>4, <1>5, <1>6, <1>7, <1>8

LEMMA RetainStep ==
  ASSUME TrainingIInv, UNCHANGED limit, Retains
  PROVE  TrainingIInv'
  <1> DEFINE gone == Saved \ Kept
  <1>1. /\ place = "retaining" /\ place' = "loading" /\ Removes(gone, {})
        /\ UNCHANGED <<limit, runStatus, step, weights, faults, best, top,
                       bare>>
    BY DEF Retains
  <1>2. /\ folder' \in [Steps -> {"none", "whole", "torn"}]
        /\ loss' \in [Steps -> Losses \cup {NoLoss}]
        /\ stored' \in [Steps -> 0..MaxStep \cup {NoWeights}]
        /\ \A s \in Steps \ gone : /\ folder'[s] = folder[s]
                                   /\ loss'[s] = loss[s]
                                   /\ stored'[s] = stored[s]
        /\ \A s \in gone : folder'[s] = "none" /\ stored'[s] = NoWeights
        /\ BestIsKept' /\ NewestIsKept'
    BY <1>1, Removed
  <1>3. gone \subseteq Saved /\ gone \subseteq Steps
    BY DEF Saved
  <1> HIDE DEF gone
  <1>4. TrainingTypeOK'
    BY <1>1, <1>2 DEF TrainingIInv, TrainingTypeOK, RunPlaces
  <1>5. ASSUME NEW s \in Steps PROVE SlotOK(s)'
    <2>1. SlotOK(s) /\ folder[s] # "torn"
      BY <1>1 DEF TrainingIInv, SlotOK
    <2>2. CASE s \in gone
      BY <1>2, <2>2 DEF SlotOK
    <2>3. CASE s \notin gone
      BY <1>1, <1>2, <2>1, <2>3 DEF SlotOK
    <2> QED
      BY <2>2, <2>3
  <1>6. Saved' \subseteq Saved \ gone
    BY <1>2, <1>3 DEF Saved
  <1>7. RunOK'
    <2>1. /\ runStatus = "RUNNING" /\ step \in Steps
          /\ weights <= step /\ (~bare => weights = step)
          /\ \A s \in Saved : s <= step
      BY <1>1 DEF TrainingIInv, RunOK, TrainingTypeOK, Saved
    <2> QED
      BY <1>1, <1>6, <2>1 DEF RunOK
  <1>8. LimitHolds'
    <2>1. Saved' \in SUBSET Kept
      BY <1>6 DEF gone
    <2>2. /\ IsFiniteSet(Kept) /\ Cardinality(Kept) <= limit
          /\ limit \in Nat /\ Cardinality(Kept) \in Nat
      BY <1>1, KeptOnes, FS_CardinalityType, StepNumbers
      DEF TrainingIInv, TrainingTypeOK
    <2>3. /\ IsFiniteSet(Saved') /\ Cardinality(Saved') <= Cardinality(Kept)
      BY <2>1, <2>2, FS_Subset
    <2>4. Cardinality(Saved') \in Nat
      BY <2>3, FS_CardinalityType
    <2> QED
      BY <1>1, <2>2, <2>3, <2>4 DEF LimitHolds
  <1> QED
    BY <1>2, <1>4, <1>5, <1>7, <1>8 DEF TrainingIInv

LEMMA BrokenRetention ==
  ASSUME TrainingIInv, UNCHANGED limit, BreaksRetaining
  PROVE  TrainingIInv'
  <1>1. PICK gone \in SUBSET (Saved \ Kept) :
           \E torn \in gone : Removes(gone, {torn})
    BY DEF BreaksRetaining
  <1>2. PICK torn \in gone : Removes(gone, {torn})
    BY <1>1
  <1>3. /\ place = "retaining" /\ faults < MaxFaults /\ faults' = faults + 1
        /\ place' = "off" /\ step' = 0 /\ weights' = 0
        /\ runStatus' \in {"FAILED", "INTERRUPTED", "RUNNING"}
        /\ UNCHANGED <<limit, best, top, bare>>
    BY DEF BreaksRetaining, Stops
  <1>4. /\ folder' \in [Steps -> {"none", "whole", "torn"}]
        /\ loss' \in [Steps -> Losses \cup {NoLoss}]
        /\ stored' \in [Steps -> 0..MaxStep \cup {NoWeights}]
        /\ \A s \in Steps \ gone : /\ folder'[s] = folder[s]
                                   /\ loss'[s] = loss[s]
                                   /\ stored'[s] = stored[s]
        /\ \A s \in gone :
              folder'[s] \in {"none", "torn"} /\ stored'[s] = NoWeights
        /\ BestIsKept' /\ NewestIsKept'
    BY <1>1, <1>2, <1>3, Removed
  <1>5. TrainingTypeOK'
    <2>1. faults' \in 0..MaxFaults /\ 0 \in 0..MaxStep
      BY <1>3, StepNumbers DEF TrainingIInv, TrainingTypeOK
    <2> QED
      BY <1>3, <1>4, <2>1
      DEF TrainingIInv, TrainingTypeOK, RunPlaces, RunStatuses
  <1>6. ASSUME NEW s \in Steps PROVE SlotOK(s)'
    <2>1. SlotOK(s)
      BY DEF TrainingIInv
    <2>2. CASE s \in gone
      BY <1>3, <1>4, <2>2 DEF SlotOK
    <2>3. CASE s \notin gone
      BY <1>3, <1>4, <2>1, <2>3 DEF SlotOK
    <2> QED
      BY <2>2, <2>3
  <1>7. RunOK' /\ LimitHolds'
    BY <1>3 DEF RunOK, LimitHolds
  <1> QED
    BY <1>4, <1>5, <1>6, <1>7 DEF TrainingIInv

LEMMA TrainingStep ==
  ASSUME TrainingIInv, [TrainingNext]_trainingVars
  PROVE  TrainingIInv'
  <1>1. CASE UNCHANGED trainingVars
    <2>1. UNCHANGED <<limit, runStatus, folder, loss, stored, place, step,
                      weights, faults, best, top, bare>>
      BY <1>1 DEF trainingVars, checkpointVars, processVars
    <2>2. TrainingTypeOK' /\ RunOK'
      BY <2>1 DEF TrainingIInv, TrainingTypeOK, RunOK, Saved
    <2>3. \A s \in Steps : SlotOK(s)'
      BY <2>1 DEF TrainingIInv, SlotOK
    <2>4. BestIsKept' /\ NewestIsKept' /\ LimitHolds'
      BY <2>1 DEF TrainingIInv, BestIsKept, NewestIsKept, LimitHolds, Saved
    <2> QED
      BY <2>2, <2>3, <2>4 DEF TrainingIInv
  <1>2. CASE LoadFails /\ UNCHANGED limit
    <2>1. /\ Stops("FAILED") /\ faults' \in 0..MaxFaults
          /\ UNCHANGED <<limit, folder, loss, stored, best, top, bare>>
      BY <1>2 DEF LoadFails, checkpointVars, TrainingIInv, TrainingTypeOK
    <2> QED
      BY <2>1, StopStep
  <1>3. CASE Breaks /\ UNCHANGED limit
    <2>1. /\ \E end \in {"FAILED", "INTERRUPTED", "RUNNING"} : Stops(end)
          /\ UNCHANGED <<limit, folder, loss, stored, best, top, bare>>
          /\ faults < MaxFaults /\ faults' = faults + 1
      BY <1>3 DEF Breaks, checkpointVars
    <2>2. faults' \in 0..MaxFaults
      BY <2>1, StepNumbers DEF TrainingIInv, TrainingTypeOK
    <2> QED
      BY <2>1, <2>2, StopStep
  <1> QED
    BY <1>1, <1>2, <1>3, WorkSteps, RestoreStep, PublishStep, RetainStep,
       StoreStep, BrokenRetention DEF TrainingNext, Works

LEMMA TrainingInvariant == TrainingSpec => []TrainingIInv
  <1>1. TrainingIInv /\ [TrainingNext]_trainingVars => TrainingIInv'
    BY TrainingStep
  <1> QED
    BY <1>1, TrainingInitial, PTL DEF TrainingSpec

\* The directory and the process hold what the code can put there, and an
\* executing process has its run recorded as RUNNING (resume_run).
THEOREM TrainingTypeCorrect == TrainingSpec => []TrainingTypeOK
  <1>1. TrainingIInv => TrainingTypeOK
    BY DEF TrainingIInv
  <1> QED
    BY <1>1, TrainingInvariant, PTL

\* Whatever is saved, removed, broken off and resumed: the best checkpoint is
\* whole, with room for two the newest is too, a save leaves no more than the
\* limit, and the weights are those of the step unless a checkpoint without
\* torch state was resumed from (_mark_best_and_retain, _save_checkpoint).
THEOREM CheckpointsAreKept == TrainingSpec => []CheckpointsHold
  <1>1. ASSUME TrainingIInv PROVE CheckpointsHold
    <2>1. ASSUME ~bare PROVE WeightsMatchStep
      BY <1>1, <2>1 DEF TrainingIInv, RunOK, SlotOK, WeightsMatchStep
    <2>2. WeightsMatchStep
      BY <2>1 DEF WeightsMatchStep
    <2> QED
      BY <1>1, <2>2 DEF TrainingIInv, CheckpointsHold
  <1> QED
    BY <1>1, TrainingInvariant, PTL
-----------------------------------------------------------------------------
(* How a training run goes on *)

\* The step of a checkpoint just saved is the newest there was.
PastTop == place \in {"retaining", "loading", "storing"} => top >= step

Before(n) == 8 * (MaxStep - n)

StageRank ==
    IF place = "publishing" THEN 6
    ELSE IF place = "retaining" THEN 5
    ELSE IF place = "loading" THEN 4
    ELSE IF place = "storing" THEN 3
    ELSE IF place = "restoring" THEN 2
    ELSE 1

\* What the run has before it, as long as nothing breaks it off
RunRank ==
    IF place # "off" THEN Before(step) + StageRank
    ELSE IF runStatus = "CREATED" THEN Before(0) + 2
    ELSE IF runStatus \in {"FAILED", "INTERRUPTED"} THEN Before(0) + 8
    ELSE 0

\* When Works can be taken
CanWork ==
    \/ place = "off" /\ (runStatus = "CREATED" \/ Resumable)
    \/ place \notin {"off", "loading"}
    \/ place = "loading" /\ folder[step] = "whole"

\* With room for two checkpoints a run has completed, is stuck in one of the
\* ways RunCompletes names, or can go on.
OnlyStuckRunsStop ==
    limit > 1 => runStatus = "COMPLETED" \/ Stuck \/ CanWork

\* Whoever executes or resumes it brings it nearer to its end; every other
\* step is one of the faults, which are counted.
RunNearsEnd ==
    limit > 1 =>
        /\ RunRank' \in Nat
        /\ Works => RunRank' < RunRank /\ faults' = faults
        /\ ~Works => faults' = faults + 1 /\ faults' <= MaxFaults

LEMMA PastTopKept ==
  ASSUME TrainingIInv, PastTop, [TrainingNext]_trainingVars
  PROVE  PastTop'
  <1>1. step \in 0..MaxStep /\ top \in 0..MaxStep /\ MaxStep \in Nat
    BY StepNumbers DEF TrainingIInv, TrainingTypeOK
  <1>2. CASE Publishes
    BY <1>1, <1>2 DEF Publishes, PastTop
  <1>3. CASE Retains \/ Loads
    BY <1>3 DEF Retains, Loads, PastTop
  <1>4. CASE \/ StartsRun \/ ResumesRun \/ Restores \/ TrainsStep \/ Stores
             \/ CompletesRun \/ LoadFails \/ Breaks \/ BreaksRetaining
    <2>1. place' \notin {"retaining", "loading", "storing"}
      BY <1>4 DEF StartsRun, ResumesRun, Restores, TrainsStep, Stores,
         CompletesRun, LoadFails, Breaks, BreaksRetaining, Stops
    <2> QED
      BY <2>1 DEF PastTop
  <1>5. CASE UNCHANGED trainingVars
    BY <1>5 DEF trainingVars, processVars, PastTop
  <1> QED
    BY <1>2, <1>3, <1>4, <1>5 DEF TrainingNext, Works

\* With room for two, the checkpoint a save goes on with is there.
LEMMA SaveIsThere ==
  ASSUME TrainingIInv, PastTop, limit > 1, place = "loading"
  PROVE  folder[step] = "whole"
  <1>1. step \in Steps /\ \A s \in Saved : s <= step
    BY DEF TrainingIInv, RunOK
  <1>2. top \in 0..MaxStep /\ top >= step
    BY DEF TrainingIInv, TrainingTypeOK, PastTop
  <1>3. top # 0 /\ top \in Steps /\ step \in Nat
    BY <1>1, <1>2, StepNumbers DEF Steps
  <1>4. folder[top] = "whole"
    BY <1>3 DEF TrainingIInv, NewestIsKept
  <1>5. top <= step
    BY <1>1, <1>3, <1>4 DEF Saved
  <1> QED
    BY <1>2, <1>3, <1>4, <1>5

\* Each step of a process, or a resume, has less before it.
LEMMA WorksNearEnd ==
  ASSUME TrainingIInv, Works
  PROVE  RunRank' < RunRank /\ faults' = faults
  <1>1. step \in 0..MaxStep /\ MaxStep \in Nat
    BY StepNumbers DEF TrainingIInv, TrainingTypeOK
  <1>2. faults' = faults
    BY DEF Works, StartsRun, ResumesRun, Restores, TrainsStep, Publishes,
       Retains, Loads, Stores, CompletesRun
  <1>3. CASE StartsRun
    <2>1. step = 0
      BY <1>3 DEF StartsRun, TrainingIInv, RunOK
    <2> QED
      BY <1>1, <1>2, <1>3, <2>1 DEF StartsRun, RunRank, Before, StageRank
  <1>4. CASE ResumesRun
    <2>1. step' \in Saved
      BY <1>4, NewestSaved DEF ResumesRun, Resumable, Saved
    <2>2. step' \in Nat /\ step' <= MaxStep
      BY <2>1, StepNumbers DEF Saved
    <2> QED
      BY <1>1, <1>2, <1>4, <2>2
      DEF ResumesRun, Resumable, RunRank, Before, StageRank
  <1>5. CASE TrainsStep
    <2>1. place' \in {"publishing", "training"} /\ step' = step + 1
          /\ place = "training"
      BY <1>5 DEF TrainsStep
    <2> QED
      BY <1>1, <1>2, <2>1 DEF RunRank, Before, StageRank
  <1>6. CASE Restores \/ Publishes \/ Retains \/ Loads \/ Stores
    <2>1. step' = step
      BY <1>6 DEF Restores, Publishes, Retains, Loads, Stores
    <2>2. \/ place = "restoring" /\ place' = "training"
          \/ place = "publishing" /\ place' = "retaining"
          \/ place = "retaining" /\ place' = "loading"
          \/ place = "loading" /\ place' = "storing"
          \/ place = "storing" /\ place' = "training"
      BY <1>6 DEF Restores, Publishes, Retains, Loads, Stores
    <2> QED
      BY <1>1, <1>2, <2>1, <2>2 DEF RunRank, Before, StageRank
  <1>7. CASE CompletesRun
    BY <1>1, <1>2, <1>7 DEF CompletesRun, RunRank, Before, StageRank
  <1> QED
    BY <1>3, <1>4, <1>5, <1>6, <1>7 DEF Works

LEMMA BeforeIsNat ==
  ASSUME NEW n \in 0..MaxStep
  PROVE  8 * (MaxStep - n) \in Nat /\ 8 * (MaxStep - 0) \in Nat
  <1>1. MaxStep \in Nat /\ n \in Nat /\ n <= MaxStep
    BY StepNumbers
  <1>2. MaxStep - n \in Nat /\ MaxStep - 0 \in Nat
    BY <1>1
  <1> QED
    BY <1>2

LEMMA RunGoesOnStep ==
  TrainingIInv /\ PastTop /\ [TrainingNext]_trainingVars
    => [RunNearsEnd]_trainingVars
  <1> SUFFICES ASSUME TrainingIInv, PastTop, TrainingNext, limit > 1
               PROVE  /\ RunRank' \in Nat
                      /\ Works => RunRank' < RunRank /\ faults' = faults
                      /\ ~Works => faults' = faults + 1 /\ faults' <= MaxFaults
    BY DEF RunNearsEnd
  <1>1. TrainingIInv'
    BY TrainingStep
  <1>2. step' \in 0..MaxStep /\ MaxStep \in Nat
    BY <1>1, StepNumbers DEF TrainingIInv, TrainingTypeOK
  <1>3. RunRank' \in Nat
    <2>1. Before(step)' \in Nat /\ Before(0)' \in Nat
      BY <1>2, BeforeIsNat DEF Before
    <2>2. StageRank' \in Nat
      BY DEF StageRank
    <2> HIDE DEF Before, StageRank
    <2> QED
      BY <2>1, <2>2 DEF RunRank
  <1>4. Works => RunRank' < RunRank /\ faults' = faults
    BY WorksNearEnd
  <1>5. ~LoadFails
    BY SaveIsThere DEF LoadFails
  <1>6. ~Works => faults' = faults + 1 /\ faults' <= MaxFaults
    <2>1. ~Works => Breaks \/ BreaksRetaining
      BY <1>5 DEF TrainingNext
    <2>2. faults' \in 0..MaxFaults
      BY <1>1 DEF TrainingIInv, TrainingTypeOK
    <2> QED
      BY <2>1, <2>2, StepNumbers DEF Breaks, BreaksRetaining
  <1> QED
    BY <1>3, <1>4, <1>6

LEMMA NoOtherStop ==
  TrainingIInv /\ PastTop => OnlyStuckRunsStop
  <1> SUFFICES ASSUME TrainingIInv, PastTop, limit > 1,
                      runStatus # "COMPLETED", ~Stuck
               PROVE  CanWork
    BY DEF OnlyStuckRunsStop
  <1>1. CASE place = "off"
    <2>1. runStatus \in RunStatuses
      BY DEF TrainingIInv, TrainingTypeOK
    <2> QED
      BY <1>1, <2>1 DEF Stuck, CanWork, RunStatuses
  <1>2. CASE place = "loading"
    BY <1>2, SaveIsThere DEF CanWork
  <1>3. CASE place \notin {"off", "loading"}
    BY <1>3 DEF CanWork
  <1> QED
    BY <1>1, <1>2, <1>3

\* What RunCompletes rests on, short of fairness: with room for two checkpoints
\* a run that has not completed goes on or is resumed, or is stuck by a kill, by
\* having no checkpoint or by one in pieces; every step of a process brings it
\* nearer to its end, whichever checkpoint it was resumed from, and only the
\* faults do not (_mark_best_and_retain, resume_run).
THEOREM RunsGoOn ==
  TrainingSpec => []OnlyStuckRunsStop /\ [][RunNearsEnd]_trainingVars
  <1>1. TrainingInit => PastTop
    BY DEF TrainingInit, PastTop
  <1>2. TrainingIInv /\ PastTop /\ [TrainingNext]_trainingVars => PastTop'
    BY PastTopKept
  <1> QED
    BY <1>1, <1>2, RunGoesOnStep, NoOtherStop, TrainingInvariant, PTL
    DEF TrainingSpec
=============================================================================
