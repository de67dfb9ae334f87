--------------------------- MODULE DashboardTasks ---------------------------
(***************************************************************************)
(* The operations of the Lab dashboard: a confirmation plan is issued and  *)
(* consumed once (ConfirmationStore), the confirmed operation becomes a    *)
(* task with a record on disk and a future in a thread pool                *)
(* (OperationTaskService), and a pool thread runs it.  The user may cancel *)
(* at any time, a write may fail, and the service may end and start again. *)
(*                                                                         *)
(* The locks of the two services make each of their calls one step; a      *)
(* worker and the pool thread that runs it take theirs one at a time.      *)
(***************************************************************************)
EXTENDS Integers, FiniteSets

CONSTANTS
    Plans,      \* confirmation plans
    Requests,   \* threads of the web server that confirm a plan
    Tasks,
    PoolSize,   \* max_workers
    NoPlan

ASSUME TasksAssumption ==
    /\ PoolSize \in Nat \ {0} /\ IsFiniteSet(Tasks) /\ NoPlan \notin Plans

VARIABLES
    plan,        \* the record of each confirmation plan
    confirmed,   \* the plan a request has consumed and not yet enqueued
    status,      \* the status in each task's record, "none" without a record
    cancel,      \* cancel_requested
    future,      \* the future of each task, "none" after a restart
    thread,      \* where _run is
    origin,      \* the plan behind each task (history)
    inTime       \* tasks cancelled before the last look at it (history)

tasksVars == <<plan, confirmed, status, cancel, future, thread, origin, inTime>>
recordVars == <<status, cancel, origin, inTime>>

PlanStates == {"none", "issued", "expired", "used"}
Statuses == {"QUEUED", "RUNNING", "COMPLETED", "FAILED", "CANCELLED"}
Terminal == {"COMPLETED", "FAILED", "CANCELLED"}
Futures == {"none", "pending", "running", "cancelled", "done"}
Places == {"none", "checking", "starting", "working", "returned",
           "completing", "cancelling", "failing"}

-----------------------------------------------------------------------------
(* Confirmation plans *)

\* issue
Issues(p) ==
    /\ plan[p] = "none"
    /\ plan' = [plan EXCEPT ![p] = "issued"]
    /\ UNCHANGED <<confirmed, future, thread, recordVars>>

\* expires_at passes.
Expires(p) ==
    /\ plan[p] = "issued"
    /\ plan' = [plan EXCEPT ![p] = "expired"]
    /\ UNCHANGED <<confirmed, future, thread, recordVars>>

\* Mutant: a plan is not marked.
StillIssued(p) == plan[p] \in {"issued", "used"}

\* What consume asks of the record, besides kind and token
Consumable(p) == plan[p] = "issued"

\* consume
Consumes(r, p) ==
    /\ confirmed[r] = NoPlan /\ Consumable(p)
    /\ plan' = [plan EXCEPT ![p] = "used"]
    /\ confirmed' = [confirmed EXCEPT ![r] = p]
    /\ UNCHANGED <<future, thread, recordVars>>

\* A check after the confirmation refuses the operation, the record cannot be
\* written, or the request dies: the plan stays used.
Drops(r) ==
    /\ confirmed[r] # NoPlan
    /\ confirmed' = [confirmed EXCEPT ![r] = NoPlan]
    /\ UNCHANGED <<plan, future, thread, recordVars>>

\* enqueue: the record, then the future.
Enqueues(t, p) ==
    /\ status[t] = "none"
    /\ status' = [status EXCEPT ![t] = "QUEUED"]
    /\ future' = [future EXCEPT ![t] = "pending"]
    /\ origin' = [origin EXCEPT ![t] = p]
    /\ UNCHANGED <<plan, cancel, thread, inTime>>

EnqueuesConfirmed(r, t) ==
    /\ confirmed[r] # NoPlan
    /\ Enqueues(t, confirmed[r])
    /\ confirmed' = [confirmed EXCEPT ![r] = NoPlan]

\* Verification, quality runs and resumed trainings need no confirmation.
EnqueuesFreely(t) == Enqueues(t, NoPlan) /\ UNCHANGED confirmed

-----------------------------------------------------------------------------
(* _run, in a thread of the pool *)

Walks(t, from, to) ==
    /\ thread[t] = from
    /\ thread' = [thread EXCEPT ![t] = to]

Stays == UNCHANGED <<plan, confirmed>>

\* Mutant: the thread is not given back.
EndsAndHolds(t, from, end) ==
    /\ Walks(t, from, "none")
    /\ status' = [status EXCEPT ![t] = end]
    /\ UNCHANGED <<future, cancel, origin, inTime>> /\ Stays

\* The record takes its last status and the thread is free.
Ends(t, from, end) ==
    /\ Walks(t, from, "none")
    /\ status' = [status EXCEPT ![t] = end]
    /\ future' = [future EXCEPT ![t] = "done"]
    /\ UNCHANGED <<cancel, origin, inTime>> /\ Stays

PicksUp(t) ==
    /\ future[t] = "pending"
    /\ Cardinality({u \in Tasks : future[u] = "running"}) < PoolSize
    /\ future' = [future EXCEPT ![t] = "running"]
    /\ Walks(t, "none", "checking")
    /\ UNCHANGED recordVars /\ Stays

\* raise_if_cancelled, before the worker is called ...
ChecksFirst(t) ==
    /\ Walks(t, "checking", IF cancel[t] THEN "cancelling" ELSE "starting")
    /\ UNCHANGED <<future, recordVars>> /\ Stays

Starts(t) ==
    /\ Walks(t, "starting", "working")
    /\ status' = [status EXCEPT ![t] = "RUNNING"]
    /\ UNCHANGED <<cancel, future, origin, inTime>> /\ Stays

\* The worker returns, raises, or looks at cancelled() and stops.
WorkerReturns(t) ==
    Walks(t, "working", "returned") /\ UNCHANGED <<future, recordVars>> /\ Stays

WorkerRaises(t) ==
    Walks(t, "working", "failing") /\ UNCHANGED <<future, recordVars>> /\ Stays

WorkerStops(t) ==
    /\ cancel[t] /\ Walks(t, "working", "cancelling")
    /\ UNCHANGED <<future, recordVars>> /\ Stays

\* Mutant: a result is always kept.
KeepsResult(t) == "completing"

AfterWork(t) == IF cancel[t] THEN "cancelling" ELSE "completing"

\* ... and once more after it.
ChecksLast(t) ==
    /\ Walks(t, "returned", AfterWork(t))
    /\ UNCHANGED <<future, recordVars>> /\ Stays

Completes(t) == Ends(t, "completing", "COMPLETED")
Cancels(t) == Ends(t, "cancelling", "CANCELLED")
Fails(t) == Ends(t, "failing", "FAILED")

\* A write of the record fails: the handler writes FAILED instead ...
WriteFails(t) ==
    /\ thread[t] \in {"starting", "completing"}
    /\ thread' = [thread EXCEPT ![t] = "failing"]
    /\ UNCHANGED <<future, recordVars>> /\ Stays

\* ... and when that fails too the record keeps the status it had.
LastWriteFails(t) ==
    /\ thread[t] \in {"cancelling", "failing"}
    /\ thread' = [thread EXCEPT ![t] = "none"]
    /\ future' = [future EXCEPT ![t] = "done"]
    /\ UNCHANGED recordVars /\ Stays

-----------------------------------------------------------------------------
(* The user and the service *)

\* Future.cancel
FutureCancels(t) == future[t] = "pending"

\* cancel: a request on the record, and the end of a task that has not begun.
UserCancels(t) ==
    /\ status[t] \in {"QUEUED", "RUNNING"}
    /\ cancel' = [cancel EXCEPT ![t] = TRUE]
    /\ IF FutureCancels(t)
         THEN /\ future' = [future EXCEPT ![t] = "cancelled"]
              /\ status' = [status EXCEPT ![t] = "CANCELLED"]
         ELSE UNCHANGED <<future, status>>
    /\ inTime' = IF thread[t] \in {"completing", "failing"}
                   THEN inTime ELSE inTime \cup {t}
    /\ UNCHANGED <<thread, origin>> /\ Stays

\* The write of cancel fails after the future was cancelled.
CancelIsLost(t) ==
    /\ status[t] \in {"QUEUED", "RUNNING"} /\ FutureCancels(t)
    /\ future' = [future EXCEPT ![t] = "cancelled"]
    /\ UNCHANGED <<thread, recordVars>> /\ Stays

\* Mutant: whatever has no result is failed.
NotCompleted(s) == s \in Statuses \ {"COMPLETED"}

Unfinished(s) == s \in {"QUEUED", "RUNNING"}

\* The service ends anywhere and starts again: _recover_unfinished.
Restarts ==
    /\ \E t \in Tasks : Unfinished(status[t])
    /\ status' = [t \in Tasks |-> IF Unfinished(status[t]) THEN "FAILED"
                                                           ELSE status[t]]
    /\ future' = [t \in Tasks |-> "none"]
    /\ thread' = [t \in Tasks |-> "none"]
    /\ confirmed' = [r \in Requests |-> NoPlan]
    /\ UNCHANGED <<plan, cancel, origin, inTime>>

-----------------------------------------------------------------------------
TasksInit ==
    /\ plan = [p \in Plans |-> "none"]
    /\ confirmed = [r \in Requests |-> NoPlan]
    /\ status = [t \in Tasks |-> "none"]
    /\ cancel = [t \in Tasks |-> FALSE]
    /\ future = [t \in Tasks |-> "none"]
    /\ thread = [t \in Tasks |-> "none"]
    /\ origin = [t \in Tasks |-> NoPlan]
    /\ inTime = {}

\* What a pool thread does by itself
Runs(t) ==
    \/ PicksUp(t) \/ ChecksFirst(t) \/ Starts(t)
    \/ WorkerReturns(t) \/ WorkerRaises(t) \/ WorkerStops(t) \/ ChecksLast(t)
    \/ Completes(t) \/ Cancels(t) \/ Fails(t)

TasksNext ==
    \/ \E p \in Plans : Issues(p) \/ Expires(p)
    \/ \E r \in Requests : \/ \E p \in Plans : Consumes(r, p)
                           \/ Drops(r)
                           \/ \E t \in Tasks : EnqueuesConfirmed(r, t)
    \/ \E t \in Tasks : \/ EnqueuesFreely(t) \/ Runs(t)
                        \/ WriteFails(t) \/ LastWriteFails(t)
                        \/ UserCancels(t) \/ CancelIsLost(t)
    \/ Restarts

\* A pool thread goes on, and a worker ends.
TasksFairness == \A t \in Tasks : WF_tasksVars(Runs(t))

TasksSpec == TasksInit /\ [][TasksNext]_tasksVars /\ TasksFairness

-----------------------------------------------------------------------------
(* Properties *)

\* The records, futures and threads hold what the code can put there, and a
\* thread is at work for a running future only.
TasksTypeOK ==
    /\ plan \in [Plans -> PlanStates]
    /\ confirmed \in [Requests -> Plans \cup {NoPlan}]
    /\ status \in [Tasks -> Statuses \cup {"none"}]
    /\ cancel \in [Tasks -> BOOLEAN]
    /\ future \in [Tasks -> Futures]
    /\ thread \in [Tasks -> Places]
    /\ origin \in [Tasks -> Plans \cup {NoPlan}]
    /\ inTime \in SUBSET Tasks
    /\ \A t \in Tasks : thread[t] # "none" => future[t] = "running"

\* A confirmation plan stands for one task at most, however many requests
\* present it at once (consume under the store's lock).
OneTaskPerPlan ==
    \A t, u \in Tasks : origin[t] = origin[u] /\ t # u => origin[t] = NoPlan

\* A task that was cancelled before its thread looked for the last time does
\* not end COMPLETED, whatever its worker returned (_run, cancel).
CancelInTimeHolds == \A t \in inTime : status[t] # "COMPLETED"

\* A record that says how a task ended is not changed again: not by a thread
\* that has yet to hear of the cancel, nor by a restart.
KeepsEnds ==
    \A t \in Tasks : status[t] \in Terminal => status'[t] = status[t]
EndIsFinal == [][KeepsEnds]_tasksVars

\* A task in the queue comes to an end, unless a write failed: then its record
\* waits for the next restart (_run, ThreadPoolExecutor).
LostWrite(t) == future[t] \in {"cancelled", "done"}

TaskEnds(t) == status[t] = "QUEUED" ~> status[t] \in Terminal \/ LostWrite(t)

QueuedTaskEnds == \A t \in Tasks : TaskEnds(t)

\* What a request and a cancel rely on (consume, cancel)
TasksHold == OneTaskPerPlan /\ CancelInTimeHolds
=============================================================================
