---------------------------- MODULE JobDispatch ----------------------------
(***************************************************************************)
(* How a pending conversion reaches a worker: the dispatchers of the API   *)
(* process (upload, retry, maintenance), the RQ job that stands for the    *)
(* conversion in Redis, the runs of it, and the user who cancels and       *)
(* retries.  The row's own races are the subject of ConversionJob; here a  *)
(* request to the worker API is one step.                                  *)
(*                                                                         *)
(* RQ is external: a job is created queued, popped by one worker, retried  *)
(* after an interval while it has retries left, stopped by a command that  *)
(* may find nobody, and taken back when its worker has disappeared.        *)
(***************************************************************************)
EXTENDS Naturals, FiniteSets

CONSTANTS
    Dispatchers,   \* threads of the API process that enqueue or cancel
    Workers,       \* RQ workers
    RetryCount,    \* job_retry_count
    UserSteps,     \* bound on the user's cancels and retries
    Nobody         \* the dispatch lock is free

ASSUME DispatchAssumption ==
    /\ IsFiniteSet(Dispatchers) /\ IsFiniteSet(Workers)
    /\ RetryCount \in Nat /\ UserSteps \in Nat
    /\ Nobody \notin Dispatchers

VARIABLES
    status,     \* conversions.status; "done" is completed or manual_review
    claim,      \* of a processing or finalizing row: held by a live run, orphaned, stale
    recorded,   \* rq_job_id is not empty
    rq,         \* status of the RQ job, "none" when Redis has no such job
    entries,    \* how often the job id is in the queue's list
    retries,    \* the RQ job's retries_left
    run,        \* what each worker does with the job
    stop,       \* a stop command is on its way
    lock,       \* holder of the Redis key <queue>:dispatch:<job_id>
    thread,     \* where each dispatcher is
    steps       \* cancels and retries so far

rowVars == <<status, claim, recorded>>
rqVars == <<rq, entries, retries, stop>>
vars == <<rowVars, rqVars, run, lock, thread, steps>>

Statuses == {"pending", "processing", "finalizing", "failed", "cancelled", "done"}
Waiting == {"queued", "started", "deferred", "scheduled"}
RqStatuses == {"none", "queued", "started", "scheduled", "failed", "finished",
               "stopped", "canceled"}
Runs == {"none", "start", "convert", "upload", "report", "raise"}
Steps == {"idle", "clear", "lock", "fetch", "replace", "create", "release",
          "record", "find", "withdraw"}

\* Between the setting of the lock and its release
Locked == {"fetch", "replace", "create", "release"}

-----------------------------------------------------------------------------
(* Dispatching: _dispatch_conversion_job and DistributedJobQueue.enqueue *)

At(d, here) == thread[d] = here
Go(d, there) == thread' = [thread EXCEPT ![d] = there]

\* Mutant: maintenance takes every pending row.
AnyPending == status = "pending"

\* re_dispatch_deferred_conversions skips rows that carry an rq_job_id.
Deferred == status = "pending" /\ ~recorded

MaintenanceScans(d) ==
    /\ At(d, "idle")
    /\ Deferred
    /\ Go(d, "lock")
    /\ UNCHANGED <<rowVars, rqVars, run, lock, steps>>

\* Mutant: the key is set without nx.
AlwaysFree == TRUE

LockIsFree == lock = Nobody

\* set(lock_key, nx=True, ex=30); a loser's dispatch is deferred.
TakesLock(d) ==
    /\ At(d, "lock") /\ LockIsFree
    /\ lock' = d
    /\ Go(d, "fetch")
    /\ UNCHANGED <<rowVars, rqVars, run, steps>>

LosesLock(d) ==
    /\ At(d, "lock") /\ ~LockIsFree
    /\ Go(d, "idle")
    /\ UNCHANGED <<rowVars, rqVars, run, lock, steps>>

\* fetch_job: a job that is still live is returned as it is.
Fetches(d) ==
    /\ At(d, "fetch")
    /\ \/ rq \in Waiting /\ Go(d, "release")
       \/ rq = "none" /\ Go(d, "create")
       \/ rq \notin Waiting \cup {"none"} /\ Go(d, "replace")
    /\ UNCHANGED <<rowVars, rqVars, run, lock, steps>>

\* existing.delete(): the job that was found, and its id in the list.
Deletes(d) ==
    /\ At(d, "replace")
    /\ rq' = "none" /\ entries' = 0
    /\ Go(d, "create")
    /\ UNCHANGED <<rowVars, retries, stop, run, lock, steps>>

\* queue.enqueue
Places(d) ==
    /\ At(d, "create")
    /\ rq' = "queued" /\ retries' = RetryCount /\ entries' = entries + 1
    /\ Go(d, "release")
    /\ UNCHANGED <<rowVars, stop, run, lock, steps>>

\* The lock's key is deleted (finally).
Releases(d) ==
    /\ At(d, "release")
    /\ lock' = Nobody
    /\ Go(d, "record")
    /\ UNCHANGED <<rowVars, rqVars, run, steps>>

\* update_conversion(rq_job_id)
Records(d) ==
    /\ At(d, "record")
    /\ recorded' = TRUE
    /\ Go(d, "idle")
    /\ UNCHANGED <<status, claim, rqVars, run, lock, steps>>

\* Redis fails, or its answer is lost: the dispatch is deferred, and the lock
\* is released, was never set, or is left behind.
RedisFails(d) ==
    /\ thread[d] \in Locked \cup {"lock", "find", "withdraw"}
    /\ Go(d, "idle")
    /\ lock' \in IF thread[d] \in Locked \/ (At(d, "lock") /\ LockIsFree)
                 THEN {d, Nobody} ELSE {lock}
    /\ UNCHANGED <<rowVars, rqVars, run, steps>>

\* Mutant: the key is set without ex.
NeverExpires == lock # Nobody /\ FALSE /\ UNCHANGED vars

\* Mutant: the key expires under a live dispatch.
ExpiresEarly ==
    /\ lock # Nobody
    /\ lock' = Nobody
    /\ UNCHANGED <<rowVars, rqVars, run, thread, steps>>

\* A lock left behind expires; a live dispatch is shorter than the 30 s.
LockExpires ==
    /\ lock # Nobody
    /\ thread[lock] \notin Locked
    /\ lock' = Nobody
    /\ UNCHANGED <<rowVars, rqVars, run, thread, steps>>

ServerCrashes ==
    /\ \E d \in Dispatchers : ~At(d, "idle")
    /\ thread' = [d \in Dispatchers |-> "idle"]
    /\ UNCHANGED <<rowVars, rqVars, run, lock, steps>>

-----------------------------------------------------------------------------
(* The user: retry_user_document and cancel_user_document *)

Retries(d) ==
    /\ At(d, "idle") /\ steps < UserSteps
    /\ status \in {"failed", "cancelled"}
    /\ status' = "pending" /\ claim' = "none"
    /\ steps' = steps + 1
    /\ Go(d, "clear")
    /\ UNCHANGED <<recorded, rqVars, run, lock>>

\* The previous RQ job's id is cleared before the new dispatch.
ClearsId(d) ==
    /\ At(d, "clear")
    /\ recorded' = FALSE
    /\ Go(d, "lock")
    /\ UNCHANGED <<status, claim, rqVars, run, lock, steps>>

Cancels(d) ==
    /\ At(d, "idle") /\ steps < UserSteps
    /\ status \in {"pending", "processing", "cancelled"}
    /\ status' = "cancelled" /\ claim' = "none"
    /\ steps' = steps + 1
    /\ Go(d, "find")
    /\ UNCHANGED <<recorded, rqVars, run, lock>>

\* DistributedJobQueue.cancel: a started job is sent a stop command ...
FindsJob(d) ==
    /\ At(d, "find")
    /\ stop' = (stop \/ rq = "started")
    /\ Go(d, IF rq \in {"none", "started"} THEN "idle" ELSE "withdraw")
    /\ UNCHANGED <<rowVars, rq, entries, retries, run, lock, steps>>

\* ... any other is cancelled, whatever it has become since: RQ writes the
\* status of a job that was deleted in the meantime too.
Withdraws(d) ==
    /\ At(d, "withdraw")
    /\ rq' = "canceled" /\ entries' = 0
    /\ Go(d, "idle")
    /\ UNCHANGED <<rowVars, retries, stop, run, lock, steps>>

-----------------------------------------------------------------------------
(* The runs: run_remote_job under an RQ worker, which writes the status of *)
(* the job at the end of a run even if the job was deleted meanwhile       *)

Enter(w, stage) == run' = [run EXCEPT ![w] = stage]

\* The claim of a run that ends without having given the row back.
Orphaned(w) == IF claim = "held" THEN "orphaned" ELSE claim

Pops(w) ==
    /\ run[w] = "none" /\ entries > 0
    /\ entries' = entries - 1
    /\ rq' = "started"
    /\ Enter(w, "start")
    /\ UNCHANGED <<rowVars, retries, stop, lock, thread, steps>>

\* start_job: the row is claimed, refused (409), or the server is not reached.
Claims(w) ==
    /\ run[w] = "start"
    /\ \/ status \in {"pending", "failed"}
       \/ status \in {"processing", "finalizing"} /\ claim = "stale"
    /\ status' = "processing" /\ claim' = "held"
    /\ Enter(w, "convert")
    /\ UNCHANGED <<recorded, rqVars, lock, thread, steps>>

\* start_job completes a finalization whose DOCX is in place, then refuses.
Adopts(w) ==
    /\ run[w] = "start" /\ status = "finalizing"
    /\ status' = "done" /\ claim' = "none"
    /\ Enter(w, "report")
    /\ UNCHANGED <<recorded, rqVars, lock, thread, steps>>

StartRefused(w) ==
    /\ run[w] = "start"
    /\ Enter(w, "report")
    /\ UNCHANGED <<rowVars, rqVars, lock, thread, steps>>

Converts(w) ==
    /\ run[w] = "convert"
    /\ Enter(w, "upload") \/ Enter(w, "report")
    /\ UNCHANGED <<rowVars, rqVars, lock, thread, steps>>

\* upload_result: delivered and answered; delivered and the answer lost; left
\* in finalization by a fault of the server; or refused.
Uploads(w) ==
    /\ run[w] = "upload"
    /\ \/ /\ status = "processing" /\ claim = "held"
          /\ status' = "done" /\ claim' = "none"
          /\ \/ Enter(w, "none") /\ rq' = "finished"
             \/ Enter(w, "report") /\ UNCHANGED rq
       \/ /\ status = "processing" /\ claim = "held"
          /\ status' = "finalizing" /\ claim' = "orphaned"
          /\ Enter(w, "report")
          /\ UNCHANGED rq
       \/ Enter(w, "report") /\ UNCHANGED <<status, claim, rq>>
    /\ UNCHANGED <<recorded, entries, retries, stop, lock, thread, steps>>

\* client.fail: the holder's row fails, any other is left alone.
Reports(w) ==
    /\ run[w] = "report"
    /\ \/ status = "processing" /\ claim = "held"
          /\ status' = "failed" /\ claim' = "none"
       \/ status' = status /\ claim' = Orphaned(w)
    /\ Enter(w, "raise")
    /\ UNCHANGED <<recorded, rqVars, lock, thread, steps>>

\* Mutant: one retry more than the job has.
TryOnceMore == rq' = "scheduled" /\ retries' = retries - 1

\* Retry(max=retry_count, interval=[30, 120]), or the job has failed.
TryAgain ==
    IF retries > 0 THEN rq' = "scheduled" /\ retries' = retries - 1
                   ELSE rq' = "failed" /\ UNCHANGED retries

Raises(w) ==
    /\ run[w] = "raise"
    /\ TryAgain
    /\ Enter(w, "none")
    /\ UNCHANGED <<rowVars, entries, stop, lock, thread, steps>>

\* The retry interval is over.  It is 30 s at least: a retry that was put off
\* after a dispatcher had fetched the job waits until the dispatch is over.
Reschedules ==
    /\ rq = "scheduled"
    /\ \A d \in Dispatchers : thread[d] \notin {"replace", "create"}
    /\ rq' = "queued" /\ entries' = entries + 1
    /\ UNCHANGED <<rowVars, retries, stop, run, lock, thread, steps>>

\* The stop command kills the run, or finds none.
Stops ==
    /\ stop
    /\ stop' = FALSE
    /\ \/ \E w \in Workers : /\ run[w] # "none"
                             /\ Enter(w, "none")
                             /\ rq' = "stopped"
                             /\ claim' = Orphaned(w)
       \/ UNCHANGED <<rq, run, claim>>
    /\ UNCHANGED <<status, recorded, entries, retries, lock, thread, steps>>

WorkerDies(w) ==
    /\ run[w] # "none"
    /\ Enter(w, "none")
    /\ claim' = Orphaned(w)
    /\ UNCHANGED <<status, recorded, rqVars, lock, thread, steps>>

\* RQ finds a started job that no worker executes.
Abandoned ==
    /\ rq = "started" /\ \A w \in Workers : run[w] = "none"
    /\ TryAgain
    /\ UNCHANGED <<rowVars, entries, stop, run, lock, thread, steps>>

\* CLOUDA_PROCESSING_STALE_SECONDS or CLOUDA_FINALIZING_STALE_SECONDS pass.
GrowsStale ==
    /\ claim = "orphaned"
    /\ claim' = "stale"
    /\ UNCHANGED <<status, recorded, rqVars, run, lock, thread, steps>>

-----------------------------------------------------------------------------
\* The upload has inserted the row and is about to dispatch it.
Init ==
    /\ status = "pending" /\ claim = "none" /\ recorded = FALSE
    /\ rq = "none" /\ entries = 0 /\ retries = 0 /\ stop = FALSE
    /\ run = [w \in Workers |-> "none"]
    /\ lock = Nobody
    /\ \E d \in Dispatchers :
          thread = [x \in Dispatchers |-> IF x = d THEN "lock" ELSE "idle"]
    /\ steps = 0

Dispatch(d) ==
    \/ MaintenanceScans(d) \/ TakesLock(d) \/ LosesLock(d) \/ Fetches(d)
    \/ Deletes(d) \/ Places(d) \/ Releases(d) \/ Records(d)
    \/ ClearsId(d) \/ FindsJob(d) \/ Withdraws(d)

Run(w) ==
    \/ Pops(w) \/ Claims(w) \/ Adopts(w) \/ StartRefused(w) \/ Converts(w)
    \/ Uploads(w) \/ Reports(w) \/ Raises(w)

Next ==
    \/ \E d \in Dispatchers :
          Dispatch(d) \/ Retries(d) \/ Cancels(d) \/ RedisFails(d)
    \/ \E w \in Workers : Run(w) \/ WorkerDies(w)
    \/ Reschedules \/ Stops \/ Abandoned \/ GrowsStale
    \/ LockExpires \/ ServerCrashes

\* The maintenance thread runs in every interval, Redis and the API are not
\* down for ever (a request to Redis that the dispatchers try again and again
\* succeeds for one of them), RQ's scheduler and workers keep working; nothing
\* is assumed of the users, of what the server answers or of how a conversion
\* ends.
Fairness ==
    /\ WF_vars(\E d \in Dispatchers : MaintenanceScans(d))
    /\ WF_vars(LockExpires)
    /\ \A d \in Dispatchers : WF_vars(Dispatch(d))
    /\ SF_vars(\E d \in Dispatchers : TakesLock(d))
    /\ SF_vars(\E d \in Dispatchers : Fetches(d))
    /\ SF_vars(\E d \in Dispatchers : Deletes(d))
    /\ SF_vars(\E d \in Dispatchers : Places(d))
    /\ SF_vars(\E d \in Dispatchers : Releases(d))
    /\ SF_vars(\E d \in Dispatchers : Records(d))
    /\ \A w \in Workers : WF_vars(Run(w))
    /\ WF_vars(Reschedules) /\ WF_vars(Stops) /\ WF_vars(Abandoned)
    /\ WF_vars(GrowsStale)

Spec == Init /\ [][Next]_vars /\ Fairness

-----------------------------------------------------------------------------
(* Properties *)

\* Every variable holds what the row, Redis, the threads and the runs can hold.
TypeOK ==
    /\ status \in Statuses
    /\ claim \in {"none", "held", "orphaned", "stale"}
    /\ recorded \in BOOLEAN
    /\ rq \in RqStatuses
    /\ entries \in Nat
    /\ retries \in 0..RetryCount
    /\ run \in [Workers -> Runs]
    /\ stop \in BOOLEAN
    /\ lock \in Dispatchers \cup {Nobody}
    /\ thread \in [Dispatchers -> Steps]
    /\ steps \in 0..UserSteps

OnePlacement ==
    \A d \in Dispatchers :
        At(d, "create") /\ thread'[d] = "release" => entries' = 1

\* enqueue's lock: however dispatchers race, none of them pushes a job id that
\* is in the list already.
PlacedOnce == [][OnePlacement]_vars

QueuedIsNotDeleted == rq = "queued" => rq' # "none"

\* enqueue deletes the job it judged dead in a request of its own: none that
\* another dispatcher, or a retry of RQ, has queued since is deleted, so the
\* id of a placement that was answered does not lose its job to another one.
QueuedIsKept == [][QueuedIsNotDeleted]_vars

\* run_maintenance_cycle: a conversion whose dispatch was deferred, by Redis, a
\* lost lock or a crash anywhere in a dispatch, does not stay pending without
\* an RQ job for ever.
DeferredIsDispatched == Deferred ~> ~Deferred

\* However often runs fail, workers die and locks are lost, RQ and maintenance
\* do not run a conversion for ever: its runs end with its retries.
RunsEnd == <>[](\A w \in Workers : run[w] = "none")
=============================================================================
