--------------------------- MODULE ConversionJob ---------------------------
(***************************************************************************)
(* The life of one conversion job in the distributed runtime: the row of   *)
(* the `conversions` table, the DOCX at its stored_docx_path, the requests *)
(* the worker API serves concurrently for that job, and the workers that   *)
(* send them.                                                              *)
(*                                                                         *)
(* Every action is one SQLite transaction, one file-system step or one     *)
(* read of the row: between two of them any other request, a crash of the  *)
(* server or of a worker, or a user's cancel may happen.  A request keeps  *)
(* what it read in call[c]; the row may have changed when it acts on it.   *)
(*                                                                         *)
(* Claim tokens are random; a claim's token is modelled by its attempt     *)
(* number, which transition_conversion increments with every new token.    *)
(* 0 is the empty token.  updated_at is modelled by `fresh`: the calls     *)
(* whose observed updated_at is still the row's.                           *)
(***************************************************************************)
EXTENDS Naturals

CONSTANTS
    Workers,     \* worker names
    Calls,       \* request slots of the server's thread pool
    MaxClaims,   \* bound on the claims of one job (claims are unbounded in the code)
    DiskErrors,  \* whether a stored DOCX may become unreadable
    NoWorker,    \* worker_name IS NULL
    NoCall       \* a worker that waits for no reply

ASSUME MaxClaimsAssumption == MaxClaims \in Nat \ {0}
ASSUME DiskErrorsAssumption == DiskErrors \in BOOLEAN
ASSUME NoWorkerAssumption == NoWorker \notin Workers
ASSUME NoCallAssumption == NoCall \notin Calls

VARIABLES
    status,    \* conversions.status
    owner,     \* conversions.worker_name
    token,     \* conversions.claim_token
    claims,    \* conversions.attempt_count
    intended,  \* conversions.intended_final_status
    scores,    \* the claim whose quality scores the row carries, 0 when cleared
    file,      \* the DOCX at stored_docx_path: the claim that wrote it
    fresh,     \* calls that have seen the current updated_at
    call,      \* requests in progress in the server
    worker,    \* the RQ workers
    acked      \* claims whose upload was answered with 200 (history)

rowVars == <<status, owner, token, claims, intended, scores>>
vars == <<status, owner, token, claims, intended, scores, file, fresh, call,
          worker, acked>>

-----------------------------------------------------------------------------
(* Status machine of database.py *)

Outcomes == {"completed", "manual_review"}

Statuses == {"pending", "processing", "finalizing", "failed", "cancelled"}
              \cup Outcomes

\* ALLOWED_STATUS_TRANSITIONS
Allowed(from, to) ==
    \/ from = "pending" /\ to \in {"processing", "failed", "cancelled"}
    \/ from = "processing" /\ to \in Statuses \ {"processing"}
    \/ from = "finalizing" /\ to \in {"processing", "failed"} \cup Outcomes
    \/ from \in {"failed", "cancelled"} /\ to = "pending"

\* Mutant: a delivered job can still be cancelled.
CanTransitionOrCancel(target) ==
    target \in {status, "cancelled"} \/ Allowed(status, target)

\* The check of transition_conversion: the same status is always accepted.
CanTransition(target) ==
    target = status \/ Allowed(status, target)

Tokens == 1..MaxClaims
NoFile == 0
Corrupt == MaxClaims + 1

\* Database.claim_matches on the row as it stands; an empty stored token
\* accepts any token of the same worker.
ClaimMatches(w, t) == owner = w /\ (token = 0 \/ t = token)

-----------------------------------------------------------------------------
(* Requests and workers *)

Ops == {"none", "start", "heartbeat", "result", "failure", "view", "retry"}

Points == {"idle", "read", "look", "adopt", "abandon", "reread", "expire",
           "recheck", "requeue", "claim", "answer", "beat", "prepare",
           "replace", "rollback", "complete", "fail"}

\* by, tok, want: what the message carries; own, seen: the worker_name and
\* claim_token of the row when the call read it.
Requests == [op: Ops, at: Points, by: Workers \cup {NoWorker},
             tok: 0..MaxClaims, want: Outcomes \cup {"none"},
             own: Workers \cup {NoWorker}, seen: 0..MaxClaims]

Idle == [op |-> "none", at |-> "idle", by |-> NoWorker, tok |-> 0,
         want |-> "none", own |-> NoWorker, seen |-> 0]

Message(op, w, t, want) ==
    [op |-> op, at |-> "read", by |-> w, tok |-> t, want |-> want,
     own |-> NoWorker, seen |-> 0]

Modes == {"idle", "starting", "fetching", "running", "uploading", "broken",
          "failing"}

WorkerStates == [mode: Modes, tok: 0..MaxClaims, on: Calls \cup {NoCall}]

Asleep == [mode |-> "idle", tok |-> 0, on |-> NoCall]

\* run_remote_job after a reply (or an exception): a failed start or upload
\* is reported with client.fail, a failed report is only logged.
AfterReply(s, ok, t) ==
    IF s.mode = "failing" \/ (s.mode = "uploading" /\ ok)
      THEN Asleep
      ELSE IF s.mode = "starting" /\ ok
             THEN [mode |-> "fetching", tok |-> IF t # 0 THEN t ELSE s.tok,
                   on |-> NoCall]
             ELSE [mode |-> "broken", tok |-> s.tok, on |-> NoCall]

\* The call ends; the worker that still waits for it gets the answer.
Reply(c, ok, t) ==
    /\ call' = [call EXCEPT ![c] = Idle]
    /\ worker' = [w \in Workers |-> IF worker[w].on = c
                                      THEN AfterReply(worker[w], ok, t)
                                      ELSE worker[w]]

Goto(c, point) ==
    /\ call' = [call EXCEPT ![c].at = point]
    /\ UNCHANGED worker

\* The call keeps the row it has just read, updated_at included.
GotoWithRow(c, point) ==
    /\ call' = [call EXCEPT ![c] =
                   [op |-> call[c].op, at |-> point, by |-> call[c].by,
                    tok |-> call[c].tok, want |-> intended,
                    own |-> owner, seen |-> token]]
    /\ fresh' = fresh \cup {c}
    /\ UNCHANGED worker

\* A transaction sets updated_at: no earlier observation of it is current.
Touch == fresh' = {}

Forget(c) == fresh' = fresh \ {c}

-----------------------------------------------------------------------------
(* Row updates shared by several handlers *)

\* transition_conversion(target) without a worker name.
MoveTo(target) ==
    /\ CanTransition(target)
    /\ status' = target
    /\ Touch
    /\ UNCHANGED <<owner, token, claims, intended, scores>>

\* The columns the finalization calls clear when they give the job back.
ClearResult == intended' = "none" /\ scores' = 0

\* Mutant: prepare_conversion_finalization without its status predicate.
OwnsClaim(w, t) == owner = w /\ token = t

\* The WHERE clause of prepare_conversion_finalization.
OwnsProcessing(w, t) == status = "processing" /\ owner = w /\ token = t

\* Mutant: only the worker's name is compared.
NamesFinalization(w, t) == status = "finalizing" /\ owner = w

\* The WHERE clause of complete_ and rollback_conversion_finalization.
OwnsFinalization(w, t) == status = "finalizing" /\ owner = w /\ token = t

\* Mutant: the UPDATE of a recovery drops its updated_at predicate.
AnyRow(c) == TRUE

\* The updated_at predicate of the abandon_ updates.
StillAsRead(c) == c \in fresh

\* Mutant: a row that has been claimed before keeps its token.
ReuseToken(w) ==
    /\ status' = "processing" /\ owner' = w
    /\ claims' = claims + 1 /\ token' = token

\* The columns of a new claim.
GrantClaim(w) ==
    /\ status' = "processing" /\ owner' = w
    /\ claims' = claims + 1 /\ token' = claims + 1

\* Mutant: the status that is set goes to the intended status too.
SealAsFinalizing(t, want) ==
    status' = "finalizing" /\ intended' = "finalizing" /\ scores' = t

\* Mutant: the intended status is not stored.
SealWithoutIntent(t, want) ==
    status' = "finalizing" /\ intended' = intended /\ scores' = t

\* The columns prepare_conversion_finalization writes.
Seal(t, want) ==
    status' = "finalizing" /\ intended' = want /\ scores' = t

\* Mutant: whatever was announced, the job ends completed.
DeliverCompleted(outcome) ==
    /\ status' = "completed"
    /\ intended' = "none"
    /\ Touch
    /\ UNCHANGED <<owner, token, claims, scores>>

\* The columns complete_conversion_finalization writes.
Deliver(outcome) ==
    /\ status' = outcome
    /\ intended' = "none"
    /\ Touch
    /\ UNCHANGED <<owner, token, claims, scores>>

-----------------------------------------------------------------------------
(* The worker side: run_remote_job and WorkerApiClient *)

\* A message takes a free request slot of the server.
Send(w, c, op, t, want, mode) ==
    /\ call[c] = Idle
    /\ call' = [call EXCEPT ![c] = Message(op, w, t, want)]
    /\ worker' = [worker EXCEPT ![w] = [mode |-> mode, tok |-> worker[w].tok,
                                         on |-> c]]
    /\ UNCHANGED <<rowVars, file, fresh, acked>>

\* RQ runs the job: at least once, and again on a retry or after a worker was
\* lost, so any idle worker may start.  client.start sends no claim token.
SendStart(w, c) ==
    /\ worker[w].mode = "idle"
    /\ Send(w, c, "start", 0, "none", "starting")

\* The endpoint also accepts a start that repeats the claim's token
\* (test_distributed_worker.py:872); the shipped client sends none.
SendRestart(w, c) ==
    /\ worker[w].mode \in {"fetching", "running"}
    /\ worker[w].tok # 0
    /\ Send(w, c, "start", worker[w].tok, "none", "starting")

\* download_input answers 409 unless the job is pending or processing.
Download(w) ==
    /\ worker[w].mode = "fetching"
    /\ worker' = [worker EXCEPT ![w].mode =
                     IF status \in {"pending", "processing"} THEN "running"
                                                             ELSE "broken"]
    /\ UNCHANGED <<rowVars, file, fresh, call, acked>>

\* The heartbeat thread: nothing waits for its answer.  It runs until the
\* failure report is through; a beat it sends then is one that was delayed.
SendHeartbeat(w, c) ==
    /\ worker[w].mode \in {"running", "uploading"}
    /\ call[c] = Idle
    /\ call' = [call EXCEPT ![c] = Message("heartbeat", w, worker[w].tok, "none")]
    /\ UNCHANGED <<rowVars, file, fresh, worker, acked>>

\* The status the server settles on from the uploaded quality scores.
SendResult(w, c) ==
    /\ worker[w].mode = "running"
    /\ \E want \in Outcomes :
          Send(w, c, "result", worker[w].tok, want, "uploading")

SendFailure(w, c) ==
    /\ worker[w].mode = "broken"
    /\ Send(w, c, "failure", worker[w].tok, "none", "failing")

\* The download or the conversion raises, or a request times out on the
\* client's side while the server goes on with it.
ConversionFails(w) ==
    /\ worker[w].mode \in {"fetching", "running"}
    /\ worker' = [worker EXCEPT ![w].mode = "broken"]
    /\ UNCHANGED <<rowVars, file, fresh, call, acked>>

RequestTimesOut(w) ==
    /\ worker[w].on # NoCall
    /\ worker' = [worker EXCEPT ![w] = AfterReply(@, FALSE, 0)]
    /\ UNCHANGED <<rowVars, file, fresh, call, acked>>

WorkerCrashes(w) ==
    /\ worker[w].mode # "idle"
    /\ worker' = [worker EXCEPT ![w] = Asleep]
    /\ UNCHANGED <<rowVars, file, fresh, call, acked>>

-----------------------------------------------------------------------------
(* start_job *)

\* The branch start_job takes on a row it has just read.
DispatchStart(c) ==
    \/ /\ status \in Outcomes \cup {"finalizing", "cancelled"}
       /\ Reply(c, FALSE, 0)
       /\ UNCHANGED fresh
    \/ /\ status = "failed"
       /\ Goto(c, "requeue")
       /\ UNCHANGED fresh
    \/ /\ status = "pending"
       /\ Goto(c, "claim")
       /\ UNCHANGED fresh
    \/ /\ status = "processing"
       /\ ClaimMatches(call[c].by, call[c].tok)
       /\ Goto(c, "beat")
       /\ UNCHANGED fresh
    \/ /\ status = "processing"
       /\ ~ClaimMatches(call[c].by, call[c].tok)
       /\ \/ Reply(c, FALSE, 0) /\ UNCHANGED fresh   \* heartbeat recent enough
          \/ GotoWithRow(c, "expire")                \* _processing_is_stale

StartReads(c) ==
    /\ call[c].op = "start" /\ call[c].at = "read"
    /\ IF status = "finalizing" THEN GotoWithRow(c, "look") ELSE DispatchStart(c)
    /\ UNCHANGED <<rowVars, file, acked>>

\* _recover_stale_processing_job: revoke the claim unless the row was touched
\* since it was read, then read it again.
Expire(c) ==
    /\ call[c].at = "expire"
    /\ IF status = "processing" /\ StillAsRead(c)
         THEN /\ status' = "pending" /\ owner' = NoWorker /\ token' = 0
              /\ Touch
              /\ UNCHANGED <<claims, intended, scores>>
         ELSE UNCHANGED <<rowVars, fresh>>
    /\ Goto(c, "recheck")
    /\ UNCHANGED <<file, acked>>

Recheck(c) ==
    /\ call[c].at = "recheck"
    /\ IF status = "pending" THEN Goto(c, "claim") ELSE Reply(c, FALSE, 0)
    /\ UNCHANGED <<rowVars, file, fresh, acked>>

\* transition_conversion(job, "pending"), by start_job for a failed row and by
\* retry_user_document for a failed or cancelled one.
Requeue(c) ==
    /\ call[c].at = "requeue"
    /\ \/ /\ MoveTo("pending")
          /\ IF call[c].op = "start" THEN Goto(c, "claim") ELSE Reply(c, TRUE, 0)
       \/ /\ ~CanTransition("pending")
          /\ Reply(c, FALSE, 0)
          /\ UNCHANGED <<rowVars, fresh>>
    /\ UNCHANGED <<file, acked>>

\* transition_conversion(job, "processing", worker_name)
Claim(c) ==
    /\ call[c].at = "claim"
    /\ \/ /\ status # "processing" /\ CanTransition("processing")
          /\ claims < MaxClaims
          /\ GrantClaim(call[c].by)
          /\ Touch
          /\ Goto(c, "answer")
          /\ UNCHANGED <<intended, scores>>
       \/ /\ status = "processing" /\ owner \in {NoWorker, call[c].by}
          /\ owner' = call[c].by
          /\ Touch
          /\ Goto(c, "answer")
          /\ UNCHANGED <<status, token, claims, intended, scores>>
       \/ /\ IF status = "processing" THEN owner \notin {NoWorker, call[c].by}
                                      ELSE ~CanTransition("processing")
          /\ Reply(c, FALSE, 0)
          /\ UNCHANGED <<rowVars, fresh>>
    /\ UNCHANGED <<file, acked>>

\* The closing get_job: the token of the row as it is now.
Answer(c) ==
    /\ call[c].at = "answer"
    /\ Reply(c, TRUE, token)
    /\ UNCHANGED <<rowVars, file, fresh, acked>>

-----------------------------------------------------------------------------
(* _recover_finalizing_result: start_job and the guest's status and download *)

\* get_guest_job and download_guest_result
SendView(c) ==
    /\ call[c] = Idle
    /\ call' = [call EXCEPT ![c] = Message("view", NoWorker, 0, "none")]
    /\ UNCHANGED <<rowVars, file, fresh, worker, acked>>

ViewReads(c) ==
    /\ call[c].op = "view" /\ call[c].at = "read"
    /\ IF status = "finalizing"
         THEN GotoWithRow(c, "look")
         ELSE Reply(c, TRUE, 0) /\ UNCHANGED fresh
    /\ UNCHANGED <<rowVars, file, acked>>

\* Mutant: a missing file passes for a valid one.
NotCorrupt == file # Corrupt

\* target.is_file() and _validate_docx_file
HasResult == file \in Tokens

\* Is there a valid DOCX?  Without one a finalization that is old enough is
\* abandoned; a younger one is left alone (409, or 503 for a corrupt file).
Look(c) ==
    /\ call[c].at = "look"
    /\ \/ HasResult /\ Goto(c, "adopt") /\ UNCHANGED fresh
       \/ ~HasResult /\ Goto(c, "abandon") /\ UNCHANGED fresh  \* stale
       \/ ~HasResult /\ Reply(c, FALSE, 0) /\ Forget(c)
    /\ UNCHANGED <<rowVars, file, acked>>

\* complete_conversion_finalization with the row's own claim and status
Adopt(c) ==
    /\ call[c].at = "adopt"
    /\ \/ /\ OwnsFinalization(call[c].own, call[c].seen)
          /\ Deliver(call[c].want)
          /\ Reply(c, call[c].op = "view", 0)
       \/ /\ ~OwnsFinalization(call[c].own, call[c].seen)
          /\ Goto(c, "reread")
          /\ UNCHANGED <<rowVars, fresh>>
    /\ UNCHANGED <<file, acked>>

\* abandon_conversion_finalization, if updated_at is still the observed one
Abandon(c) ==
    /\ call[c].at = "abandon"
    /\ IF status = "finalizing" /\ StillAsRead(c)
         THEN /\ status' = "pending" /\ owner' = NoWorker /\ token' = 0
              /\ ClearResult
              /\ Touch
              /\ UNCHANGED claims
         ELSE UNCHANGED <<rowVars, fresh>>
    /\ Goto(c, "reread")
    /\ UNCHANGED <<file, acked>>

Reread(c) ==
    /\ call[c].at = "reread"
    /\ IF call[c].op = "start" THEN DispatchStart(c)
                               ELSE Reply(c, TRUE, 0) /\ UNCHANGED fresh
    /\ UNCHANGED <<rowVars, file, acked>>

-----------------------------------------------------------------------------
(* heartbeat *)

HeartbeatReads(c) ==
    /\ call[c].op = "heartbeat" /\ call[c].at = "read"
    /\ IF ClaimMatches(call[c].by, call[c].tok) THEN Goto(c, "beat")
                                                ELSE Reply(c, FALSE, 0)
    /\ UNCHANGED <<rowVars, file, fresh, acked>>

\* Database.heartbeat knows the worker's name only
Beat(c) ==
    /\ call[c].at = "beat"
    /\ \/ /\ status = "processing" /\ owner \in {NoWorker, call[c].by}
          /\ owner' = call[c].by
          /\ Touch
          /\ IF call[c].op = "start" THEN Goto(c, "answer") ELSE Reply(c, TRUE, 0)
          /\ UNCHANGED <<status, token, claims, intended, scores>>
       \/ /\ ~(status = "processing" /\ owner \in {NoWorker, call[c].by})
          /\ Reply(c, FALSE, 0)
          /\ UNCHANGED <<rowVars, fresh>>
    /\ UNCHANGED <<file, acked>>

-----------------------------------------------------------------------------
(* upload_result *)

\* The ownership check, then the validation of the body, which may refuse it.
ResultReads(c) ==
    /\ call[c].op = "result" /\ call[c].at = "read"
    /\ \/ status = "processing" /\ ClaimMatches(call[c].by, call[c].tok)
          /\ Goto(c, "prepare")
       \/ Reply(c, FALSE, 0)
    /\ UNCHANGED <<rowVars, file, fresh, acked>>

\* prepare_conversion_finalization
Prepare(c) ==
    /\ call[c].at = "prepare"
    /\ \/ /\ OwnsProcessing(call[c].by, call[c].tok)
          /\ Seal(call[c].tok, call[c].want)
          /\ Touch
          /\ Goto(c, "replace")
          /\ UNCHANGED <<owner, token, claims>>
       \/ /\ ~OwnsProcessing(call[c].by, call[c].tok)
          /\ Reply(c, FALSE, 0)
          /\ UNCHANGED <<rowVars, fresh>>
    /\ UNCHANGED <<file, acked>>

\* os.replace of the uploaded DOCX over stored_docx_path, or its OSError
Replace(c) ==
    /\ call[c].at = "replace"
    /\ \/ file' = call[c].tok /\ Goto(c, "complete")
       \/ UNCHANGED file /\ Goto(c, "rollback")
    /\ UNCHANGED <<rowVars, fresh, acked>>

\* rollback_conversion_finalization, then 503
Rollback(c) ==
    /\ call[c].at = "rollback"
    /\ IF OwnsFinalization(call[c].by, call[c].tok)
         THEN /\ status' = "processing"
              /\ ClearResult
              /\ Touch
              /\ UNCHANGED <<owner, token, claims>>
         ELSE UNCHANGED <<rowVars, fresh>>
    /\ Reply(c, FALSE, 0)
    /\ UNCHANGED <<file, acked>>

\* complete_conversion_finalization for the uploading claim
Complete(c) ==
    /\ call[c].at = "complete"
    /\ \/ /\ OwnsFinalization(call[c].by, call[c].tok)
          /\ Deliver(call[c].want)
          /\ acked' = acked \cup {call[c].tok}
          /\ Reply(c, TRUE, 0)
       \/ /\ ~OwnsFinalization(call[c].by, call[c].tok)
          /\ Reply(c, FALSE, 0)
          /\ UNCHANGED <<rowVars, fresh, acked>>
    /\ UNCHANGED file

-----------------------------------------------------------------------------
(* fail_job *)

FailReads(c) ==
    /\ call[c].op = "failure" /\ call[c].at = "read"
    /\ IF status = "processing" /\ ClaimMatches(call[c].by, call[c].tok)
         THEN Goto(c, "fail")
         ELSE Reply(c, status \in Outcomes \cup {"failed"}, 0)
    /\ UNCHANGED <<rowVars, file, fresh, acked>>

\* transition_conversion(job, "failed", worker_name): no claim is checked here
MarkFailed(c) ==
    /\ call[c].at = "fail"
    /\ \/ /\ CanTransition("failed")
          /\ status' = "failed" /\ owner' = call[c].by
          /\ Touch
          /\ Reply(c, TRUE, 0)
          /\ UNCHANGED <<token, claims, intended, scores>>
       \/ /\ ~CanTransition("failed")
          /\ Reply(c, FALSE, 0)
          /\ UNCHANGED <<rowVars, fresh>>
    /\ UNCHANGED <<file, acked>>

-----------------------------------------------------------------------------
(* The owner of the document *)

SendRetry(c) ==
    /\ call[c] = Idle
    /\ call' = [call EXCEPT ![c] = Message("retry", NoWorker, 0, "none")]
    /\ UNCHANGED <<rowVars, file, fresh, worker, acked>>

\* retry_user_document accepts failed and cancelled documents only
RetryReads(c) ==
    /\ call[c].op = "retry" /\ call[c].at = "read"
    /\ IF status \in {"failed", "cancelled"} THEN Goto(c, "requeue")
                                             ELSE Reply(c, FALSE, 0)
    /\ UNCHANGED <<rowVars, file, fresh, acked>>

\* cancel_user_document: its only check is the one of transition_conversion
Cancel ==
    /\ MoveTo("cancelled")
    /\ UNCHANGED <<file, call, worker, acked>>

-----------------------------------------------------------------------------
(* Faults *)

\* A transaction raises (the database is locked or unavailable): the request
\* ends with an error and the row as it was.
Transactions == {"adopt", "abandon", "expire", "requeue", "claim", "beat",
                 "prepare", "rollback", "complete", "fail"}

DatabaseError(c) ==
    /\ call[c].at \in Transactions
    /\ Reply(c, FALSE, 0)
    /\ Forget(c)
    /\ UNCHANGED <<rowVars, file, acked>>

\* The API process dies: the requests in progress are lost, row and file stay.
ServerCrashes ==
    /\ \E c \in Calls : call[c] # Idle
    /\ call' = [c \in Calls |-> Idle]
    /\ worker' = [w \in Workers |-> IF worker[w].on = NoCall THEN worker[w]
                                    ELSE AfterReply(worker[w], FALSE, 0)]
    /\ fresh' = {}
    /\ UNCHANGED <<rowVars, file, acked>>

\* The stored DOCX no longer validates.
FileCorrupts ==
    /\ DiskErrors
    /\ file \in Tokens
    /\ file' = Corrupt
    /\ UNCHANGED <<rowVars, fresh, call, worker, acked>>

-----------------------------------------------------------------------------
(* create_conversion has inserted the row *)
Init ==
    /\ status = "pending" /\ owner = NoWorker /\ token = 0 /\ claims = 0
    /\ intended = "none" /\ scores = 0
    /\ file = NoFile
    /\ fresh = {}
    /\ call = [c \in Calls |-> Idle]
    /\ worker = [w \in Workers |-> Asleep]
    /\ acked = {}

ServerStep(c) ==
    \/ StartReads(c) \/ Expire(c) \/ Recheck(c) \/ Requeue(c) \/ Claim(c)
    \/ Answer(c) \/ ViewReads(c) \/ Look(c) \/ Adopt(c) \/ Abandon(c)
    \/ Reread(c) \/ HeartbeatReads(c) \/ Beat(c) \/ ResultReads(c)
    \/ Prepare(c) \/ Replace(c) \/ Rollback(c) \/ Complete(c) \/ FailReads(c)
    \/ MarkFailed(c) \/ RetryReads(c)

WorkerStep(w) ==
    \/ \E c \in Calls : \/ SendStart(w, c) \/ SendRestart(w, c)
                        \/ SendHeartbeat(w, c) \/ SendResult(w, c)
                        \/ SendFailure(w, c)
    \/ Download(w) \/ ConversionFails(w) \/ RequestTimesOut(w)
    \/ WorkerCrashes(w)

UserStep == Cancel \/ \E c \in Calls : SendView(c) \/ SendRetry(c)

Fault == ServerCrashes \/ FileCorrupts \/ \E c \in Calls : DatabaseError(c)

Next ==
    \/ \E c \in Calls : ServerStep(c)
    \/ \E w \in Workers : WorkerStep(w)
    \/ UserStep
    \/ Fault

Spec == Init /\ [][Next]_vars
-----------------------------------------------------------------------------
(* Properties *)

\* Every variable holds what the columns, requests and workers can hold.
TypeOK ==
    /\ status \in Statuses
    /\ owner \in Workers \cup {NoWorker}
    /\ token \in 0..MaxClaims
    /\ claims \in 0..MaxClaims
    /\ intended \in Outcomes \cup {"none"}
    /\ scores \in 0..MaxClaims
    /\ file \in Tokens \cup {NoFile, Corrupt}
    /\ fresh \subseteq Calls
    /\ call \in [Calls -> Requests]
    /\ worker \in [Workers -> WorkerStates]
    /\ acked \subseteq Tokens

\* An active row is held by a named worker under the newest token issued: no
\* token of an earlier claim can pass claim_matches or a token-fenced UPDATE.
ActiveClaimIsNewest ==
    /\ token \in {0, claims}
    /\ status \in {"processing", "finalizing"} => token # 0 /\ owner \in Workers

\* A finalizing row names the status it is going to and carries the scores of
\* the claim that holds it, so that any request can finish it in its place
\* (_recover_finalizing_result answers 503 for ever otherwise).
FinalizingIsRecoverable ==
    status = "finalizing" => intended \in Outcomes /\ scores = token

\* A delivered job has a DOCX and the scores of the newest claim, whoever
\* completed it: the uploader or a request that recovered its finalization.
DeliveredResultExists ==
    status \in Outcomes => file # NoFile /\ scores = token /\ token = claims

\* A worker whose upload was answered with 200 is the one whose claim the
\* delivered row carries: at most one upload of a job is ever acknowledged.
AckedUploadWon ==
    \A t \in acked : status \in Outcomes /\ token = t /\ scores = t

\* completed and manual_review are final: no stale start, failure report,
\* retry, cancel, rollback or recovery reopens or rewrites the row.
DeliveredRowIsFinal == [][(status \in Outcomes) => rowVars' = rowVars]_vars

SawTheClaim ==
    \E c \in Calls : /\ call[c].at \in {"expire", "abandon"}
                     /\ call'[c] # call[c]
                     /\ call[c].seen = token /\ call[c].own = owner

Revoked == token # 0 /\ token' = 0 => SawTheClaim

\* A recovery (start_job on a silent worker's job, or a status request on an
\* old finalization) revokes only the claim it read, never one granted since.
RecoveryRevokesWhatItSaw == [][Revoked]_vars

-----------------------------------------------------------------------------
(* The job as a lease on its result: see ResultLease. *)

LeasePhase == IF status = "processing" THEN "held"
              ELSE IF status = "finalizing" THEN "sealed"
              ELSE IF status \in Outcomes THEN "delivered" ELSE "open"

Lease == INSTANCE ResultLease WITH
    phase   <- LeasePhase,
    holder  <- IF LeasePhase = "open" THEN 0 ELSE token,
    issued  <- claims,
    verdict <- IF LeasePhase = "sealed" THEN intended
               ELSE IF LeasePhase = "delivered" THEN status ELSE "none"

\* With its races, crashes and recoveries the job is still a lease: tokens are
\* granted in order, one holder at a time, and the only way to a delivery is
\* the verdict sealed by the current holder.
ImplementsLease == Lease!Spec

-----------------------------------------------------------------------------
(* What the code's comments and tests say and the code does not ensure *)

\* test_worker_start_cannot_steal_job_during_finalization: a start leaves a
\* finalizing job to the claim that is finalizing it.
FinalizationIsNotStolen ==
    [][status = "finalizing" /\ status' = "processing" => token' = token]_vars

\* test_duplicate_worker_result_upload_cannot_overwrite_winner: the DOCX of a
\* delivered job is not replaced by an upload that is answered with 409.
WinnerIsNotOverwritten == [][(status \in Outcomes) => file' = file]_vars
=============================================================================
