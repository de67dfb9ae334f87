# Clouda OCR: TLA+ models, checks and proofs

This directory is a formal model of Clouda OCR, the Python system whose
repository it is kept beside. Every definition is translated from the source
(not from the documents), every action is one atomic step of the program, and
`PROJECT.json` says for each definition which lines it stands for. TLC checks
the models on small instances; TLAPS proves the theorems of the `*Proofs`
modules for every value of the constants.

How to read it: this file first, then `ResultLease` (what a conversion job
promises), `ConversionJob` (how the code keeps that promise) and
`ConversionJobProofs` (why). The other components can be read in any order:
`JobDispatch` (how a job reaches a worker), `PageConversion` (what a run does
with the pages), `GuestTrial` (trials without an account); the key router in
`RouterDispatch`, `Circuits` and `AccountSwitch`; the laboratory in
`DashboardTasks`, `TrainingRun` and `SampleLoader`; the data tools in
`FactoryRun`, `DatasetWorkspace`, `DistortionRun` and `ResultsStore`.

To run: `tlc -config ConversionJob.cfg MCConversionJob`,
`tlc -config KeyRouter.cfg MCKeyRouter`, `tlc -config Parts.cfg MCParts`, and so
on as `runs` of `PROJECT.json` lists them; `tlapm ConversionJobProofs.tla`.

## 1. The system

Clouda OCR turns scanned PDF documents into Word files. A Streamlit
application (`app.py`) and a FastAPI server (`pdfword/worker_api.py`) accept
documents and keep one row per conversion in SQLite (`pdfword/database.py`).
RQ workers (`pdfword/worker.py`, `pdfword/worker_tasks.py`) on other machines
fetch a conversion, render and read its pages and upload a DOCX over HTTP
(`pdfword/worker_client.py`). Cloud models used for hard pages or for teaching
go through a key router with accounts, limits, reservations and circuit
breakers (`pdfword/key_router`). Beside the product live a dataset factory
(`clouda_data`), a training runtime (`clouda_training`) and a laboratory
dashboard (`clouda_lab`).

| Component | State it keeps | Operations | Talks to | Hard part | What makes it correct |
|---|---|---|---|---|---|
| Conversion job claims and finalization (`pdfword/database.py`, `worker_api.py`, `worker_tasks.py`, `worker_client.py`) | row of `conversions` (status, worker_name, claim_token, attempt_count, intended_final_status, quality scores, updated_at), DOCX on disk | start, heartbeat, download input, upload result, fail, guest status and download, retry, cancel; recovery of silent claims and of interrupted finalizations | HTTP between workers and server, SQLite, files | every endpoint reads the row, decides, and writes in a later transaction; server and workers may die anywhere; late and repeated messages | one claim at a time, newest token wins; a delivery is final, has a file, and is acknowledged to its claim only; an interrupted finalization can be finished from the row and the file |
| Job dispatch over RQ (`job_queue.py` distributed part, `maintenance.py`, `worker.py`) | rq_job_id of the row, the RQ job, the queue's list, a Redis lock per job | enqueue, cancel, deferred dispatch, maintenance cycle, RQ retry | Redis and RQ, API threads, workers | three callers dispatch one job; Redis fails between any two commands; crash between enqueue and record | a job id is in the list once; a deferred dispatch is made up for; runs end |
| Key router: reservations and dispatch (`key_router/repository.py`, `service.py`, `retry.py`, `errors.py`) | `quota_runtime` counters per account, model and day; reservations with token, status and expiry; usage rows | select, reserve, mark dispatching, sent or uncertain, settle, release, retry, reconcile | SQLite shared by all processes using the keys | a request may be sent and its answer lost; reconciliation races settlement | counters agree with live reservations; a request is counted once; limits hold |
| Key router: circuit breakers (`repository.py`, `service.py`) | `key_router_circuits`, one row per provider and per model of one | list and ask before routing, half-open probes, failures, successes, an administrator's reset | same database | probes of several processes at once, failures in two windows, reports that come late or never | a circuit opens on a burst of failures only; probes stay within their number |
| Key router: account states, drain and switch (`service.py`, `state_machine.py`) | `account_runtime` row of a pool: state, active and pending account, switch id, epoch, version | drain, close, begin, complete and fail a switch | same database | each operation reads the row in one transaction and writes it in another; tickets of old switches | the pool takes over the account its current switch asked for |
| Guest trial (`guest_trial.py`, guest part of `worker_api.py` and `database.py`, `tenant_storage.py`) | guest_sessions, guest_jobs, the day's usage events, uploads and results on disk | create a session, start a trial, download once, claim into an account, sweep what has expired | API threads, the maintenance thread, conversions | reads in autocommit before a write; a sweep that selects, deletes and marks at three times; a day that ends while a request waits for the write lock | the result is sent once; a day's budget holds; nothing is swept before its time; a claimed job stays with its owner |
| Teacher pipeline (`teacher_pipeline`) | assignments, outputs, decisions with versions | assign, submit, decide, escalate | key router | optimistic versions | a decision is made once, of the version read |
| Conversion pipeline and page routing (`conversion_service.py`, `ocr_pipeline.py`, `page_routing.py`, `ocr_self_review.py`) | results and checkpoint of the pages, the row and the DOCX of a local run | analyse, trust the digital text or not, read with a model, review and reread, decide the outcome | OCR engines, `checkpoints.py`, the row | runs that die, fail, are cancelled and start over between two pages; engines that come and go | the outcome follows from all the pages; text is only shown where the analysis allows it |
| Authentication (`auth.py`, `captcha.py`) | users, sessions, failure counters | login, rotate, lock out, reset | SQLite | counters under concurrent logins | a used token is not used again |
| Self-learning and corrections | rules with statistics | propose, promote, apply | conversion results | repeated application | statistics agree with applications |
| Backup and restore (`backup.py`, `atomic.py`) | archive, manifest, live data, rollback copy | create, verify, restore | files | crash between renames | old or new data, never a mixture |
| Deletion of documents and temporary files (`storage.py`, `cleanup.py`) | paths, documents | delete | files, SQLite | row and file deleted in two steps | no row without a file |
| In-process queue and checkpoints (`job_queue.py` local part, `checkpoints.py`) | futures, cancel events, `checkpoint.json` | submit, cancel, load, save | threads | no production code submits to it; the checkpoint is part of `PageConversion` | a decided page stays decided |
| Training runs (`clouda_training/experiments`, `runtime/torch_backend.py`) | `status.json`, checkpoint directories, torch state | start, step, save, retain, interrupt, resume | files | a process that fails or is killed between two files, while it removes old checkpoints too | the best and the newest checkpoint are never lost |
| Dashboard tasks (`clouda_lab/dashboard`) | task records, futures, cancel flags, confirmation plans | issue, confirm, enqueue, run, cancel, recover | pool threads, web threads | completion races cancel; a restart; a write that fails | a plan is used once; a cancel in time holds; a task ends, once |
| Training data loading (`clouda_data/training_data`) | cursor, batches, prefetch queue, saved cursor | iterate, save, restore | trainer | a restart in the middle of a shard | each sample of an epoch once, in order |
| Distortion (`clouda_data/distortion`) | SQLite index of pages, JSONL manifest, images | run a batch, resume it | files | the index and the manifest are written apart; stale pages; two processes | nothing recorded is lost, retries are counted |
| Result store (`clouda_data/results`) | pages, predictions, metrics, summary, metadata of a run | append, finalize, mark | files, a lock | writers at once, retries, rows cut short | one row per identity; what was appended stays |
| Dataset factory (`clouda_data/factory`) | the folder of a run, its outputs, `manifest.jsonl` and `manifest.csv` | generate, resume, fold in what PDFs failed | files | the manifest is written at the end, from what was read at the start; outputs are lost, sources edited, processes die or work at once | what is listed was made and stays; a lone resume completes the run |
| Dataset preparation workspace (`clouda_data/pretraining`) | manifest of samples with duplicates and splits, export files | prepare, validate, normalize, dedupe, split, export | files | commands in any order on rows that earlier ones left; splits that are kept while what links samples changes; a command broken off between its files | nothing linked is in two splits; exports follow the manifest; a split moves nothing |
| Planner, adapters, lab statistics, contracts, tools, UI | none worth a model | pure computation and presentation | | | |

How they interact: the API server owns the row of a conversion; the dispatch
gives RQ a job id for it; a run of the RQ job speaks to the API only through
the worker endpoints, so the row's race conditions are all in
`ConversionJob`, and `JobDispatch` treats one endpoint call as one step. What a
run does between its start and its upload is `PageConversion`. The key router
shares nothing with them but the database file; inside it, a dispatch reserves
(`RouterDispatch`), asks and reports to circuits (`Circuits`) and uses the
account an administrator switched to (`AccountSwitch`), each in transactions
and tables of its own. A guest's trial is a conversion as well: `GuestTrial`
keeps of it only the promotion of the DOCX and the final status, which are what
the guest's side reads. In the laboratory a confirmed dashboard task starts a
training run, which reads its samples through the loader; the factory and
distortion make pages for it, a workspace splits samples into training, test and
holdout, and the result store keeps what models said of pages. These parts
meet only through finished files.

## 2. The modules

| Module | What it is |
|---|---|
| `ResultLease` | abstract specification: a job is leased, sealed by its holder, delivered once |
| `ConversionJob` | the row, the DOCX, the server's requests and the workers of one job; refines `ResultLease` |
| `JobDispatch` | dispatchers, Redis lock, RQ job, runs, cancels and retries of one job |
| `RouterDispatch` | the key router's dispatch loop and the reservation and quota tables |
| `Circuits` | the circuit breakers and the dispatches that ask and tell them |
| `AccountSwitch` | the row of an account pool and the operators who drain and switch it |
| `GuestTrial` | guest sessions, trials, budget, result token, claim and sweep |
| `PageConversion` | the pages of one conversion: route, reading, review, checkpoint, outcome |
| `DashboardTasks` | confirmation plans, task records, futures and pool threads |
| `TrainingRun` | one training run: status, checkpoints, retention, resume |
| `SampleLoader` | the order of training samples, the cursor, prefetch and restarts |
| `DistortionRun` | index, manifest and images of a distortion run and the batches on it |
| `ResultsStore` | the bundle of an inference run and the writers that ingest into it |
| `FactoryRun` | the folder of a factory run, its manifest and the processes that make and resume it |
| `DatasetWorkspace` | the manifest, splits and exports of a dataset, and the commands on them |
| `ConversionJobProofs`, `JobDispatchProofs`, `RouterDispatchProofs`, `PageConversionProofs` | inductive invariants and theorems of the module each is named after |
| `KeyRouterProofs` | the same for `AccountSwitch`, `Circuits` and the whole of `MCKeyRouter` |
| `LabProofs` | for `DashboardTasks` and `TrainingRun` |
| `StoresProofs` | for `GuestTrial`, `DistortionRun`, `SampleLoader` and the whole of `MCStores` |
| `RunFilesProofs` | for `ResultsStore`, `DatasetWorkspace`, `FactoryRun` and the whole of `MCParts` |
| `MCKeyRouter` | the three parts of the key router, one in each behaviour |
| `MCParts` | parts that work for themselves (pages, tasks, training, results, factory, dataset), one in each behaviour |
| `MCStores` | the guest trial, a distortion run and the loader, one in each behaviour |
| other `MC*` | symmetry sets for TLC; the `.cfg` files give the constants their values |

`MCKeyRouter`, `MCParts` and `MCStores` check several modules in one run. Their parts share
no state and no step, so an interleaving of two of them shows nothing that each
does not show alone; the variable `subject` picks the part a behaviour is of and
the others stand still. Each part has a specification of its own (`CircuitsSpec`,
`SwitchSpec`, `PagesSpec`, `TasksSpec`, `TrainingSpec`, `LoaderSpec`,
`DistortionSpec`, `ResultsSpec`, `FactorySpec`, `DatasetSpec`), which is what most proofs are
about; that each behaviour of the run is a behaviour of one of its parts is
proved too (`RouterIsItsParts`, `StoresAreTheirParts`, `PartsAreSix`).

### 2.1 ConversionJob

State. `status`, `owner`, `token`, `claims`, `intended`, `scores` are columns
of the `conversions` row (`status`, `worker_name`, `claim_token`,
`attempt_count`, `intended_final_status`, the quality columns as "the claim
that wrote them"). `file` is the DOCX at `stored_docx_path`, as the claim whose
upload it came from, `NoFile` or `Corrupt`. `fresh` stands for `updated_at`: the
requests that have read the timestamp the row still has, which is all that the
conditional updates of the recoveries compare. `call` is one record per request
the server is serving (which endpoint, where in it, what the message carried,
what it read); `worker` is one record per RQ worker. `acked` is a history
variable: the claims whose upload was answered with 200. A random claim token
is modelled by the attempt number that `transition_conversion` writes with it.

Actions. One action is one transaction, one file step, or one read. A request
of `start_job` is `SendStart`, `DispatchStart`, `StartReads`, then according to
the row `Expire`/`Recheck`/`Requeue` (silent claim), `Look`/`Adopt`/`Abandon`/
`Reread` (interrupted finalization), `Claim` and `Answer`. An upload is
`SendResult`, `ResultReads`, `Prepare`, `Replace` (`os.replace`), `Rollback` or
`Complete`. `Heartbeat*`, `Fail*`, `SendRetry`/`RetryReads`, `Cancel` and
`SendView`/`ViewReads` are the other endpoints. `RequestTimesOut` lets the
worker go on while the server still works on its request; `WorkerCrashes`,
`ServerCrashes`, `DatabaseError` and `FileCorrupts` are the faults. RQ's
re-run of a job is `SendStart` by any idle worker; httpx's retry of a start is
`SendRestart`.

Abstractions. Validation of the payload (size, checksum, DOCX structure,
quality evidence) is `Corrupt` or not; the age of a claim is a free choice
whenever the code compares it with a limit; one job, since jobs share neither
row nor path.

### 2.2 JobDispatch

State. `status` and `recorded` (`rq_job_id` not empty) of the row; `claim`
says whether the claim of an active row belongs to a live run, to none, or is
old enough to be recovered; `rq`, `entries`, `retries`, `stop` are the RQ job,
its id in the queue's list, the retries it has left and a stop command under
way; `lock` is the Redis key `<queue>:dispatch:<job_id>`; `thread` is where
each dispatcher is in `_dispatch_conversion_job`,
`re_dispatch_deferred_conversions`, `retry_user_document` or
`cancel_user_document`; `run` is where each RQ worker is in `run_remote_job`;
`steps` bounds the user.

Actions. One Redis command or one transaction each for the dispatchers:
`MaintenanceScans`, `TakesLock`/`LosesLock`, `Fetches`, `Deletes`, `Places`,
`Releases`, `Records`, `RedisFails`; `Retries`, `ClearsId`; `Cancels`,
`FindsJob`, `Withdraws`. A dead RQ job is replaced in two commands, `Deletes`
(`existing.delete()`) and `Places` (`queue.enqueue`), with a failure or a crash
possible before, between and after them, and with the answer of any command
possibly lost after Redis obeyed it. A run that ends writes the status of its
RQ job again even if the job was deleted meanwhile. A run
is `Pops`, `Claims`/`Adopts`/`StartRefused`, `Converts`, `Uploads`, `Reports`,
`Raises`: one endpoint call is one step, its inner races being the subject of
`ConversionJob`. `TryAgain`, `Reschedules`, `Stops`, `Abandoned` are RQ, which
is external and modelled from how the code uses it (`Retry(max, interval)`,
`send_stop_job_command`, `job.cancel`, `delete`); a retry that waits for its
time (30 s at the least) does not come back within a dispatch that found the
job dead, which has the 30 s of its key at the most. `ServerCrashes`,
`WorkerDies`, `LockExpires`, `GrowsStale` are the environment.

### 2.3 RouterDispatch

State. `res` holds the row of `request_reservations` of each attempt (state,
account, day, whether the request was consumed); `windows`, `reserved` and
`consumed` are the `quota_runtime` rows; `at`, `tries`, `account`, `excluded`
are the local state of `KeyRouter.dispatch` and its `RetryState`; `received` is
a history variable of the requests that reached a provider; `today` is the UTC
day the windows are keyed by.

Actions. One transaction or the provider call each: `Selects`/`Exhausts`,
`Reserves`/`QuotaIsExceeded`, `MarksDispatching`, `Sends`, `MarksSent`,
`Succeeds`, `Fails`, `Releases`, `TurnsUncertain`; `Aborts` is a process that
dies, or an exception `dispatch` does not handle. `Expires` and
`GrowsUncertain` are one row of `reconcile_reservations`. `Midnight` is the
clock.

Abstractions. The quota is the daily number of requests; tokens and cost are
reserved, compared and consumed by the same statements. Which accounts the
selector finds eligible, and whether the retry policy allows a failover, is
left open: the properties hold whatever those filters answer.

### 2.4 GuestTrial

State. `session` and `row` are `guest_sessions` and `guest_jobs` (`owner` is
`owner_user_id` with `claimed_at`, `deleted` and `downloaded` are the two
timestamps as Booleans); `paid` is the time of the usage event of a trial, under
the id of the job the trial goes on to create; `conv` is the status of the
conversion and `news` says whose final status the guest's row does not have yet;
`path`, `pdf` and `docx` are where an upload was stored, whose upload is at a
path, and which results are on disk; `call` is one record per request in
progress; `sweep` is the list the maintenance thread works through; `clock` is
read wherever the code calls `utc_now`; `served` is a history variable.

Actions. `POST /guest/trial` is `StartsTrial`, `ReadsDay`, `TakesBudget`,
`StoresPdf`, `CreatesJob`, `CreatesConversion`: the day is read before the write
lock is there, and the expiry counts from the moment the file is stored. A
download is `StartsDownload`, `LooksAtResult`, `ConsumesToken`, `SendsResult`
(the file is opened last). A claim is `ReadsSession`, `ReadsJob`, `WritesClaim`:
Python's sqlite3 begins the transaction with the first UPDATE, so the two reads
are transactions of their own. `Selects`, `Unlinks`, `ExpiresJobs` are
`cleanup_expired_guest_jobs`, `SweepEnds` its end by an exception or with the
server, also between the two files of a job. `Ends` is any refusal, error or
death of a request.

Abstractions. All guests share one address and one budget, the case in which
they compete; every upload has the same file name, so that a guest's second one
finds the plain name taken (`FreePath`); the tests of the uploaded PDF, CSRF and
the deletion of temporary directories (`cleanup.py`) are left out.

### 2.5 Circuits

State. `circuit` holds the rows of `key_router_circuits`; a row that is not
there yet is the closed row `record_circuit_failure` would insert. Times are
kept as distances from now, capped where no test can tell them apart, so the
clock (`Tick`) needs no bound. `stage`, `todo`, `blocked`, `avoided` and
`target` are a dispatch's local state: which of the listed circuits it has
still to ask, those it found open, the providers its retry excludes, and the
endpoint it uses. `probing`, `failed` and `past` are history variables.

Actions. `Lists` reads the circuits, `AsksCircuit` is
`acquire_half_open_probe` for one of them, `Routes` and `RoutesNowhere` the
selection. A failed call reports to the provider's circuit (`ReportsProvider`)
and then to the model's (`ReportsModel`), each a transaction; a success goes
through both in a loop (`ReportsSuccess`). `FailsOtherwise` are the errors that
touch no circuit, `RoutesNowhere` is also a dispatch that raises or dies, at any
stage, `ResetsCircuit` is the administrator. What else makes an endpoint
ineligible is a free choice.

### 2.6 AccountSwitch

State. `runtime` is the row of one pool, `doing` the operation each operator is
in with the row it read, `ticket` the switch an operator was told of (`switch_id`
and `account_epoch` are set together, so one number stands for both); `asked`
and `dead` are history variables. Actions. Every operation is `ReadsRow`
(`ensure_runtime`, `validate_transition`, and for `complete_switch` the ticket)
and then `Writes` with the version predicate, or `Loses`.

### 2.7 PageConversion

State. A page is the set of facts its analysis finds (`evidence`) and whether
its digital text scores well (`legible`); `results` and `checkpoint` are its
`page_state`s, `docx` what the output file shows, `row` the status. Actions. A
run `BeginsRun` (loading the checkpoint of a local conversion), `SkipsPage` or
`DecidesPage` through every branch of `process_pdf`, reads regions again
(`RereadsRegion`, `ReconcilesPage`), `TellsStatus`, `WritesDocx` and
`EndsInOutcome`. `HearsCancel`, `RunFails`, `CancelsRun` and `RunDies` are the
environment; whether a run has an engine is chosen at its start.

### 2.8 DashboardTasks

State. `plan` are the records of `ConfirmationStore`, `confirmed` the plan a web
thread has consumed; `status` and `cancel` are a task's record, `future` and
`thread` the pool's side of it. Actions. The locks make every call of the two
services one step: `Issues`, `Consumes`, `Drops`, `Enqueues`; a pool thread
takes `PicksUp`, `ChecksFirst`, `Starts`, the worker's end, `ChecksLast` and
`Completes`/`Cancels`/`Fails` one by one, and `UserCancels` may come between any
two. `WriteFails`, `LastWriteFails`, `CancelIsLost` and `Restarts` are the
faults.

### 2.9 TrainingRun

State. `folder`, `loss` and `stored` are the checkpoint of each step: whole,
torn or absent, its metric, and the torch state named in it; `place`, `step` and
`weights` the process; `runStatus` is `status.json`. Actions. A save is
`Publishes` (the rename), `Retains` (the removal of old checkpoints), `Loads`
and `Stores` (the torch state is written into the published checkpoint).
`Breaks` and `BreaksRetaining` are failures, interruptions and kills, in the
middle of a removal as well; `ResumesRun`, `Restores`, `LoadFails` the resume.

### 2.10 SampleLoader

State. `visit` and `lines` are the shuffles, any there can be; `cursor` the
three positions that are saved, `gen` the running generator, `buffer` and
`queue` the batch being filled and those prefetched; `trained` what the model
has seen. Actions. `iter_samples` is `Opens`, `SkipsShard`, `Reads`, `EndsShard`,
`EndsEpoch`; `Puts` hands a batch on; `Saves` and `Crashes` are the checkpoint.
What came in the right order is said sample by sample (`Precedes`, `InOrder`,
`IsBeginning`), so that it can be proved without induction over sequences.

### 2.11 DistortionRun

State. `pageState`, `retryCount` and `errorSet` are the index rows, `manifest`
and `images` the files; `at`, `pageAt`, `records` a process in
`run_distortion_batch`. Actions. One SQL transaction or one file step each, in
the order of the loop: `Registers` (which recovers stale pages),
`SkipsRecorded`, `QueuesPage`, `Reopens`, `Claims`, `SavesImage`, `FindsImage`,
`RecordsPage`, `FinishesPage`, and the ends of a batch. Whether a page is stale
is a free choice.

### 2.12 ResultsStore

State. `rows` are the rows of the three files that a reader gets, `tornFile`
those files with a line that does not parse, `openEnd` those whose last line has
no end, `holder` the ingest lock, `writer` the call each writer is in.
Actions. A call is chosen (`AddsPages`, `AddsPrediction`, `Evaluates`,
`Finalizes`, `MarksRun`), takes the lock and reads, appends row by row
(`AppendsRow`, `PassesRow`, `RefusesRow`), returns, and a finalization goes on to
the summary and the metadata without the lock. `WriterDies` may cut a row short
anywhere (`append_jsonl` writes a row and its newline at once): a part of a row
does not parse; a row that lacks only its newline does, and a later append is
accepted and written on behind it (`Writes`), which makes one line of the two
that no reader parses.

### 2.13 FactoryRun

State. An item is a page in one variant; `output` says of each document (a
content, named by its hash) and item whether its files are absent, whole or
lost since; `listing` and `listingCsv` are the two forms of the manifest,
`runDir` how far the folder is; `maker` is a process: the rows it read, those it
made, what each source was when it was opened and what is left of it. `alone`
and `disturbed` are history: whether another process was at work with it, and
whether anything failed, was lost or was edited meanwhile. Actions. `Launches`
and `Resumes` are `plan_run` and the comparison of the sources; `OpensSource`,
`CannotRender`, `MakesItem`, `ItemFails` are `_process_document`, of several
sources at once; `WritesListing`, `Exports` the merge and the files of
`generate_run`; `ReadsListing`, `FoldsPdf` and a second `Exports` what
`auto_run` adds. `Collapses` is a kill or an exception outside the isolation of
a page, `LosesOutput` and `EditsSource` are the environment.

### 2.14 DatasetWorkspace

State. `corpus` is what is known of the samples: group, source record, hash of
the file, hash of the text under each policy; `present` and `spoiled` what the
sources hold; `table` and `seedOf` the manifest, `exported` the files of the
splits; `command` what the command under way has read and computed. `stale` is
history: the files were not made or removed since the manifest was written.
Actions. A command begins with the rows it computes (`PreparesAll`,
`ValidatesAll`, `NormalizesAll`, `DedupesAll`, `SplitsAnew`, `SplitsMore`,
`ExportsAll`); `assign_splits` is `MergesSample`, `LinksDuplicate` and
`AssignsSplits`; then one step for each file: `WritesTable`, `WritesFile`,
`ClearsFile`. `CommandDies` may end it before any of them. `SampleArrives` and
`SampleSpoils` change the sources between commands. One operator is assumed: no
lock keeps two commands apart, and the code makes no provision for it. The
`validation` split is treated as `test` is. The cache of file hashes (by size
and time) is left out: a hash is what the file has.

## 3. What the runs check

Deadlock checking is off in every run: a job that is delivered, a conversion
whose user has used up `UserSteps`, and dispatches that are done are all places
where the system rightly stops. What must not stop is stated as liveness.

| Run | Shows | Distinct states, time with 2 workers |
|---|---|---|
| `conversion_job` | fencing, recoverability, delivery, acknowledgement, finality, refinement of the lease | 1.9 million, under a minute |
| `job_dispatch` | a job id is placed once; a queued job is not deleted; deferred dispatches are made up for; runs end | 58 thousand, under a minute |
| `router_dispatch` | reservations: counters, limit, no leak, expiry, no repeated candidate, settlement; circuits: bursts and probes; switches of a pool | 1.6 million, about 90 seconds |
| `stores` | guests: one download, daily budget, nothing swept early, no token spent in vain; repair of a distortion run; order of samples | 0.68 million, half a minute |
| `parts` | the outcome of pages, tasks of the dashboard, checkpoints of a training run, agreement of a result bundle, resumption of a factory run, splits of a dataset | 0.5 million, a minute and a half |

**`conversion_job`.** Two workers, two requests in progress at once, two
claims, disk errors. Two claims are what it takes for a stale message of an old
claim to meet a new one (a third claim meets the second as the second met the
first), two request slots what it takes for one request to act between the
read and the write of another, two workers for a claim to change hands. The
invariants:

- `ActiveClaimIsNewest`: an active row names a worker and carries the newest
  token issued, so an old token fails every comparison.
- `FinalizingIsRecoverable`: a finalizing row names the outcome and carries the
  scores of its own claim: whoever finds the DOCX can finish the job.
- `DeliveredResultExists`: a delivered row has a DOCX some upload promoted and
  the scores of the newest claim, whichever of five requests completed it.
- `AckedUploadWon`: a 200 is only ever sent to the claim that was delivered;
  an answer that is lost is never replaced by one to somebody else.
- `DeliveredRowIsFinal`: no recovery, late report, cancel or retry touches a
  delivered row.
- `RecoveryRevokesWhatItSaw`: a recovery's conditional update revokes the claim
  it read, never the one given out in the meantime.
- `ImplementsLease`: under the mapping in the module, every behaviour is one of
  `ResultLease`.

**`job_dispatch`.** Two dispatchers (an API thread and maintenance, or two API
threads) are all that a lock distinguishes; one RQ retry and two user steps
allow a cancel and a retry. The safety properties are proved for any number of
dispatchers and workers; the instance is small for the sake of liveness, which
TLC checks under the fairness of section 4. `PlacedOnce`: no dispatcher pushes
an id the list has. `QueuedIsKept`: no dispatch deletes an RQ job that is queued,
although it looks first and deletes by a later command; the key must outlive
every dispatch for that. Nothing is said of `rq_job_id` naming a job that
exists: a replacement broken off between its two commands leaves none (section
6). `DeferredIsDispatched`: a pending row without an `rq_job_id` does not
stay so. `RunsEnd`: runs do not go on for ever, whatever fails.

**`router_dispatch`.** `MCKeyRouter`, three parts.

Reservations: two dispatches of two attempts over two accounts with a limit of
one compete for the last slot, retry to the other account, die anywhere, and
are reconciled; one midnight. `QuotaHolds` has three parts: `CountersAreExact`
and `LimitHolds` speak of the first day only, since after a midnight both fail
(section 6); `NothingIsLeaked` is what still holds on every day.
`ExpiredWasNotSent`, `NoCandidateTwice` and
`SettledIsFinal` hold throughout.

Circuits: two dispatches, one provider with one model, hence two circuits
before each call; a threshold of two failures, a window and a cooldown of one
tick, one probe. The failures of a burst come from different dispatches, a
window ends between them, probes compete, and reports come after the circuit
has opened, closed or been reset.

- `OpensOnBurst`: a circuit opens only on as many failures as the threshold,
  recorded since it was last closed and within one window.
- `ProbesAreLimited`: while a half-open circuit records no failure, no more
  dispatches carry a probe than its limit (a failure breaks it: section 6).

Switches: two operators, two accounts, four writes of the row, so that a switch
is begun, failed or superseded, begun again and completed by either operator
with either ticket. `SwitchesHold`: a pool that comes back takes over the
account the switch of its epoch asked for, and is completed with that switch's
ticket, which no other switch has.

**`stores`.** `MCStores`, three parts.

Guest trials: two requests at once are two downloads, two uploads, two
claims, or one of each. Both requests may be of the one guest, since neither
sees the other's job before it exists, so two trials compete for a budget of
one and for the guest's file name. The clock takes three values on two days, a
session lives for one unit and a job for two, so that midnight and the expiries
fall between any two steps and a job outlives the midnight. A second guest adds
no step that the one does not take; the theorems of section 5 hold for any
number of guests, jobs and requests.

- `ServedOnce`: the result of a trial is sent once at most.
- `BudgetHolds`: no day has more trials than its budget, although the day a
  request counts on is the one it read before it waited for the lock; nothing
  is stored or created for a trial without an event.
- `LiveJobIsKept`: before its time a job is not marked deleted, its result is
  not unlinked, and neither is an upload under a name of its own.
- `TokenSpentOnResult`: a token is only ever spent on a completed conversion.

Loader: two shards of two samples, any owned subset, any orders, with and
without prefetch, two epochs. `TrainsOnEpochs`: every sample of an epoch is
trained on once and in order through crashes and restarts.

Distortion: two batches, two pages, one retry, three begins, so that two
batches overlap and a third resumes alone. `RetriesHold`, `ManifestHolds`: one
at a time, batches keep attempts, records and images; a resumed batch that
ends alone leaves index and manifest in agreement, whatever batches at once
did before.

**`parts`.** `MCParts`, six parts, each with what it takes for its faults to
meet:

- Pages: two pages, every kind of evidence, two regions, two runs: the second
  run continues or repeats what the first left. `PagesHold`: a completed
  conversion shows every page and none of them wants a reviewer, `manual_review`
  shows one that does, and no text is shown that the gate did not trust or a
  model did not read. `ConversionHolds`: a local conversion never decides a page
  twice; a cancel before the last look is obeyed.
- Tasks: two plans, two requests, two tasks, one pool thread, so that one task
  waits behind the other. `TasksHold`: a plan is spent on one task; a task
  cancelled in time does not end COMPLETED. `TasksEnd`: a queued task ends
  (unless the writing of its record failed), and how it ended stays. TLC looks at
  the end of one task; nothing tells it from the other one.
- Training: four steps saved one by one, up to three checkpoints kept, three
  losses in any order, three faults. `CheckpointsHold`: the best checkpoint is
  whole, with a limit above one so is the newest, a save leaves no more than the
  limit, and the weights are those of the step. `RunCompletes`: a run that is
  resumed whenever it can be completes.
- Results: two writers, two pages, two texts, three calls: appends and
  finalizations overlap, are repeated and are cut short. `RowsAgree`: one row
  per identity and, in what can be read, no score of a text that is not stored
  and a summary that repeats the row of the run. `AppendsHold`: what an append
  that returned was given is in the file for as long as it can be read, and
  rows are only lost where a death left a line without its end, to a later row
  that is glued to it; from then on every reader raises.
- Factory: two processes, two sources of two contents (or of one), two items,
  three launches, one mishap: a run is broken off, or loses an output, or has a
  source edited, and is resumed, by two at once too. `ResumesHold`: a row lists
  what was made; what is listed and there stays so while processes work one at a
  time; a process that is alone and meets no mishap leaves a complete run, both
  forms of the manifest alike, whatever it found.
- Dataset: three samples of three documents, the last to arrive with the record
  of one and the file of another, the first two with one text under one of two
  policies; two ratios, three commands in any order, and a sample that spoils.
  So two documents that stand in two splits come to be linked by a third.
  Three commands are what it takes to split, to change what links the samples,
  and to split again. `SplitsHold`: no document, file, text or duplicate is in
  two splits; the export files follow the manifest unless a command was broken
  off; a split without a seed moves nothing that has one.

The other runs are the counterexamples of section 6.

## 4. Fairness

`JobDispatch`, `DashboardTasks` and `TrainingRun` need it; the other models are
safety only. Of `JobDispatch`:

- the maintenance thread scans in every interval (`worker_api.py` starts it
  with the server): weak fairness of `MaintenanceScans`;
- a thread that is inside a dispatch goes on: weak fairness of `Dispatch(d)`;
- Redis and the API are not down for ever: a dispatch that is tried again and
  again, by whichever dispatcher, gets through each of its commands: strong
  fairness of `TakesLock`, `Fetches`, `Deletes`, `Places`, `Releases` and
  `Records` of some dispatcher. Without it Redis may fail in every interval, and
  the code can promise nothing;
- the dispatch key expires after 30 s (`ex=30`): weak fairness of `LockExpires`;
- RQ's scheduler, its clean-up of abandoned jobs and its workers keep running:
  weak fairness of `Reschedules`, `Stops`, `Abandoned` and `Run(w)`;
- time passes: weak fairness of `GrowsStale`.

Nothing is assumed there of users, of what the server answers, of how a
conversion ends, or of workers staying alive.

Of `DashboardTasks`: a pool thread goes on and the worker it runs ends, weak
fairness of `Runs(t)` for each task (`ThreadPoolExecutor` takes the next future
when a thread is free; a verification, a quality run or a training ends). Users,
writes and restarts are free.

Of `TrainingRun`: weak fairness of `Works`, that is, a process that executes the
run goes on, and somebody resumes a run that failed or was interrupted. No
process does that by itself: `RunCompletes` says what resuming achieves.

## 5. What is proved

Assumptions: those named in the modules, and nothing else.
`MaxClaims` is a positive natural number, `DiskErrors` a Boolean, `RetryCount`
and `UserSteps` natural numbers, the dispatchers and the RQ workers finite sets
(threads of one server, processes that somebody started); the router's `Requests` are a finite set and
its numbers natural numbers; `NoWorker`, `NoCall`, `Nobody`, `NoAccount` and
`None` are not members of the sets they stand beside; the trial's `Jobs` are a
finite set disjoint from its `Guests`, its budget a natural number, its life
times, day length and last time positive. The workers and requests of
`ConversionJob`, the router's dispatchers, accounts, attempts, limits and days are otherwise arbitrary.

Of the newer parts: a document has at least one page; a pool at least one
thread, and the tasks are a finite set; thresholds, windows and limits are
positive; `MaxStep`, `SaveSteps` and each checkpoint limit are positive; a
distortion run has at least one page; shards, samples of a shard and the batch
size are positive; the pages of a bundle are a finite set.
Pages, facts, regions, runs, plans, requests, steps, losses, faults, batches,
retries, writers, texts, calls, providers, models and operators are otherwise
arbitrary. A factory run has at least one item and finitely many sources, its
processes and documents are any; a dataset at least one sample, and any corpora, groups,
seeds, ratios and placement of groups (`Place`, the hash, is any function).

**ConversionJobProofs.** `IInv` is `TypeOK`, `RowOK` and `CallsOK`. The
invariants of the run are not inductive: that a delivery carries the scores of
the newest claim needs that the finalizing row did, which needs that only the
holder seals, which needs what each request in progress knows. `RowOK` says
what each status implies of the other columns and the file; `CallsOK` says what
a request at each point knows (for instance that an upload at `complete` has
promoted its file under the token it names, and no later claim exists unless
the row has left `finalizing`). One lemma per action shows both preserved.
Theorems: `TypeCorrect`, `Fencing`, `Recoverability`, `Delivery`,
`Acknowledgement`, `Finality`, `Revocation`.

The refinement of `ResultLease` needs more than `IInv`: that a request which
completes or recovers a finalization delivers the status that was sealed, and
not another one the same claim announced, is a fact about the history of the
claim. `LInv` adds it: a worker that waits for a start waits for its own
(`WaitOK`), no token runs ahead of the claims (`ToksOK`), and of the worker that
may still upload and the uploads under way at most one exists for the row's
claim (`OneUpload`), none once the claim has been sealed (`NoUploadLeft`, also
after a rollback), so that every request able to deliver the row carries its
intended status (`SameVerdict`). It rests on the worker never repeating an
upload: `run_remote_job` reports a failed one. Theorems: `OneUploadPerClaim`,
`LeaseRefined` (each action is a `Grant`, `Release`, `SealVerdict`, `Unseal` or
`Deliver` of the lease or leaves it alone).

**JobDispatchProofs.** `IInv` is `TypeOK`, `LockOK` (a dispatcher between
`fetch` and the release of the key holds the lock), `PlacingOK` (while it
deletes, the RQ job it found dead is not queued again; while it places, the list
has no entry) and `AbsentOK` (no RQ job, no entry in the list).
`RunsAreLimited` is the argument under `RunsEnd`. RQ gives a job `RetryCount`
retries, but every push gives them anew, so a count of retries alone does not
end. `JobRank` is a tuple of seven numbers, ordered like the words of a
dictionary: the steps users have left; the threads about to clear `rq_job_id`;
the stages threads have before them; the retries RQ has left; the entry of the
list and the job that waits for its time; what is left of the runs; and, last, what
the surroundings can still do (crashes, expiries and stops). Each step lowers
it, whatever fails. The one exception is a scan of maintenance that finds a row
deferred, which raises the third number; and a row becomes deferred only by a
step that lowers the first or the second (`DeferredAgain`), so for as long as
`DeferredIsDispatched` holds, scans cannot keep a job going for ever.
Theorems: `TypeCorrect`, `Keeping`, `Placement`, `RunsAreLimited`.

**RouterDispatchProofs.** `IInv` is `TypeOK`, `RowsOK`, `FlowOK`, `RoutesOK`,
`NoCandidateTwice` and `LedgerOK`. Every step does one of four things to the
tables: nothing, place one reservation, relabel one live reservation, or settle
one. A ledger lemma for each effect, with facts about the cardinality of finite
sets, shows that counters and rows move together; `FlowOK` ties the point a
dispatch is at to the row of its current attempt; `RoutesOK` ties the accounts
of earlier attempts to `excluded`. Theorems: `TypeCorrect`, `Exactness`,
`Limits`, `NoLeak`, the three as `Quota`, `Expiry`, `NoRepeat`, `Settlement`;
and `DispatchesEnd`: a dispatch always finds the row it settles, and a rank of
attempts and points falls with each of its steps and is raised by no other.

**StoresProofs.** Guest trial: `IInv` is `TypeOK`, `RowsOK`, `CallsOK`, `Distinct`,
`SweepOK` and `DaysHold`. That a result is sent once needs that a request about
to send has spent the token of its job and that no other request is about to
send the same one (`Distinct`); that the sweep is harmless needs that whatever
is on its list was, and stays, past its time (`SweepOK`); the budget is a lemma
about the cardinality of a day's events and the only step that adds one.
Distortion: a batch that has the run to itself holds the manifest in its
records and has put right every page before the one it is at, whatever came
before it; each failed attempt is in `retry_count` or still in the error.
Loader: "in order, once, and its own only" says nothing that a step keeps, for a
checkpoint puts the loader back. What a step keeps is where every sample is: what
was trained, then what is queued, then what is being filled are together exactly
the process's samples before the cursor, or of a past epoch all but what
`drop_last` leaves out (`Fits`); the batches on their way follow each other and what was
trained (`Chunks`); between the cursor and the place of the generator nothing is
its own (`GeneratorOK`); and a checkpoint's cursor fits what had been trained when
it was written (`SavedOK`): without prefetch because nothing is on its way then;
with prefetch it does not, and the invariant, like the property, promises nothing
after a restart.
Theorems: `TypeCorrect`, `SentOnce`, `Budget`, `Kept`, `Spending`,
`DistortionTypeCorrect`, `RetriesAreCounted`, `ManifestIsRepaired`,
`LoaderTypeCorrect`, `LoaderTrainsOnEpochs`, `StoresAreTheirParts`,
`StoresTyped`.

**PageConversionProofs.** The outcome follows from the pages if what a run holds
of each page could have been decided for it (`Justified`: of the results, the
checkpoint and the document apart, for a local and a remote run), and if a run
that is past the pages has decided them all (`Progress`). `PagesRank` (the pages
before a run, the places it goes to with each, the regions to reread, a cancel)
falls with every step of a run and is raised only by the beginning of another.
Theorems: `PagesTypeCorrect`, `PagesTruth`, `ConversionSteps`, `ConversionsEnd`.

**KeyRouterProofs.** Switches: what an operator read is the row as long as the
version is (`ReadOK`); the epoch outruns every ticket and every switch that has
ended (`EpochOK`, `RowOK`), so a ticket that passes the check is the current
one's. Probes: a circuit that is not half open has no probe out, and those of a
half-open one are counted by its row until a failure sets the count back
(`ProbesOK`). A circuit's row and the failures that were reported agree
(`HistoryOK`): there are as many as the row counts, and those it counts lie in
the window it remembers, so the one that reaches the threshold makes a burst.
Theorems: `Switches`, `ProbeLimits`, `OpensOnlyOnBurst`, `RouterIsItsParts`,
`RouterTyped`.

**LabProofs.** Tasks: a used plan is held by one request or stands behind one
task; a task that has ended has no thread and no future that could start one.
Training: no checkpoint is better than the best or newer than the newest, a
torn one is never seen by a process at work, and what retention keeps is taken
from the least elements of finite sets. Of the two liveness properties the part
that does not speak of fairness is proved. Tasks: no record waits for a future
that is lost, and no future holds the pool without a thread (`FuturesOK`), so a
task without an end can go on or its thread is busy (`NobodyWaitsForNothing`);
a rank of each task never rises and falls with each step of its thread
(`TasksNearEnd`). Training: with room for two checkpoints the one just saved is
the top one and so was kept (`PastTop`); hence a run has completed, is stuck as
`RunCompletes` says, or can go on (`OnlyStuckRunsStop`), each step of a process
and each resume lowers a rank, whatever checkpoint it goes back to, and all
other steps are faults (`RunNearsEnd`). `CanRun` and `CanWork` write out what
`ENABLED` says of the fair actions. Theorems: `TasksTypeCorrect`,
`PlansAndCancels`, `EndsStay`, `TasksGoOn`, `TrainingTypeCorrect`,
`CheckpointsAreKept`, `RunsGoOn`.

**RunFilesProofs.** Results: a call that appends has seen the whole of its file,
holds the lock, does not write behind a part of a row, and has stored what is
not left to do unless its file can no longer be read (`CallFits`, `CallOK`);
what a write does to a file, in full, cut or glued, is `WriteEffect`. Dataset: linked
rows are of one split, unassigned or not (`LeakFree`); while a command merges, the members of a
merged group agree on the split they had (`AgreesOn`), a sample that was read is
merged with the owner of each of its hashes (`ReadIsMerged`), and an owner is
the group of a sample with that hash (`OwnersAreGroups`), so a union only ever
joins groups whose samples were linked before and agree. Factory: what a process
that is alone has still to do, or has failed at, is not delivered unless it has
made it itself, so its merge drops nothing that is there (`MakerAlone`); if
nothing disturbed it, the rest is whole, and listed or made (`MakerFresh`,
`SourceOK`). A process at work has a step to take whatever the others do
(`MakersGoOn`), and a rank of places, sources to open and items to make falls
with each of its steps and is left alone by all others (`MakersNearEnd`).
Theorems: `ResultsTypeCorrect`, `BundlesAgree`, `AppendsAreKept`,
`DatasetTyped`, `SplitsOfDataset`, `FactoryTyped`, `Resumption`,
`FactoryRunsEnd`, `PartsAreSix`, `PartsTyped`.

The compositions: of a behaviour of `MCKeyRouter`, `MCStores` or `MCParts` the
`subject` never changes and the other parts never move, so it is a behaviour of
the part that `subject` names (`RouterIsItsParts`, `StoresAreTheirParts`,
`PartsAreSix`), and what is proved of the parts holds of the run. Of `MCParts`
this is without fairness.

`Invariance` (in the modules of several parts one of that kind for each part) is
the temporal statement of the invariant.

Every invariant and every action property that a run checks is stated by a
theorem. Only model-checked: the liveness properties `DeferredIsDispatched`,
`RunsEnd`, `RunCompletes` and the liveness half of `TasksEnd`. They rest on
fairness, and `WF` and `SF` speak of `ENABLED`, which this prover cannot expand;
that a rank which falls and never rises reaches its end is induction over the
numbers with a temporal formula, which it cannot do either. The rest of the
argument is proved: `RunsAreLimited` for `RunsEnd`, `TasksGoOn` for the tasks,
`RunsGoOn` for training, and, where no run checks a liveness property,
`DispatchesEnd`, `ConversionsEnd` and `FactoryRunsEnd`. `DeferredIsDispatched`
is about nothing but fairness (Redis and the API answer in the end), so there
is no such part of it to prove.

## 6. Disagreements between code and documentation

Each is a run that ends in a counterexample; `PROJECT.json` quotes the lines.

- `conversion_job_stolen`: `start_job` decides on a row it read before; since
  `finalizing -> processing` is an allowed transition, a late start takes the
  job of a worker that is finalizing.
- `conversion_job_overwritten`: an upload that loses its finalization promotes
  its file first and checks the claim afterwards.
- `router_dispatch_midnight`: settlement gives back a slot in every daily
  window, the next day's included.
- `router_dispatch_resent`: a read timeout is classified as a network error and
  retried at another account.
- `guest_trial_claimed`: two claims that both read before either writes both
  succeed; the later one takes the job from the first account.
- `training_run_untrained`: the checkpoint is published before the torch state
  is written into it; a run that is broken off in between resumes at the step of
  that checkpoint with the weights of a fresh model.
- `pages_to_review`: the last message of `process_pdf` formats `review`, a local
  that only a page read by a model assigns; a document with a page for review,
  none pending and none read by a model raises `UnboundLocalError` and fails,
  and fails again at every retry.

Seen in the models without a run of its own.

*Jobs.* A start that read `failed` brings a job back that was retried and
cancelled in the meantime (`worker_api.py:2116`). `fail_job` checks the claim on
a row it read and then makes a transition that checks neither worker nor token,
so a late report fails a job another worker has claimed. A pending row can carry
an `rq_job_id` no live RQ job stands behind; maintenance leaves it alone
(`maintenance.py:28`), so it waits for ever. One way there is a replacement that
breaks off between `existing.delete()` and `queue.enqueue`
(`job_queue.py:123`, `129`) while another thread, which had been given the old
job as a live one, records its id: there is no RQ job at all then. A start that
read `pending` with the same row `processing` under another worker reissues the
claim (the same unchecked transition as `stolen`).

*Key router.* An account's `max_concurrency` is overshot, since it is read at
selection and not tested in `reserve_quota`. A failure between the provider's
answer and `mark_sent` (`service.py:533`), or a `ConnectionError` after the
request went out, releases a reservation the provider has acted on, without
charge. A failure below the threshold sets `half_open_in_flight` back although
other probes are out, so more than `half_open_probe_count` follow
(`docs/key-router/phase2/CIRCUIT_BREAKER.md:8-9` gives the limit); a probe that is
taken and not used is never given back, and the circuit stays half open until a
reset; a late success closes a circuit that has opened again. A
`complete_switch` that is repeated on an active pool clears
`active_account_id`. A drain that starts does not know the reservations in
flight (`service.py:660`).

*Guests.* Two uploads of one guest at once start two trials
(`worker_api.py:1399`; the repository knows,
`docs/engineering/CODE_AUDIT_CURRENT.md`); a claim that writes after the sweep has
selected the job loses its files; a DOCX that is promoted after the sweep, or a
file between the sweep's two instants, stays on disk for ever; and a sweep that
ends between unlinking and marking frees the plain name of an upload, which the
guest's next trial takes over and the next sweep deletes.

*Pages.* A cancel after the last look is ignored, while `JobQueue.status` says
cancelled. A page checkpointed as `pending_ocr_model` stays pending when the job
is resumed with a model. The callbacks that bound what cloud models cost are
deleted unused by `process_pdf`.

*Tasks and training.* A cancel after the thread's last look is ignored; a
training cancelled while it ends is CANCELLED as a task and COMPLETED as a run;
a cancel whose write fails leaves a QUEUED record with a cancelled future until
a restart. Two resumes of one run at once both pass the check of its status. With
`save_total_limit` 1 retention removes the checkpoint just saved unless it is the
best, the save raises, and every resume repeats that: `NewestIsKept` and
`RunCompletes` are for limits above one. A killed process leaves RUNNING, which
no resume accepts; a torn checkpoint directory stops `list_checkpoints` and with
it every resume. The prefetch thread's cursor is ahead of the trainer, so a
checkpoint restored with prefetch passes over the batches that were queued
(only `training_data/cli.py` uses prefetch); a last, partial batch has the label
of the next epoch.

*Distortion and results.* A run is marked complete although pages failed or are
still with another batch; a resume before `stale_after_seconds` passes over the
page of the crash. `heartbeat()` is never called, so a page that takes long is
taken over while its batch works on it. Batches at once write over each other's
records (the next lone resume repairs it), the slower of two dies in
`finish_page`, and the removal of an image over the byte limit may be another
batch's. Adding a prediction again with the same content conflicts, since
`created_at` is compared, although the store calls it idempotent
(`store.py:447`). A finalization after more scores conflicts with its own
earlier row for ever; metadata is written without the lock, so ingesting again
sets COMPLETED back to CREATED; a last line that was cut makes every later read
and append raise. If it lacks only its newline it is still read, and the next
row is written on behind it (`identity.py:213`): both rows, the second one
possibly of an append that returned, are one line that does not parse, and every
later read raises. To ingest the same batch again after such a death, which
`append_predictions` calls idempotent (`store.py:447`), is what does it.

*Factory.* A run that is broken off before its first `manifest.jsonl` can
neither be resumed nor begun again under its id (`factory.py:115-124`), although
`autorun.py:8-9` says that the same command "automatically resumes the same run".
An exception outside the isolation of a page (the opening of a page, the
writing of an output) ends the whole run, and nothing it made is listed. Two
processes that resume one run each write the manifest from what they read, and
the rows of the one that ends first are lost. The failure of a document as a
whole stays listed when a later process had nothing to make of it; the failures
of PDFs are listed again at every resume. Two sources of one content share a
document, so when the items of one are delivered, those the other failed at are
taken for complete and its failures stay listed.

*Dataset.* `prepare_dataset` builds every row without a split, so a source that
links two groups moves samples that were split before, although
`docs/pretraining_dataset_infrastructure.md:144` calls the assignment "stable
when new groups arrive (no global reshuffle)"; only `split_workspace` keeps
splits. `validate_workspace` writes a manifest without a header, so a later
split falls back to the default seed, which it does not note; ratios given
without a seed move nothing. A command broken off between two files leaves
export files that do not follow the manifest, and a group in two of them. After
`validate` every row is unique: a split and an export without a `dedupe` between
them export the duplicates.

## 7. What is not modelled, and the plan

Next, in this order:

1. `Backup`: archive, verify, restore with rollback, and a crash between any
   two renames.
2. The records the server writes after a delivery (scores, costs, lessons) as a
   second stage of the upload in `ConversionJob`.
3. `TeacherPipeline`: versions of assignments and decisions.
4. `RouterDispatch` composed with `AccountSwitch`: what a drain means for the
   reservations in flight. The code promises nothing of it yet, and the switch
   operations have no production caller.

Parts of modelled components that are left out: the quarantine and the cooldown
of accounts (single updates of a row) and the selectors' filters (pure; the
router's properties do not depend on them); scores, texts and correction rules
of pages; metrics, evaluation and events of training runs, and two processes on
one run; the writing of shards and the validation of samples; dry runs and the
validation of finished manifests in distortion; ground truth, artifacts and the
index over runs in the result store; rendering, distortion, quality checks and
the verification report of a factory run; the index, the checks of one sample,
the handoff and two commands at once on a dataset workspace. In
`ConversionJob`, tenants, authentication
and the multi-user checks are left out (every request is by an authorised
party), and so is the deletion of a document.

Left out for good: image processing, OCR engines, prompts and DOCX writing
(computation over data no property here tells apart); the Streamlit pages;
offline statistics and reports; the contents of documents, tokens and checksums;
downloads of datasets; static registries and contracts. Of the hazards in
`PROJECT.json`, those without a property say in their note why.
