--------------------------- MODULE DistortionRun ---------------------------
(***************************************************************************)
(* One distortion run: the index of its pages in SQLite, the manifest that *)
(* lists their records, their images, and the processes that work on it.   *)
(* A process may die at any step, a later one resumes the run, and nothing *)
(* keeps two from working at once.  The index and the manifest are written *)
(* apart: a record first, the page's state after it.                       *)
(*                                                                         *)
(* The pages are the generated pages in the order of the input.  A dry run,*)
(* whose pages are "skipped" and have no image, and pages sent to manual   *)
(* review, treated as complete ones, are left out; with fail_fast a batch  *)
(* stops after a failure, which is a process that dies there.              *)
(***************************************************************************)
EXTENDS Integers, FiniteSets

CONSTANTS
    Batches,        \* processes that run run_distortion_batch
    PageCount,
    MaxRetries,     \* max_retries of a page
    MaxBegins       \* bound on the batches begun

ASSUME DistortionAssumption ==
    /\ PageCount \in Nat \ {0} /\ MaxRetries \in Nat /\ MaxBegins \in Nat

Pages == 1..PageCount

VARIABLES
    pageState,   \* status in the index, "none" without a row
    retryCount,
    errorSet,    \* error IS NOT NULL
    manifest,    \* the pages with a record in distortion_manifest.v1.jsonl
    images,      \* the pages with an output file
    outcome,     \* state of the run, "none" before it exists
    at,          \* where each batch is, "off" without one
    pageAt,      \* the page it is at
    records,     \* its records: those it read and those it made
    resuming,    \* --resume
    begun,
    attempts,    \* of each page, the ones that failed or went stale (history)
    alone,       \* no other batch since it began (history)
    overlapped   \* two batches have worked at once (history)

indexVars == <<pageState, retryCount, errorSet>>
pageFileVars == <<manifest, images>>
batchVars == <<at, pageAt, records, resuming>>
distortionVars == <<indexVars, pageFileVars, outcome, batchVars, begun,
                    attempts, alone, overlapped>>

PageStates == {"none", "queued", "processing", "complete", "failed"}
BatchPlaces == {"off", "registering", "page", "reopening", "claiming",
                "working", "recording", "finishing"}

Running == {b \in Batches : at[b] # "off"}

GoesTo(b, place) == at' = [at EXCEPT ![b] = place]

\* continue
NextPage(b) ==
    /\ pageAt' = [pageAt EXCEPT ![b] = @ + 1]
    /\ GoesTo(b, "page")

StaysAt(b, place) == GoesTo(b, place) /\ UNCHANGED pageAt

\* An exception that ends the batch
Dies(b) == StaysAt(b, "off")

historyVars == <<begun, attempts, alone, overlapped>>

-----------------------------------------------------------------------------
(* The start of a batch *)

\* Mutant: a resumed batch does not read what there is.
ReadsNothing(resume) == {}

\* existing: only a resumed batch reads the manifest.
ReadsManifest(resume) == IF resume THEN manifest ELSE {}

BeginsBatch(b, resume) ==
    /\ at[b] = "off" /\ begun < MaxBegins
    /\ StaysAt(b, "registering")
    /\ resuming' = [resuming EXCEPT ![b] = resume]
    /\ records' = [records EXCEPT ![b] = ReadsManifest(resume)]
    /\ begun' = begun + 1
    /\ alone' = [c \in Batches |-> IF c = b THEN Running = {} ELSE FALSE]
    /\ overlapped' = (overlapped \/ Running # {})
    /\ UNCHANGED <<indexVars, pageFileVars, outcome, attempts>>

\* FileExistsError: the run exists and is not resumed.
IsRefused(b) ==
    /\ at[b] = "registering" /\ outcome # "none" /\ ~resuming[b]
    /\ Dies(b)
    /\ UNCHANGED <<indexVars, pageFileVars, outcome, records, resuming,
                   historyVars>>

InProcess == {p \in Pages : pageState[p] = "processing"}

\* Mutant: a stale page is queued once more when its retries are used up.
RequeuesAny(p) == TRUE

RetriesLeft(p) == retryCount[p] < MaxRetries

\* recover_stale: the pages of old are those whose heartbeat is older than
\* stale_after_seconds.  No batch renews it while it works on a page.
RecoversStale(old) ==
    /\ pageState' = [p \in Pages |->
         IF p \notin old THEN pageState[p]
         ELSE IF RetriesLeft(p) THEN "queued" ELSE "failed"]
    /\ errorSet' = [p \in Pages |-> errorSet[p] \/ p \in old]
    /\ attempts' = [p \in Pages |->
         IF p \in old THEN attempts[p] + 1 ELSE attempts[p]]
    /\ UNCHANGED retryCount

\* start_run, and recover_stale when resuming
Registers(b) ==
    /\ at[b] = "registering" /\ (outcome = "none" \/ resuming[b])
    /\ outcome' = "processing"
    /\ \/ resuming[b] /\ \E old \in SUBSET InProcess : RecoversStale(old)
       \/ ~resuming[b] /\ UNCHANGED <<indexVars, attempts>>
    /\ GoesTo(b, "page") /\ pageAt' = [pageAt EXCEPT ![b] = 1]
    /\ UNCHANGED <<pageFileVars, records, resuming, begun, alone, overlapped>>

-----------------------------------------------------------------------------
(* The pages of a batch *)

Here(b) == pageAt[b]

AtPage(b) == at[b] = "page" /\ Here(b) \in Pages

\* queue_page: INSERT ... ON CONFLICT DO NOTHING
Queued(p) == IF pageState[p] = "none" THEN "queued" ELSE pageState[p]

\* Mutant: the index is left as it is.
LeavesIndex(p) ==
    /\ pageState' = [pageState EXCEPT ![p] = Queued(p)]
    /\ UNCHANGED errorSet

\* reconcile_page, whatever the page's state is
Reconciles(p) ==
    /\ pageState' = [pageState EXCEPT ![p] = "complete"]
    /\ errorSet' = [errorSet EXCEPT ![p] = FALSE]

\* Mutant: a record of an earlier batch is not looked for.
IgnoresRecord(b) == FALSE

HasRecord(b) == Here(b) \in records[b]

\* A page with a record: _validate_resume_record, then reconcile_page
SkipsRecorded(b) ==
    /\ AtPage(b) /\ HasRecord(b)
    /\ IF Here(b) \in images
       THEN Reconciles(Here(b)) /\ NextPage(b)
       ELSE LeavesIndex(Here(b)) /\ Dies(b)
    /\ UNCHANGED <<retryCount, pageFileVars, outcome, records, resuming,
                   historyVars>>

\* requeue_for_manifest_recovery comes next for a complete page.
PlaceOfComplete(b) == IF resuming[b] THEN "reopening" ELSE "page"

\* A page without a record
QueuesPage(b) ==
    /\ AtPage(b) /\ ~HasRecord(b)
    /\ pageState' = [pageState EXCEPT ![Here(b)] = Queued(Here(b))]
    /\ IF pageState[Here(b)] # "complete" THEN StaysAt(b, "claiming")
       ELSE IF PlaceOfComplete(b) = "page" THEN NextPage(b)
       ELSE StaysAt(b, "reopening")
    /\ UNCHANGED <<retryCount, errorSet, pageFileVars, outcome, records,
                   resuming, historyVars>>

\* requeue_for_manifest_recovery: another batch may have reopened it.
Reopens(b) ==
    /\ at[b] = "reopening"
    /\ IF pageState[Here(b)] = "complete"
       THEN /\ pageState' = [pageState EXCEPT ![Here(b)] = "queued"]
            /\ errorSet' = [errorSet EXCEPT ![Here(b)] = FALSE]
            /\ StaysAt(b, "claiming")
       ELSE Dies(b) /\ UNCHANGED <<pageState, errorSet>>
    /\ UNCHANGED <<retryCount, pageFileVars, outcome, records, resuming,
                   historyVars>>

\* Mutant: a failed page is claimed again whatever its retries.
ClaimsAnyFailed(p) == pageState[p] \in {"queued", "failed"}

Claimable(p) ==
    \/ pageState[p] = "queued"
    \/ pageState[p] = "failed" /\ RetriesLeft(p)

\* claim_page: a page that had an error is a retry.
Claims(b) ==
    LET p == Here(b) IN
    /\ at[b] = "claiming"
    /\ IF Claimable(p)
       THEN /\ pageState' = [pageState EXCEPT ![p] = "processing"]
            /\ retryCount' =
                 [retryCount EXCEPT ![p] = @ + IF errorSet[p] THEN 1 ELSE 0]
            /\ errorSet' = [errorSet EXCEPT ![p] = FALSE]
            /\ StaysAt(b, "working")
       ELSE NextPage(b) /\ UNCHANGED indexVars
    /\ UNCHANGED <<pageFileVars, outcome, records, resuming, historyVars>>

\* finish_page: ValueError unless the page is in process
Finishes(b, status) ==
    LET p == Here(b) IN
    /\ IF pageState[p] = "processing"
       THEN /\ pageState' = [pageState EXCEPT ![p] = status]
            /\ errorSet' = [errorSet EXCEPT ![p] = status = "failed"]
            /\ NextPage(b)
       ELSE Dies(b) /\ UNCHANGED <<pageState, errorSet>>
    /\ UNCHANGED retryCount

CountsFailure(b) ==
    attempts' = IF pageState[Here(b)] = "processing"
                THEN [attempts EXCEPT ![Here(b)] = @ + 1] ELSE attempts

\* The image cannot be made or checked, or does not match the one there is.
FailsPage(b) ==
    /\ at[b] \in {"working", "recording"}
    /\ Finishes(b, "failed") /\ CountsFailure(b)
    /\ UNCHANGED <<pageFileVars, outcome, records, resuming, begun, alone,
                   overlapped>>

\* _atomic_save, or the same image is there already
SavesImage(b) ==
    /\ at[b] = "working" /\ (Here(b) \in images => resuming[b])
    /\ images' = images \cup {Here(b)}
    /\ StaysAt(b, "recording")
    /\ UNCHANGED <<indexVars, manifest, outcome, records, resuming,
                   historyVars>>

\* FileExistsError of a batch that does not resume; the page stays claimed.
FindsImage(b) ==
    /\ at[b] = "working" /\ Here(b) \in images /\ ~resuming[b]
    /\ Dies(b)
    /\ UNCHANGED <<indexVars, pageFileVars, outcome, records, resuming,
                   historyVars>>

\* maximum_output_bytes is exceeded: the image is removed.
ExceedsBytes(b) ==
    /\ at[b] = "recording"
    /\ images' = images \ {Here(b)}
    /\ Finishes(b, "failed") /\ CountsFailure(b)
    /\ UNCHANGED <<manifest, outcome, records, resuming, begun, alone,
                   overlapped>>

\* _write_jsonl_atomic writes the batch's own records over the manifest.
RecordsPage(b) ==
    /\ at[b] = "recording" /\ Here(b) \in images
    /\ records' = [records EXCEPT ![b] = @ \cup {Here(b)}]
    /\ manifest' = records[b] \cup {Here(b)}
    /\ StaysAt(b, "finishing")
    /\ UNCHANGED <<indexVars, images, outcome, resuming, historyVars>>

FinishesPage(b) ==
    /\ at[b] = "finishing"
    /\ Finishes(b, "complete")
    /\ UNCHANGED <<pageFileVars, outcome, records, resuming, historyVars>>

\* interrupt_after is reached with the page that was just finished.
InterruptsItself(b) ==
    /\ at[b] = "finishing" /\ pageState[Here(b)] = "processing"
    /\ pageState' = [pageState EXCEPT ![Here(b)] = "complete"]
    /\ errorSet' = [errorSet EXCEPT ![Here(b)] = FALSE]
    /\ outcome' = "interrupted" /\ Dies(b)
    /\ UNCHANGED <<retryCount, pageFileVars, records, resuming, historyVars>>

\* Every record is of a page that was made, so the run is "complete".
EndsRun(b) ==
    /\ at[b] = "page" /\ Here(b) \notin Pages
    /\ outcome' = "complete" /\ Dies(b)
    /\ UNCHANGED <<indexVars, pageFileVars, records, resuming, historyVars>>

BatchDies(b) ==
    /\ at[b] # "off" /\ Dies(b)
    /\ UNCHANGED <<indexVars, pageFileVars, outcome, records, resuming,
                   historyVars>>

DistortionInit ==
    /\ pageState = [p \in Pages |-> "none"]
    /\ retryCount = [p \in Pages |-> 0]
    /\ errorSet = [p \in Pages |-> FALSE]
    /\ manifest = {} /\ images = {} /\ outcome = "none"
    /\ at = [b \in Batches |-> "off"] /\ pageAt = [b \in Batches |-> 1]
    /\ records = [b \in Batches |-> {}]
    /\ resuming = [b \in Batches |-> FALSE]
    /\ begun = 0 /\ attempts = [p \in Pages |-> 0]
    /\ alone = [b \in Batches |-> FALSE] /\ overlapped = FALSE

DistortionNext ==
    \E b \in Batches :
        \/ \E resume \in BOOLEAN : BeginsBatch(b, resume)
        \/ IsRefused(b) \/ Registers(b)
        \/ SkipsRecorded(b) \/ QueuesPage(b) \/ Reopens(b) \/ Claims(b)
        \/ FailsPage(b) \/ SavesImage(b) \/ FindsImage(b)
        \/ ExceedsBytes(b) \/ RecordsPage(b) \/ FinishesPage(b)
        \/ InterruptsItself(b) \/ EndsRun(b) \/ BatchDies(b)

DistortionSpec == DistortionInit /\ [][DistortionNext]_distortionVars

-----------------------------------------------------------------------------
(* Properties *)

\* Type invariant of a distortion run.
DistortionTypeOK ==
    /\ pageState \in [Pages -> PageStates]
    /\ retryCount \in [Pages -> 0..MaxRetries]
    /\ errorSet \in [Pages -> BOOLEAN]
    /\ manifest \in SUBSET Pages /\ images \in SUBSET Pages
    /\ outcome \in {"none", "processing", "interrupted", "complete"}
    /\ at \in [Batches -> BatchPlaces]
    /\ pageAt \in [Batches -> 1..(PageCount + 1)]
    /\ \A b \in Batches :
         at[b] \notin {"off", "registering", "page"} => pageAt[b] \in Pages
    /\ records \in [Batches -> SUBSET Pages]
    /\ resuming \in [Batches -> BOOLEAN]
    /\ begun \in 0..MaxBegins /\ attempts \in [Pages -> Nat]
    /\ alone \in [Batches -> BOOLEAN] /\ overlapped \in BOOLEAN

\* A page that keeps failing, or whose batches keep dying until they are
\* stale, is attempted once and max_retries times more, however the run is
\* crashed and resumed, as long as one batch works at a time: claim_page
\* counts a retry by the error that finish_page or recover_stale left, and
\* nothing on the way drops it.
AttemptsAreBounded ==
    ~overlapped => \A p \in Pages : attempts[p] <= MaxRetries + 1

\* Batches that work one at a time never leave a record whose image is gone,
\* so none of them dies of its predecessor's manifest: the image is saved
\* before the record and is only removed for a page without one.
RecordsHaveImages == ~overlapped => manifest \subseteq images

\* What was recorded stays recorded through crashes and resumes, although
\* every record rewrites the manifest from what the batch holds.
KeepsRecords == ~overlapped' => manifest \subseteq manifest'
RecordsStay == [][KeepsRecords]_distortionVars

\* When a resumed batch reaches its end alone, the index and the manifest
\* agree on every page: records that batches at once lost are made again
\* and states that a crash left behind are caught up with.
Agrees == \A p \in Pages : pageState[p] = "complete" <=> p \in manifest
CompletesAlone(b) ==
    EndsRun(b) /\ alone[b] /\ resuming[b] => Agrees
Repairs == \A b \in Batches : CompletesAlone(b)
ResumeRepairs == [][Repairs]_distortionVars

\* The manifest through crashes and resumes (reconcile_page,
\* requeue_for_manifest_recovery).
ManifestHolds == RecordsStay /\ ResumeRepairs

\* Batches that work one at a time (recover_stale, claim_page)
RetriesHold == AttemptsAreBounded /\ RecordsHaveImages
=============================================================================
