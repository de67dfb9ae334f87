----------------------------- MODULE GuestTrial -----------------------------
(***************************************************************************)
(* The guest trial: a visitor without an account uploads one PDF, fetches  *)
(* the result once with its token, or claims the job into an account; the  *)
(* maintenance thread deletes what has expired.  Requests run on threads   *)
(* of the API and meet only in the database and in the files.              *)
(*                                                                         *)
(* One action is one transaction, one read outside a transaction, or one   *)
(* file operation.  All visitors share one address, so one daily budget.   *)
(* The conversion itself is the subject of ConversionJob; here it only     *)
(* produces the DOCX and its final status.  All uploads have the same      *)
(* file name, so a guest's second one gets a name of its own as long as    *)
(* the first is there; a DOCX always has a name of its own.                *)
(***************************************************************************)
EXTENDS Integers, FiniteSets

CONSTANTS
    Guests,        \* guest sessions (guest_scope_id)
    Jobs,          \* job ids, each from uuid4
    Users,         \* accounts a job can be claimed into
    Calls,         \* requests the API serves at once
    DailyBudget,   \* CLOUDA_GUEST_DAILY_BUDGET
    SessionLife,   \* CLOUDA_GUEST_SESSION_SECONDS
    JobLife,       \* CLOUDA_GUEST_JOB_TTL_SECONDS
    DayLength,
    LastTime,      \* bound on the clock
    None           \* no guest, job or account

ASSUME JobsAssumption == IsFiniteSet(Jobs)
ASSUME NumbersAssumption ==
    /\ DailyBudget \in Nat /\ LastTime \in Nat \ {0}
    /\ SessionLife \in Nat \ {0} /\ JobLife \in Nat \ {0}
    /\ DayLength \in Nat \ {0}
ASSUME NamesAssumption ==
    /\ None \notin Guests \cup Jobs \cup Users
    /\ Guests \cap Jobs = {}

Times == 0..LastTime

VARIABLES
    clock,
    session,    \* guest_sessions
    row,        \* guest_jobs
    paid,       \* auth_usage_events: created_at of a trial's event, or 0
    conv,       \* conversions.status
    news,       \* the jobs whose final status the row does not have yet
    path,       \* where the upload of a job was stored
    pdf,        \* the job whose upload is at a path, or None
    docx,       \* the jobs whose result is on disk
    served,     \* how often the result was sent (history)
    call,       \* the requests in progress
    sweep       \* cleanup_expired_guest_jobs

fileVars == <<path, pdf, docx>>
rowVars == <<row, paid, conv, news, fileVars>>
vars == <<clock, session, rowVars, served, call, sweep>>

\* The plain name in a guest's directory, or one only this job has
Paths == Guests \cup Jobs

Sessions == [expires: Nat, token: BOOLEAN, claimed: BOOLEAN]

Rows == [status: {"none", "pending", "completed", "review", "claimed"},
         guest: Guests \cup {None}, expires: Nat, owner: Users \cup {None},
         deleted: BOOLEAN, downloaded: BOOLEAN]

Statuses == {"none", "pending", "finalizing", "completed", "review", "failed"}

Points == {"idle", "day", "budget", "store", "create", "convert", "look",
           "consume", "send", "read", "claim"}

Requests == [at: Points, guest: Guests \cup {None}, job: Jobs \cup {None},
             user: Users \cup {None}, now: Times]

NoRow == [status |-> "none", guest |-> None, expires |-> 0, owner |-> None,
          deleted |-> FALSE, downloaded |-> FALSE]

Idle == [at |-> "idle", guest |-> None, job |-> None, user |-> None, now |-> 0]

NoSweep == [at |-> "idle", list |-> {}]

Day(t) == t \div DayLength

Exists(j) == row[j].status # "none"

Completed(j) == conv[j] = "completed"

-----------------------------------------------------------------------------
(* The statements' conditions *)

\* get_guest_session
SessionLive(g) == session[g].expires > clock

\* guest_has_active_job
HasActiveJob(g) ==
    \E j \in Jobs : /\ row[j].guest = g /\ row[j].status = "pending"
                    /\ row[j].owner = None /\ ~row[j].deleted
                    /\ row[j].expires > clock

\* What a request that read the time t may see of a job.
Visible(j, t) == Exists(j) /\ ~row[j].deleted /\ row[j].expires > t

\* Mutant: the window of the clock, not of the time of the event.
LeftToday(t) ==
    Cardinality({j \in Jobs : paid[j] # 0 /\ Day(paid[j]) >= Day(clock)})
        < DailyBudget

\* consume_daily_quota: the events since the midnight before t
BudgetLeft(t) ==
    Cardinality({j \in Jobs : paid[j] # 0 /\ Day(paid[j]) >= Day(t)})
        < DailyBudget

\* Mutant: the sweep looks ahead.
OverdueSoon(j) ==
    /\ Exists(j) /\ ~row[j].deleted /\ row[j].owner = None
    /\ row[j].expires <= clock + 1

\* The condition of the sweep's SELECT and of expire_guest_jobs
Overdue(j) ==
    /\ Exists(j) /\ ~row[j].deleted /\ row[j].owner = None
    /\ row[j].expires <= clock

\* The request is answered, with success or not.
Answers(c) == call' = [call EXCEPT ![c] = Idle]

\* A request goes on to the next point with what it knows and the time t it
\* has read for it, if it needs one (0 otherwise).
Moves(c, point, t) ==
    call' = [call EXCEPT ![c] =
                [at |-> point, guest |-> call[c].guest, job |-> call[c].job,
                 user |-> call[c].user, now |-> t]]

Goes(c, point) == Moves(c, point, 0)

\* Mutant: the clock runs ahead.
NotesAhead(c, point) == Moves(c, point, clock + 1)

Notes(c, point) == Moves(c, point, clock)

Begins(c, point, g, j, u, t) ==
    /\ call[c] = Idle
    /\ call' = [call EXCEPT ![c] = [at |-> point, guest |-> g, job |-> j,
                                    user |-> u, now |-> t]]

-----------------------------------------------------------------------------
(* Sessions and POST /guest/trial *)

CreatesSession(g) ==
    /\ session[g].expires = 0
    /\ session' =
          [session EXCEPT ![g] = [@ EXCEPT !.expires = clock + SessionLife]]
    /\ UNCHANGED <<clock, rowVars, served, call, sweep>>

\* POST /guest/claim-token; the token that counts is the last one issued.
IssuesClaimToken(g) ==
    /\ SessionLive(g)
    /\ session' = [session EXCEPT ![g] = [@ EXCEPT !.token = TRUE]]
    /\ UNCHANGED <<clock, rowVars, served, call, sweep>>

StartsTrial(c, g) ==
    /\ SessionLive(g) /\ ~HasActiveJob(g)
    /\ Begins(c, "day", g, None, None, 0)
    /\ UNCHANGED <<clock, session, rowVars, served, sweep>>

\* consume_daily_quota reads the time before it has the write lock.
ReadsDay(c) ==
    /\ call[c].at = "day"
    /\ Notes(c, "budget")
    /\ UNCHANGED <<clock, session, rowVars, served, sweep>>

TakesBudget(c) ==
    /\ call[c].at = "budget"
    /\ BudgetLeft(call[c].now)
    /\ \E j \in Jobs :
          /\ paid[j] = 0
          /\ paid' = [paid EXCEPT ![j] = call[c].now]
          /\ call' = [call EXCEPT ![c] =
                         [at |-> "store", guest |-> call[c].guest, job |-> j,
                          user |-> None, now |-> 0]]
    /\ UNCHANGED <<clock, session, row, conv, news, fileVars, served, sweep>>

\* write_upload's exclusive creation of the name
FreePath(g, j) == IF pdf[g] = None THEN g ELSE j

\* The expiry counts from here.
StoresPdf(c) ==
    /\ call[c].at = "store"
    /\ LET p == FreePath(call[c].guest, call[c].job)
       IN /\ path' = [path EXCEPT ![call[c].job] = p]
          /\ pdf' = [pdf EXCEPT ![p] = call[c].job]
    /\ Notes(c, "create")
    /\ UNCHANGED <<clock, session, row, paid, conv, news, docx, served, sweep>>

CreatesJob(c) ==
    /\ call[c].at = "create"
    /\ row' = [row EXCEPT ![call[c].job] =
                  [status |-> "pending", guest |-> call[c].guest,
                   expires |-> call[c].now + JobLife, owner |-> None,
                   deleted |-> FALSE, downloaded |-> FALSE]]
    /\ Goes(c, "convert")
    /\ UNCHANGED <<clock, session, paid, conv, news, fileVars, served, sweep>>

\* create_conversion and the dispatch (JobDispatch)
CreatesConversion(c) ==
    /\ call[c].at = "convert"
    /\ conv' = [conv EXCEPT ![call[c].job] = "pending"]
    /\ Answers(c)
    /\ UNCHANGED <<clock, session, row, paid, news, fileVars, served, sweep>>

\* Any request may be refused or fail with an error, or die with the server.
Ends(c) ==
    /\ call[c].at # "idle"
    /\ Answers(c)
    /\ UNCHANGED <<clock, session, rowVars, served, sweep>>

-----------------------------------------------------------------------------
(* GET /guest/jobs/{job_id}/download *)

StartsDownload(c, j) ==
    /\ Visible(j, clock) /\ SessionLive(row[j].guest)
    /\ Begins(c, "look", None, j, None, 0)
    /\ UNCHANGED <<clock, session, rowVars, served, sweep>>

\* Mutant: the file is all that counts.
SeesFile(j) == j \in docx

\* The conversion is completed and its file is there.
SeesResult(j) == Completed(j) /\ j \in docx

LooksAtResult(c) ==
    /\ call[c].at = "look"
    /\ SeesResult(call[c].job)
    /\ Notes(c, "consume")
    /\ UNCHANGED <<clock, session, rowVars, served, sweep>>

\* Mutant: whether the token is spent was seen when the download began.
TokenUnspent(j, t) == Visible(j, t)

TokenGood(j, t) == Visible(j, t) /\ ~row[j].downloaded

\* consume_guest_result_token in one BEGIN IMMEDIATE transaction
ConsumesToken(c) ==
    /\ call[c].at = "consume"
    /\ TokenGood(call[c].job, call[c].now)
    /\ row' = [row EXCEPT ![call[c].job] = [@ EXCEPT !.downloaded = TRUE]]
    /\ Goes(c, "send")
    /\ UNCHANGED <<clock, session, paid, conv, news, fileVars, served, sweep>>

\* FileResponse opens the file only now.
SendsResult(c) ==
    /\ call[c].at = "send"
    /\ call[c].job \in docx
    /\ served' = [served EXCEPT ![call[c].job] = @ + 1]
    /\ Answers(c)
    /\ UNCHANGED <<clock, session, rowVars, sweep>>

-----------------------------------------------------------------------------
(* POST /guest/claim: claim_guest_job reads twice, then writes. *)

ReadsSession(c, g, j, u) ==
    /\ SessionLive(g) /\ session[g].token /\ ~session[g].claimed
    /\ Begins(c, "read", g, j, u, clock)
    /\ UNCHANGED <<clock, session, rowVars, served, sweep>>

ReadsJob(c) ==
    /\ call[c].at = "read"
    /\ LET j == call[c].job
       IN /\ Visible(j, call[c].now)
          /\ row[j].guest = call[c].guest /\ row[j].owner = None
    /\ Goes(c, "claim")
    /\ UNCHANGED <<clock, session, rowVars, served, sweep>>

\* The UPDATE has no condition but the job id.
WritesClaim(c) ==
    /\ call[c].at = "claim"
    /\ row' = [row EXCEPT ![call[c].job] =
                  [@ EXCEPT !.owner = call[c].user, !.status = "claimed"]]
    /\ session' =
          [session EXCEPT ![call[c].guest] = [@ EXCEPT !.claimed = TRUE]]
    /\ Answers(c)
    /\ UNCHANGED <<clock, paid, conv, news, fileVars, served, sweep>>

-----------------------------------------------------------------------------
(* The conversion, as ConversionJob has it in detail *)

\* The upload has promoted the DOCX.
Promotes(j) ==
    /\ conv[j] = "pending"
    /\ conv' = [conv EXCEPT ![j] = "finalizing"]
    /\ docx' = docx \cup {j}
    /\ UNCHANGED <<clock, session, row, paid, news, path, pdf, served, call,
                   sweep>>

\* complete_conversion_finalization, by the upload or by a later reader; a
\* result that is left for manual review is not for download.
Completes(j) ==
    /\ conv[j] = "finalizing"
    /\ \E final \in {"completed", "review"} : conv' = [conv EXCEPT ![j] = final]
    /\ news' = news \cup {j}
    /\ UNCHANGED <<clock, session, row, paid, fileVars, served, call, sweep>>

\* mark_guest_job_result copies the status over "claimed" as over "pending".
MarksResult(j) ==
    /\ j \in news
    /\ row' = IF row[j].deleted THEN row
              ELSE [row EXCEPT ![j] = [@ EXCEPT !.status = conv[j]]]
    /\ news' = news \ {j}
    /\ UNCHANGED <<clock, session, paid, conv, fileVars, served, call, sweep>>

ConversionFails(j) ==
    /\ conv[j] = "pending"
    /\ conv' = [conv EXCEPT ![j] = "failed"]
    /\ UNCHANGED <<clock, session, row, paid, news, fileVars, served, call,
                   sweep>>

-----------------------------------------------------------------------------
(* cleanup_expired_guest_jobs, and time *)

Selects ==
    /\ sweep.at = "idle"
    /\ sweep' = [at |-> "unlink", list |-> {j \in Jobs : Overdue(j)}]
    /\ UNCHANGED <<clock, session, rowVars, served, call>>

\* The upload and then the result of a job
Unlinks(j) ==
    /\ sweep.at = "unlink"
    /\ j \in sweep.list
    /\ pdf' = [pdf EXCEPT ![path[j]] = None]
    /\ docx' = docx \ {j}
    /\ sweep' = [at |-> "unlink", list |-> sweep.list \ {j}]
    /\ UNCHANGED <<clock, session, row, paid, conv, news, path, served, call>>

\* expire_guest_jobs takes a time of its own.
ExpiresJobs ==
    /\ sweep.at = "unlink" /\ sweep.list = {}
    /\ row' = [j \in Jobs |-> [row[j] EXCEPT !.deleted = @ \/ Overdue(j)]]
    /\ sweep' = NoSweep
    /\ UNCHANGED <<clock, session, paid, conv, news, fileVars, served, call>>

\* A file that cannot be deleted, or the end of the server, ends the cycle,
\* perhaps between the two files of a job.
SweepEnds ==
    /\ sweep.at = "unlink"
    /\ \/ UNCHANGED pdf
       \/ \E j \in sweep.list : pdf' = [pdf EXCEPT ![path[j]] = None]
    /\ sweep' = NoSweep
    /\ UNCHANGED <<clock, session, row, paid, conv, news, path, docx, served,
                   call>>

Tick ==
    /\ clock < LastTime
    /\ clock' = clock + 1
    /\ UNCHANGED <<session, rowVars, served, call, sweep>>

-----------------------------------------------------------------------------
Init ==
    /\ clock = 1
    /\ session = [g \in Guests |->
                     [expires |-> 0, token |-> FALSE, claimed |-> FALSE]]
    /\ row = [j \in Jobs |-> NoRow]
    /\ paid = [j \in Jobs |-> 0]
    /\ conv = [j \in Jobs |-> "none"]
    /\ news = {}
    /\ path = [j \in Jobs |-> None]
    /\ pdf = [p \in Paths |-> None]
    /\ docx = {}
    /\ served = [j \in Jobs |-> 0]
    /\ call = [c \in Calls |-> Idle]
    /\ sweep = NoSweep

Trial(c) ==
    \/ \E g \in Guests : StartsTrial(c, g)
    \/ ReadsDay(c) \/ TakesBudget(c) \/ StoresPdf(c) \/ CreatesJob(c)
    \/ CreatesConversion(c)

Download(c) ==
    \/ \E j \in Jobs : StartsDownload(c, j)
    \/ LooksAtResult(c) \/ ConsumesToken(c) \/ SendsResult(c)

Claim(c) ==
    \/ \E g \in Guests, j \in Jobs, u \in Users : ReadsSession(c, g, j, u)
    \/ ReadsJob(c) \/ WritesClaim(c)

Conversion(j) ==
    Promotes(j) \/ Completes(j) \/ MarksResult(j) \/ ConversionFails(j)

Sweep == Selects \/ (\E j \in Jobs : Unlinks(j)) \/ ExpiresJobs \/ SweepEnds

Next ==
    \/ \E g \in Guests : CreatesSession(g) \/ IssuesClaimToken(g)
    \/ \E c \in Calls : Trial(c) \/ Download(c) \/ Claim(c) \/ Ends(c)
    \/ \E j \in Jobs : Conversion(j)
    \/ Sweep \/ Tick

Spec == Init /\ [][Next]_vars

-----------------------------------------------------------------------------
(* Properties *)

\* The tables, the requests and the sweep hold what the code can put there.
TypeOK ==
    /\ clock \in Times
    /\ session \in [Guests -> Sessions]
    /\ row \in [Jobs -> Rows]
    /\ paid \in [Jobs -> Times]
    /\ conv \in [Jobs -> Statuses]
    /\ news \subseteq Jobs
    /\ path \in [Jobs -> Paths \cup {None}]
    /\ pdf \in [Paths -> Jobs \cup {None}]
    /\ docx \subseteq Jobs
    /\ served \in [Jobs -> Nat]
    /\ call \in [Calls -> Requests]
    /\ sweep \in [at: {"idle", "unlink"}, list: SUBSET Jobs]

\* consume_guest_result_token: however many downloads, claims and sweeps are
\* under way, the result of a trial is sent once at most.
ServedOnce == \A j \in Jobs : served[j] <= 1

\* consume_daily_quota: no day has more trials than the budget, also when a
\* request waits for the write lock across midnight; and nothing is stored
\* for a trial that was not counted.
BudgetHolds ==
    /\ \A d \in {Day(t) : t \in Times} :
          Cardinality({j \in Jobs : paid[j] # 0 /\ Day(paid[j]) = d})
              <= DailyBudget
    /\ \A j \in Jobs : path[j] # None \/ Exists(j) => paid[j] # 0

\* Before its time is over the sweep neither marks a job deleted nor takes its
\* result, nor its upload if that has a name of its own.
LiveJobIsKept ==
    \A j \in Jobs : row[j].expires > clock =>
        /\ ~row[j].deleted
        /\ Completed(j) => j \in docx
        /\ path[j] = j => pdf[j] = j

\* A token is spent on a finished conversion only; a guest who asks too early
\* keeps it.
TokenSpentOnResult == \A j \in Jobs : row[j].downloaded => Completed(j)

-----------------------------------------------------------------------------
(* What a comment or a test says and the code does not ensure *)

\* A job that was claimed stays with its owner: "409" for a second claim.
OwnerStays ==
    \A j \in Jobs : row[j].owner # None => row'[j].owner = row[j].owner

ClaimedOnce == [][OwnerStays]_vars
=============================================================================
