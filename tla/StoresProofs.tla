---------------------------- MODULE StoresProofs ----------------------------
(***************************************************************************)
(* Proofs about the parts of MCStores, for any numbers of guests, jobs,    *)
(* accounts and requests, of pages, batches and retries, of shards,        *)
(* samples and epochs, any budget and any prefetch depth.                  *)
(*                                                                         *)
(* Guest trial: a job id belongs to the one trial that drew it until its   *)
(* conversion is created (CallsOK, Distinct); a request that may send a    *)
(* result is the only one for its job (Distinct); the sweep only holds     *)
(* jobs whose time is over (SweepOK).                                      *)
(*                                                                         *)
(* Distortion: a batch that has the run to itself (AloneOK) holds the      *)
(* manifest in its records and has put right every page before the one it  *)
(* is at, whatever batches at once did before it began.  While no two have *)
(* worked at once every running batch is alone, and each failed attempt at *)
(* a page is either in retry_count or still in its error (AttemptOK).      *)
(*                                                                         *)
(* Loader: what the model was trained on in an epoch, what is queued and   *)
(* what is in the batch being filled, together, are the owned samples      *)
(* before the cursor (Fits), one after the other (Chunks), and so is what  *)
(* a checkpoint kept (SavedOK); the generator is where the cursor is, or   *)
(* on its way there (GeneratorOK).                                         *)
(***************************************************************************)
EXTENDS MCStores, SequenceTheorems, FiniteSetTheorems, WellFoundedInduction,
        TLAPS

-----------------------------------------------------------------------------
(* The guest trial *)

Making == {"store", "create", "convert"}
Fetching == {"look", "consume", "send"}
Produced == {"finalizing", "completed", "review"}

RowOK(j) ==
    /\ ~Exists(j) => row[j] = NoRow /\ conv[j] = "none" /\ served[j] = 0
    /\ path[j] \in Guests \cup {j, None}
    /\ path[j] # None \/ Exists(j) => paid[j] # 0
    /\ j \in news => Exists(j) /\ conv[j] \in {"completed", "review"}
    /\ row[j].downloaded => Completed(j)
    /\ served[j] = 0 \/ (served[j] = 1 /\ row[j].downloaded)
    /\ row[j].expires > clock =>
          /\ ~row[j].deleted
          /\ conv[j] \in Produced => j \in docx
          /\ path[j] = j => pdf[j] = j

RowsOK == \A j \in Jobs : RowOK(j)

CallOK(c) ==
    /\ call[c].at \in {"day", "budget", "read", "claim"} \cup Making
          => call[c].guest \in Guests
    /\ call[c].at \in {"read", "claim"} \cup Making \cup Fetching
          => call[c].job \in Jobs
    /\ call[c].at \in {"read", "claim"} => call[c].user \in Users
    /\ call[c].at = "budget" => call[c].now # 0
    /\ call[c].at \in Making => paid[call[c].job] # 0
    /\ call[c].at \in {"store", "create"} => ~Exists(call[c].job)
    /\ call[c].at = "create" /\ path[call[c].job] = call[c].job
          => pdf[call[c].job] = call[c].job
    /\ call[c].at = "convert" => conv[call[c].job] = "none"
    /\ call[c].at \in {"convert", "claim"} \cup Fetching => Exists(call[c].job)
    /\ call[c].at \in {"consume", "send"} => Completed(call[c].job)
    /\ call[c].at = "send" => row[call[c].job].downloaded /\ served[call[c].job] = 0

CallsOK == \A c \in Calls : CallOK(c)

Apart(c, d) ==
    \/ c = d
    \/ /\ call[c].at \in Making /\ call[d].at \in Making => call[c].job # call[d].job
       /\ call[c].at = "send" /\ call[d].at = "send" => call[c].job # call[d].job

Distinct == \A c, d \in Calls : Apart(c, d)

SweepOK ==
    /\ sweep.list \subseteq {j \in Jobs : Exists(j) /\ row[j].expires <= clock}
    /\ clock # 0

DayHolds(d) ==
    Cardinality({j \in Jobs : paid[j] # 0 /\ Day(paid[j]) = d}) <= DailyBudget

DaysHold == \A d \in {Day(t) : t \in Times} : DayHolds(d)

IInv == TypeOK /\ RowsOK /\ CallsOK /\ Distinct /\ SweepOK /\ DaysHold

-----------------------------------------------------------------------------
(* Types *)

LEMMA RecordTypes ==
    /\ Idle \in Requests
    /\ NoSweep \in [at: {"idle", "unlink"}, list: SUBSET Jobs]
    /\ \A r \in Rows :
          /\ [r EXCEPT !.downloaded = TRUE] \in Rows
          /\ \A st \in {"completed", "review"} : [r EXCEPT !.status = st] \in Rows
          /\ \A u \in Users : [r EXCEPT !.owner = u, !.status = "claimed"] \in Rows
          /\ \A b \in BOOLEAN : [r EXCEPT !.deleted = b] \in Rows
    /\ \A s \in Sessions :
          /\ \A t \in Nat : [s EXCEPT !.expires = t] \in Sessions
          /\ [s EXCEPT !.token = TRUE] \in Sessions
          /\ [s EXCEPT !.claimed = TRUE] \in Sessions
  <1>1. Idle \in Requests
    BY NumbersAssumption DEF Idle, Requests, Points, Times
  <1>2. NoSweep \in [at: {"idle", "unlink"}, list: SUBSET Jobs]
    BY DEF NoSweep
  <1>3. ASSUME NEW r \in Rows
        PROVE  /\ [r EXCEPT !.downloaded = TRUE] \in Rows
               /\ \A st \in {"completed", "review"} : [r EXCEPT !.status = st] \in Rows
               /\ \A u \in Users : [r EXCEPT !.owner = u, !.status = "claimed"] \in Rows
               /\ \A b \in BOOLEAN : [r EXCEPT !.deleted = b] \in Rows
    BY DEF Rows
  <1>4. ASSUME NEW s \in Sessions
        PROVE  /\ \A t \in Nat : [s EXCEPT !.expires = t] \in Sessions
               /\ [s EXCEPT !.token = TRUE] \in Sessions
               /\ [s EXCEPT !.claimed = TRUE] \in Sessions
    BY DEF Sessions
  <1> QED BY <1>1, <1>2, <1>3, <1>4

LEMMA TypeInv ==
    ASSUME IInv, [Next]_vars
    PROVE  TypeOK'
  <1> USE NumbersAssumption DEF IInv, TypeOK, rowVars, fileVars
  <1>1. ASSUME NEW g \in Guests, CreatesSession(g) PROVE TypeOK'
    <2>1. clock + SessionLife \in Nat
      BY DEF Times
    <2> QED BY <1>1, <2>1, RecordTypes DEF CreatesSession
  <1>2. ASSUME NEW g \in Guests, IssuesClaimToken(g) PROVE TypeOK'
    BY <1>2, RecordTypes DEF IssuesClaimToken
  <1>3. ASSUME NEW c \in Calls, NEW g \in Guests, StartsTrial(c, g)
       PROVE TypeOK'
    BY <1>3 DEF StartsTrial, Begins, Requests, Points, Times
  <1>4. ASSUME NEW c \in Calls, NEW j \in Jobs, StartsDownload(c, j)
       PROVE TypeOK'
    BY <1>4 DEF StartsDownload, Begins, Requests, Points, Times
  <1>5. ASSUME NEW c \in Calls, NEW g \in Guests, NEW j \in Jobs,
              NEW u \in Users, ReadsSession(c, g, j, u)
       PROVE TypeOK'
    BY <1>5 DEF ReadsSession, Begins, Requests, Points
  <1>6. ASSUME NEW c \in Calls, ReadsDay(c) PROVE TypeOK'
    BY <1>6 DEF ReadsDay, Notes, Moves, Requests, Points, CallsOK, CallOK,
       Making, Fetching
  <1>7. ASSUME NEW c \in Calls, TakesBudget(c) PROVE TypeOK'
    BY <1>7 DEF TakesBudget, Requests, Points, CallsOK, CallOK, Making,
       Fetching, Times
  <1>8. ASSUME NEW c \in Calls, StoresPdf(c) PROVE TypeOK'
    <2> DEFINE p == FreePath(call[c].guest, call[c].job)
    <2>1. p \in Paths /\ call[c].job \in Jobs
      BY <1>8 DEF StoresPdf, FreePath, Paths, CallsOK, CallOK, Making
    <2>2. path' \in [Jobs -> Paths \cup {None}] /\ pdf' \in [Paths -> Jobs \cup {None}]
      BY <1>8, <2>1 DEF StoresPdf
    <2>3. call' \in [Calls -> Requests]
      BY <1>8 DEF StoresPdf, Notes, Moves, Requests, Points
    <2> QED BY <1>8, <2>2, <2>3 DEF StoresPdf
  <1>9. ASSUME NEW c \in Calls, CreatesJob(c) PROVE TypeOK'
    BY <1>9 DEF CreatesJob, Goes, Moves, Requests, Points, Rows, Times,
       CallsOK, CallOK, Making, Fetching
  <1>10. ASSUME NEW c \in Calls, CreatesConversion(c) PROVE TypeOK'
    BY <1>10, RecordTypes DEF CreatesConversion, Answers, CallsOK, CallOK,
       Making, Fetching, Statuses
  <1>11. ASSUME NEW c \in Calls, LooksAtResult(c) PROVE TypeOK'
    BY <1>11 DEF LooksAtResult, Notes, Moves, Requests, Points, CallsOK,
       CallOK, Making, Fetching
  <1>12. ASSUME NEW c \in Calls, ConsumesToken(c) PROVE TypeOK'
    <2>1. row' \in [Jobs -> Rows]
      BY <1>12, RecordTypes DEF ConsumesToken
    <2>2. call' \in [Calls -> Requests]
      BY <1>12 DEF ConsumesToken, Goes, Moves, Requests, Points, Times
    <2> QED BY <1>12, <2>1, <2>2 DEF ConsumesToken
  <1>13. ASSUME NEW c \in Calls, SendsResult(c) PROVE TypeOK'
    <2>1. call' \in [Calls -> Requests]
      BY <1>13, RecordTypes DEF SendsResult, Answers
    <2>2. call[c].job \in Jobs
      BY <1>13 DEF SendsResult, CallsOK, CallOK, Fetching
    <2>3. served' \in [Jobs -> Nat]
      BY <1>13, <2>2 DEF SendsResult
    <2> QED BY <1>13, <2>1, <2>3 DEF SendsResult
  <1>14. ASSUME NEW c \in Calls, ReadsJob(c) PROVE TypeOK'
    BY <1>14 DEF ReadsJob, Goes, Moves, Requests, Points, CallsOK, CallOK,
       Making, Fetching, Times
  <1>15. ASSUME NEW c \in Calls, WritesClaim(c) PROVE TypeOK'
    BY <1>15, RecordTypes DEF WritesClaim, Answers, CallsOK, CallOK, Making,
       Fetching
  <1>16. ASSUME NEW c \in Calls, Ends(c) PROVE TypeOK'
    BY <1>16, RecordTypes DEF Ends, Answers
  <1>17. ASSUME NEW j \in Jobs, Promotes(j) PROVE TypeOK'
    BY <1>17 DEF Promotes, Statuses
  <1>18. ASSUME NEW j \in Jobs, Completes(j) PROVE TypeOK'
    BY <1>18 DEF Completes, Statuses
  <1>19. ASSUME NEW j \in Jobs, MarksResult(j) PROVE TypeOK'
    <2>1. conv[j] \in {"completed", "review"}
      BY <1>19 DEF MarksResult, RowsOK, RowOK
    <2>2. row' \in [Jobs -> Rows]
      BY <1>19, <2>1, RecordTypes DEF MarksResult
    <2> QED BY <1>19, <2>2 DEF MarksResult
  <1>20. ASSUME NEW j \in Jobs, ConversionFails(j) PROVE TypeOK'
    BY <1>20 DEF ConversionFails, Statuses
  <1>21. ASSUME NEW j \in Jobs, Unlinks(j) PROVE TypeOK'
    BY <1>21 DEF Unlinks
  <1>22. ASSUME Selects PROVE TypeOK'
    BY <1>22 DEF Selects
  <1>23. ASSUME ExpiresJobs PROVE TypeOK'
    <2>1. \A j \in Jobs : (row[j].deleted \/ Overdue(j)) \in BOOLEAN
      BY DEF Rows, Overdue
    <2>2. row' \in [Jobs -> Rows]
      BY <1>23, <2>1, RecordTypes DEF ExpiresJobs
    <2> QED BY <1>23, <2>2, RecordTypes DEF ExpiresJobs
  <1>24. ASSUME SweepEnds PROVE TypeOK'
    BY <1>24, RecordTypes DEF SweepEnds
  <1>25. ASSUME Tick PROVE TypeOK'
    BY <1>25 DEF Tick, Times
  <1>26. CASE UNCHANGED vars
    BY <1>26 DEF vars
  <1> QED BY <1>1, <1>2, <1>3, <1>4, <1>5, <1>6, <1>7, <1>8, <1>9, <1>10,
          <1>11, <1>12, <1>13, <1>14, <1>15, <1>16, <1>17, <1>18, <1>19,
          <1>20, <1>21, <1>22, <1>23, <1>24, <1>25, <1>26 DEF Next, Trial,
          Download, Claim, Conversion, Sweep

-----------------------------------------------------------------------------
(* Rows, requests and the sweep *)

LEMMA RowsInv ==
    ASSUME IInv, [Next]_vars
    PROVE  RowsOK'
  <1> USE NumbersAssumption, NamesAssumption DEF IInv, TypeOK, RowsOK, RowOK,
          Exists, Completed, Produced, rowVars, fileVars
  <1>1. ASSUME NEW g \in Guests, CreatesSession(g) PROVE RowsOK'
    BY <1>1 DEF CreatesSession
  <1>2. ASSUME NEW g \in Guests, IssuesClaimToken(g) PROVE RowsOK'
    BY <1>2 DEF IssuesClaimToken
  <1>3. ASSUME NEW c \in Calls, NEW g \in Guests, StartsTrial(c, g)
       PROVE RowsOK'
    BY <1>3 DEF StartsTrial, Begins
  <1>4. ASSUME NEW c \in Calls, NEW j \in Jobs, StartsDownload(c, j)
       PROVE RowsOK'
    BY <1>4 DEF StartsDownload, Begins
  <1>5. ASSUME NEW c \in Calls, NEW g \in Guests, NEW j \in Jobs,
              NEW u \in Users, ReadsSession(c, g, j, u)
       PROVE RowsOK'
    BY <1>5 DEF ReadsSession, Begins
  <1>6. ASSUME NEW c \in Calls, ReadsDay(c) PROVE RowsOK'
    BY <1>6 DEF ReadsDay, Notes, Moves, CallsOK, CallOK, Making, Fetching
  <1>7. ASSUME NEW c \in Calls, TakesBudget(c) PROVE RowsOK'
    BY <1>7 DEF TakesBudget, CallsOK, CallOK, Making, Fetching
  <1>8. ASSUME NEW c \in Calls, StoresPdf(c) PROVE RowsOK'
    BY <1>8 DEF StoresPdf, Notes, Moves, CallsOK, CallOK, Making, Fetching,
       FreePath, NoRow, Paths
  <1>9. ASSUME NEW c \in Calls, CreatesJob(c) PROVE RowsOK'
    BY <1>9 DEF CreatesJob, Goes, Moves, CallsOK, CallOK, Making, Fetching,
       Times, Rows, NoRow
  <1>10. ASSUME NEW c \in Calls, CreatesConversion(c) PROVE RowsOK'
    BY <1>10 DEF CreatesConversion, Answers, CallsOK, CallOK, Making, Fetching
  <1>11. ASSUME NEW c \in Calls, LooksAtResult(c) PROVE RowsOK'
    BY <1>11 DEF LooksAtResult, Notes, Moves, CallsOK, CallOK, Making,
       Fetching
  <1>12. ASSUME NEW c \in Calls, ConsumesToken(c) PROVE RowsOK'
    BY <1>12 DEF ConsumesToken, Goes, Moves, CallsOK, CallOK, Making,
       Fetching, Rows, TokenGood, Visible
  <1>13. ASSUME NEW c \in Calls, SendsResult(c) PROVE RowsOK'
    BY <1>13 DEF SendsResult, Answers, CallsOK, CallOK, Making, Fetching
  <1>14. ASSUME NEW c \in Calls, ReadsJob(c) PROVE RowsOK'
    BY <1>14 DEF ReadsJob, Goes, Moves, CallsOK, CallOK, Making, Fetching
  <1>15. ASSUME NEW c \in Calls, WritesClaim(c) PROVE RowsOK'
    BY <1>15 DEF WritesClaim, Answers, CallsOK, CallOK, Making, Fetching, Rows
  <1>16. ASSUME NEW c \in Calls, Ends(c) PROVE RowsOK'
    BY <1>16 DEF Ends, Answers, CallsOK, CallOK, Making, Fetching
  <1>17. ASSUME NEW j \in Jobs, Promotes(j) PROVE RowsOK'
    BY <1>17 DEF Promotes
  <1>18. ASSUME NEW j \in Jobs, Completes(j) PROVE RowsOK'
    BY <1>18 DEF Completes
  <1>19. ASSUME NEW j \in Jobs, MarksResult(j) PROVE RowsOK'
    <2>1. Exists(j)
      BY <1>19 DEF MarksResult
    <2>2. CASE row[j].deleted
      BY <1>19, <2>2 DEF MarksResult
    <2>3. CASE ~row[j].deleted
      BY <1>19, <2>1, <2>3 DEF MarksResult, Rows
    <2> QED BY <2>2, <2>3
  <1>20. ASSUME NEW j \in Jobs, ConversionFails(j) PROVE RowsOK'
    BY <1>20 DEF ConversionFails
  <1>21. ASSUME NEW j \in Jobs, Unlinks(j) PROVE RowsOK'
    BY <1>21 DEF Unlinks, SweepOK, Rows, Times
  <1>22. ASSUME Selects PROVE RowsOK'
    BY <1>22 DEF Selects
  <1>23. ASSUME ExpiresJobs PROVE RowsOK'
    <2> SUFFICES ASSUME NEW j \in Jobs PROVE RowOK(j)'
      BY DEF RowsOK
    <2>1. row'[j] = [row[j] EXCEPT !.deleted = row[j].deleted \/ Overdue(j)]
      BY <1>23 DEF ExpiresJobs
    <2>2. CASE Overdue(j)
      <3>1. row'[j] = [row[j] EXCEPT !.deleted = TRUE]
        BY <2>1, <2>2
      <3>2. ~(row[j].expires > clock) /\ Exists(j) /\ RowOK(j)
        BY <2>2 DEF Overdue, Rows, Times
      <3>3. /\ row'[j].expires = row[j].expires /\ row'[j].status = row[j].status
            /\ row'[j].downloaded = row[j].downloaded
        BY <3>1 DEF Rows
      <3> QED BY <1>23, <3>2, <3>3 DEF ExpiresJobs
    <2>3. CASE ~Overdue(j)
      <3>1. row'[j] = row[j]
        BY <2>1, <2>3 DEF Rows
      <3> QED BY <1>23, <3>1 DEF ExpiresJobs
    <2> QED BY <2>2, <2>3
  <1>24. ASSUME SweepEnds PROVE RowsOK'
    BY <1>24 DEF SweepEnds, SweepOK, Rows, Times
  <1>25. ASSUME Tick PROVE RowsOK'
    BY <1>25 DEF Tick, Times, Rows
  <1>26. CASE UNCHANGED vars
    BY <1>26 DEF vars
  <1> QED BY <1>1, <1>2, <1>3, <1>4, <1>5, <1>6, <1>7, <1>8, <1>9, <1>10,
          <1>11, <1>12, <1>13, <1>14, <1>15, <1>16, <1>17, <1>18, <1>19,
          <1>20, <1>21, <1>22, <1>23, <1>24, <1>25, <1>26 DEF Next, Trial,
          Download, Claim, Conversion, Sweep

LEMMA CallsInv ==
    ASSUME IInv, [Next]_vars
    PROVE  CallsOK'
  <1> USE NumbersAssumption, NamesAssumption DEF IInv, TypeOK, CallsOK,
          CallOK, Making, Fetching, Exists, Completed, Distinct, Apart,
          rowVars, fileVars
  <1>1. ASSUME NEW g \in Guests, CreatesSession(g) PROVE CallsOK'
    BY <1>1 DEF CreatesSession
  <1>2. ASSUME NEW g \in Guests, IssuesClaimToken(g) PROVE CallsOK'
    BY <1>2 DEF IssuesClaimToken
  <1>3. ASSUME NEW c \in Calls, NEW g \in Guests, StartsTrial(c, g)
       PROVE CallsOK'
    BY <1>3 DEF StartsTrial, Begins, Idle
  <1>4. ASSUME NEW c \in Calls, NEW j \in Jobs, StartsDownload(c, j)
       PROVE CallsOK'
    BY <1>4 DEF StartsDownload, Begins, Idle, Visible
  <1>5. ASSUME NEW c \in Calls, NEW g \in Guests, NEW j \in Jobs,
              NEW u \in Users, ReadsSession(c, g, j, u)
       PROVE CallsOK'
    BY <1>5 DEF ReadsSession, Begins, Idle
  <1>6. ASSUME NEW c \in Calls, ReadsDay(c) PROVE CallsOK'
    BY <1>6 DEF ReadsDay, Notes, Moves, SweepOK
  <1>7. ASSUME NEW c \in Calls, TakesBudget(c) PROVE CallsOK'
    BY <1>7 DEF TakesBudget, RowsOK, RowOK
  <1>8. ASSUME NEW c \in Calls, StoresPdf(c) PROVE CallsOK'
    BY <1>8 DEF StoresPdf, Notes, Moves, FreePath, Paths
  <1>9. ASSUME NEW c \in Calls, CreatesJob(c) PROVE CallsOK'
    BY <1>9 DEF CreatesJob, Goes, Moves, RowsOK, RowOK, Rows
  <1>10. ASSUME NEW c \in Calls, CreatesConversion(c) PROVE CallsOK'
    BY <1>10 DEF CreatesConversion, Answers, Idle
  <1>11. ASSUME NEW c \in Calls, LooksAtResult(c) PROVE CallsOK'
    BY <1>11 DEF LooksAtResult, Notes, Moves, SeesResult
  <1>12. ASSUME NEW c \in Calls, ConsumesToken(c) PROVE CallsOK'
    BY <1>12 DEF ConsumesToken, Goes, Moves, TokenGood, RowsOK, RowOK, Rows
  <1>13. ASSUME NEW c \in Calls, SendsResult(c) PROVE CallsOK'
    BY <1>13 DEF SendsResult, Answers, Idle
  <1>14. ASSUME NEW c \in Calls, ReadsJob(c) PROVE CallsOK'
    BY <1>14 DEF ReadsJob, Goes, Moves, Visible
  <1>15. ASSUME NEW c \in Calls, WritesClaim(c) PROVE CallsOK'
    BY <1>15 DEF WritesClaim, Answers, Idle, RowsOK, RowOK, Rows
  <1>16. ASSUME NEW c \in Calls, Ends(c) PROVE CallsOK'
    BY <1>16 DEF Ends, Answers, Idle
  <1>17. ASSUME NEW j \in Jobs, Promotes(j) PROVE CallsOK'
    BY <1>17 DEF Promotes, RowsOK, RowOK
  <1>18. ASSUME NEW j \in Jobs, Completes(j) PROVE CallsOK'
    BY <1>18 DEF Completes, RowsOK, RowOK
  <1>19. ASSUME NEW j \in Jobs, MarksResult(j) PROVE CallsOK'
    BY <1>19 DEF MarksResult, RowsOK, RowOK, Rows
  <1>20. ASSUME NEW j \in Jobs, ConversionFails(j) PROVE CallsOK'
    BY <1>20 DEF ConversionFails, RowsOK, RowOK
  <1>21. ASSUME NEW j \in Jobs, Unlinks(j) PROVE CallsOK'
    BY <1>21 DEF Unlinks, SweepOK, RowsOK, RowOK
  <1>22. ASSUME Selects PROVE CallsOK'
    BY <1>22 DEF Selects
  <1>23. ASSUME ExpiresJobs PROVE CallsOK'
    BY <1>23 DEF ExpiresJobs, RowsOK, RowOK, Rows
  <1>24. ASSUME SweepEnds PROVE CallsOK'
    BY <1>24 DEF SweepEnds, SweepOK, RowsOK, RowOK
  <1>25. ASSUME Tick PROVE CallsOK'
    BY <1>25 DEF Tick
  <1>26. CASE UNCHANGED vars
    BY <1>26 DEF vars
  <1> QED BY <1>1, <1>2, <1>3, <1>4, <1>5, <1>6, <1>7, <1>8, <1>9, <1>10,
          <1>11, <1>12, <1>13, <1>14, <1>15, <1>16, <1>17, <1>18, <1>19,
          <1>20, <1>21, <1>22, <1>23, <1>24, <1>25, <1>26 DEF Next, Trial,
          Download, Claim, Conversion, Sweep

LEMMA DistinctInv ==
    ASSUME IInv, [Next]_vars
    PROVE  Distinct'
  <1> USE DEF IInv, TypeOK, Distinct, Apart, Making, rowVars, fileVars
  <1>1. ASSUME NEW g \in Guests, CreatesSession(g) PROVE Distinct'
    BY <1>1 DEF CreatesSession
  <1>2. ASSUME NEW g \in Guests, IssuesClaimToken(g) PROVE Distinct'
    BY <1>2 DEF IssuesClaimToken
  <1>3. ASSUME NEW c \in Calls, NEW g \in Guests, StartsTrial(c, g)
       PROVE Distinct'
    BY <1>3 DEF StartsTrial, Begins
  <1>4. ASSUME NEW c \in Calls, NEW j \in Jobs, StartsDownload(c, j)
       PROVE Distinct'
    BY <1>4 DEF StartsDownload, Begins
  <1>5. ASSUME NEW c \in Calls, NEW g \in Guests, NEW j \in Jobs,
              NEW u \in Users, ReadsSession(c, g, j, u)
       PROVE Distinct'
    BY <1>5 DEF ReadsSession, Begins
  <1>6. ASSUME NEW c \in Calls, ReadsDay(c) PROVE Distinct'
    BY <1>6 DEF ReadsDay, Notes, Moves
  <1>7. ASSUME NEW c \in Calls, TakesBudget(c) PROVE Distinct'
    BY <1>7 DEF TakesBudget, CallsOK, CallOK
  <1>8. ASSUME NEW c \in Calls, StoresPdf(c) PROVE Distinct'
    BY <1>8 DEF StoresPdf, Notes, Moves
  <1>9. ASSUME NEW c \in Calls, CreatesJob(c) PROVE Distinct'
    BY <1>9 DEF CreatesJob, Goes, Moves
  <1>10. ASSUME NEW c \in Calls, CreatesConversion(c) PROVE Distinct'
    BY <1>10 DEF CreatesConversion, Answers, Idle
  <1>11. ASSUME NEW c \in Calls, LooksAtResult(c) PROVE Distinct'
    BY <1>11 DEF LooksAtResult, Notes, Moves
  <1>12. ASSUME NEW c \in Calls, ConsumesToken(c) PROVE Distinct'
    BY <1>12 DEF ConsumesToken, Goes, Moves, CallsOK, CallOK, TokenGood
  <1>13. ASSUME NEW c \in Calls, SendsResult(c) PROVE Distinct'
    BY <1>13 DEF SendsResult, Answers, Idle
  <1>14. ASSUME NEW c \in Calls, ReadsJob(c) PROVE Distinct'
    BY <1>14 DEF ReadsJob, Goes, Moves
  <1>15. ASSUME NEW c \in Calls, WritesClaim(c) PROVE Distinct'
    BY <1>15 DEF WritesClaim, Answers, Idle
  <1>16. ASSUME NEW c \in Calls, Ends(c) PROVE Distinct'
    BY <1>16 DEF Ends, Answers, Idle
  <1>17. ASSUME NEW j \in Jobs, Promotes(j) PROVE Distinct'
    BY <1>17 DEF Promotes
  <1>18. ASSUME NEW j \in Jobs, Completes(j) PROVE Distinct'
    BY <1>18 DEF Completes
  <1>19. ASSUME NEW j \in Jobs, MarksResult(j) PROVE Distinct'
    BY <1>19 DEF MarksResult
  <1>20. ASSUME NEW j \in Jobs, ConversionFails(j) PROVE Distinct'
    BY <1>20 DEF ConversionFails
  <1>21. ASSUME NEW j \in Jobs, Unlinks(j) PROVE Distinct'
    BY <1>21 DEF Unlinks
  <1>22. ASSUME Selects PROVE Distinct'
    BY <1>22 DEF Selects
  <1>23. ASSUME ExpiresJobs PROVE Distinct'
    BY <1>23 DEF ExpiresJobs
  <1>24. ASSUME SweepEnds PROVE Distinct'
    BY <1>24 DEF SweepEnds
  <1>25. ASSUME Tick PROVE Distinct'
    BY <1>25 DEF Tick
  <1>26. CASE UNCHANGED vars
    BY <1>26 DEF vars
  <1> QED BY <1>1, <1>2, <1>3, <1>4, <1>5, <1>6, <1>7, <1>8, <1>9, <1>10,
          <1>11, <1>12, <1>13, <1>14, <1>15, <1>16, <1>17, <1>18, <1>19,
          <1>20, <1>21, <1>22, <1>23, <1>24, <1>25, <1>26 DEF Next, Trial,
          Download, Claim, Conversion, Sweep

LEMMA SweepInv ==
    ASSUME IInv, [Next]_vars
    PROVE  SweepOK'
  <1> USE NumbersAssumption DEF IInv, TypeOK, SweepOK, Exists, Times, rowVars,
          fileVars
  <1>1. ASSUME NEW g \in Guests, CreatesSession(g) PROVE SweepOK'
    BY <1>1 DEF CreatesSession
  <1>2. ASSUME NEW g \in Guests, IssuesClaimToken(g) PROVE SweepOK'
    BY <1>2 DEF IssuesClaimToken
  <1>3. ASSUME NEW c \in Calls, NEW g \in Guests, StartsTrial(c, g)
       PROVE SweepOK'
    BY <1>3 DEF StartsTrial, Begins
  <1>4. ASSUME NEW c \in Calls, NEW j \in Jobs, StartsDownload(c, j)
       PROVE SweepOK'
    BY <1>4 DEF StartsDownload, Begins
  <1>5. ASSUME NEW c \in Calls, NEW g \in Guests, NEW j \in Jobs,
              NEW u \in Users, ReadsSession(c, g, j, u)
       PROVE SweepOK'
    BY <1>5 DEF ReadsSession, Begins
  <1>6. ASSUME NEW c \in Calls, ReadsDay(c) PROVE SweepOK'
    BY <1>6 DEF ReadsDay, Notes, Moves
  <1>7. ASSUME NEW c \in Calls, TakesBudget(c) PROVE SweepOK'
    BY <1>7 DEF TakesBudget
  <1>8. ASSUME NEW c \in Calls, StoresPdf(c) PROVE SweepOK'
    BY <1>8 DEF StoresPdf, Notes, Moves
  <1>9. ASSUME NEW c \in Calls, CreatesJob(c) PROVE SweepOK'
    BY <1>9 DEF CreatesJob, Goes, Moves, Rows, CallsOK, CallOK, Making
  <1>10. ASSUME NEW c \in Calls, CreatesConversion(c) PROVE SweepOK'
    BY <1>10 DEF CreatesConversion, Answers
  <1>11. ASSUME NEW c \in Calls, LooksAtResult(c) PROVE SweepOK'
    BY <1>11 DEF LooksAtResult, Notes, Moves
  <1>12. ASSUME NEW c \in Calls, ConsumesToken(c) PROVE SweepOK'
    BY <1>12 DEF ConsumesToken, Goes, Moves, Rows
  <1>13. ASSUME NEW c \in Calls, SendsResult(c) PROVE SweepOK'
    BY <1>13 DEF SendsResult, Answers
  <1>14. ASSUME NEW c \in Calls, ReadsJob(c) PROVE SweepOK'
    BY <1>14 DEF ReadsJob, Goes, Moves
  <1>15. ASSUME NEW c \in Calls, WritesClaim(c) PROVE SweepOK'
    BY <1>15 DEF WritesClaim, Answers, Rows
  <1>16. ASSUME NEW c \in Calls, Ends(c) PROVE SweepOK'
    BY <1>16 DEF Ends, Answers
  <1>17. ASSUME NEW j \in Jobs, Promotes(j) PROVE SweepOK'
    BY <1>17 DEF Promotes
  <1>18. ASSUME NEW j \in Jobs, Completes(j) PROVE SweepOK'
    BY <1>18 DEF Completes
  <1>19. ASSUME NEW j \in Jobs, MarksResult(j) PROVE SweepOK'
    BY <1>19 DEF MarksResult, Rows, RowsOK, RowOK
  <1>20. ASSUME NEW j \in Jobs, ConversionFails(j) PROVE SweepOK'
    BY <1>20 DEF ConversionFails
  <1>21. ASSUME NEW j \in Jobs, Unlinks(j) PROVE SweepOK'
    BY <1>21 DEF Unlinks
  <1>22. ASSUME Selects PROVE SweepOK'
    BY <1>22 DEF Selects, Overdue
  <1>23. ASSUME ExpiresJobs PROVE SweepOK'
    BY <1>23 DEF ExpiresJobs, Rows, NoSweep
  <1>24. ASSUME SweepEnds PROVE SweepOK'
    BY <1>24 DEF SweepEnds, NoSweep
  <1>25. ASSUME Tick PROVE SweepOK'
    BY <1>25 DEF Tick, Rows
  <1>26. CASE UNCHANGED vars
    BY <1>26 DEF vars
  <1> QED BY <1>1, <1>2, <1>3, <1>4, <1>5, <1>6, <1>7, <1>8, <1>9, <1>10,
          <1>11, <1>12, <1>13, <1>14, <1>15, <1>16, <1>17, <1>18, <1>19,
          <1>20, <1>21, <1>22, <1>23, <1>24, <1>25, <1>26 DEF Next, Trial,
          Download, Claim, Conversion, Sweep

-----------------------------------------------------------------------------
(* The budget *)

LEMMA OneMore ==
    ASSUME NEW S, IsFiniteSet(S), NEW x
    PROVE  /\ IsFiniteSet(S \cup {x})
           /\ Cardinality(S \cup {x}) <= Cardinality(S) + 1
  <1>1. Cardinality(S) \in Nat
    BY FS_CardinalityType
  <1>2. Cardinality(S \cup {x}) = IF x \in S THEN Cardinality(S) ELSE Cardinality(S) + 1
    BY FS_AddElement
  <1>3. IsFiniteSet(S \cup {x})
    BY FS_AddElement
  <1> QED BY <1>1, <1>2, <1>3

\* Only TakesBudget records an event, and it leaves every other day alone.
LEMMA DaysInv ==
    ASSUME IInv, [Next]_vars
    PROVE  DaysHold'
  <1> USE DEF IInv, TypeOK
  <1>1. ASSUME UNCHANGED paid PROVE DaysHold'
    BY <1>1 DEF DaysHold, DayHolds
  <1>2. ASSUME NEW c \in Calls, TakesBudget(c) PROVE DaysHold'
    <2>1. PICK j \in Jobs : /\ paid[j] = 0
                            /\ paid' = [paid EXCEPT ![j] = call[c].now]
      BY <1>2 DEF TakesBudget
    <2> DEFINE On(d) == {i \in Jobs : paid[i] # 0 /\ Day(paid[i]) = d}
               Since == {i \in Jobs : paid[i] # 0 /\ Day(paid[i]) >= Day(call[c].now)}
    <2>2. call[c].now \in Times
      BY DEF Requests
    <2>3. \A t \in Times : Day(t) \in Int
      BY NumbersAssumption DEF Day, Times
    <2> SUFFICES ASSUME NEW t \in Times PROVE DayHolds(Day(t))'
      BY DEF DaysHold
    <2>4. CASE Day(t) = Day(call[c].now)
      <3>1. IsFiniteSet(Since) /\ Cardinality(Since) < DailyBudget
        <4>1. Since \in SUBSET Jobs
          OBVIOUS
        <4> QED BY <1>2, <4>1, JobsAssumption, FS_Subset DEF TakesBudget, BudgetLeft
      <3>2. On(Day(t)) \in SUBSET Since
        BY <2>2, <2>3, <2>4
      <3>3. IsFiniteSet(On(Day(t))) /\ Cardinality(On(Day(t))) <= Cardinality(Since)
        BY <3>1, <3>2, FS_Subset
      <3>4. /\ Cardinality(Since) \in Nat
            /\ Cardinality(On(Day(t))) \in Nat
        BY <3>1, <3>3, FS_CardinalityType
      <3>5. Cardinality(On(Day(t)) \cup {j}) <= Cardinality(On(Day(t))) + 1
        BY <3>3, OneMore
      <3>6. On(Day(t))' \in SUBSET (On(Day(t)) \cup {j})
        BY <2>1
      <3>7. IsFiniteSet(On(Day(t)) \cup {j})
        BY <3>3, OneMore
      <3>8. Cardinality(On(Day(t))') <= Cardinality(On(Day(t)) \cup {j})
        BY <3>6, <3>7, FS_Subset
      <3>9. /\ Cardinality(On(Day(t))') \in Nat
            /\ Cardinality(On(Day(t)) \cup {j}) \in Nat
        BY <3>6, <3>7, FS_Subset, FS_CardinalityType
      <3>10. Cardinality(On(Day(t))') <= DailyBudget
        BY <3>1, <3>3, <3>4, <3>5, <3>8, <3>9, NumbersAssumption
      <3> QED BY <3>10 DEF DayHolds
    <2>5. CASE Day(t) # Day(call[c].now)
      <3>1. On(Day(t))' = On(Day(t))
        BY <2>1, <2>5
      <3>2. DayHolds(Day(t))
        BY DEF DaysHold
      <3> QED BY <3>1, <3>2 DEF DayHolds
    <2> QED BY <2>4, <2>5
  <1>3. UNCHANGED paid \/ \E c \in Calls : TakesBudget(c)
    BY DEF Next, Trial, Download, Claim, Conversion, Sweep, vars, rowVars, fileVars,
           CreatesSession, IssuesClaimToken, StartsTrial, ReadsDay, StoresPdf,
           CreatesJob, CreatesConversion, StartsDownload, LooksAtResult,
           ConsumesToken, SendsResult, ReadsSession, ReadsJob, WritesClaim,
           Ends, Promotes, Completes, MarksResult, ConversionFails, Selects,
           Unlinks, ExpiresJobs, SweepEnds, Tick
  <1> QED BY <1>1, <1>2, <1>3

-----------------------------------------------------------------------------
(* Theorems *)

LEMMA InitInv == Init => IInv
  <1> SUFFICES ASSUME Init PROVE IInv
    OBVIOUS
  <1>1. TypeOK
    <2>1. NoRow \in Rows
      BY DEF NoRow, Rows
    <2>2. clock \in Times /\ 0 \in Times
      BY NumbersAssumption DEF Init, Times
    <2>3. session \in [Guests -> Sessions]
      BY DEF Init, Sessions
    <2>4. conv \in [Jobs -> Statuses]
      BY DEF Init, Statuses
    <2> QED BY <2>1, <2>2, <2>3, <2>4, RecordTypes DEF Init, TypeOK
  <1>2. RowsOK
    BY DEF Init, RowsOK, RowOK, Exists, NoRow
  <1>3. CallsOK /\ Distinct /\ SweepOK
    BY DEF Init, CallsOK, CallOK, Distinct, Apart, SweepOK, Idle, NoSweep,
           Making, Fetching
  <1>4. DaysHold
    <2>1. \A d : {j \in Jobs : paid[j] # 0 /\ Day(paid[j]) = d} = {}
      BY DEF Init
    <2> QED BY <2>1, FS_EmptySet, NumbersAssumption DEF DaysHold, DayHolds
  <1> QED BY <1>1, <1>2, <1>3, <1>4 DEF IInv

LEMMA NextInv == IInv /\ [Next]_vars => IInv'
  BY TypeInv, RowsInv, CallsInv, DistinctInv, SweepInv, DaysInv DEF IInv

\* The invariant holds of every reachable state.
THEOREM Invariance == Spec => []IInv
  <1> QED BY InitInv, NextInv, PTL DEF Spec

\* The tables, the requests and the sweep hold what the types say.
THEOREM TypeCorrect == Spec => []TypeOK
  <1>1. IInv => TypeOK
    BY DEF IInv
  <1> QED BY <1>1, Invariance, PTL

\* consume_guest_result_token lets one download of a trial through, whatever
\* claims, sweeps and other downloads run beside it.
THEOREM SentOnce == Spec => []ServedOnce
  <1>1. IInv => ServedOnce
    BY DEF IInv, RowsOK, RowOK, ServedOnce
  <1> QED BY <1>1, Invariance, PTL

\* consume_daily_quota keeps the trials of every day within the budget, and
\* nothing is stored without an event.
THEOREM Budget == Spec => []BudgetHolds
  <1>1. IInv => BudgetHolds
    BY DEF IInv, DaysHold, DayHolds, RowsOK, RowOK, BudgetHolds
  <1> QED BY <1>1, Invariance, PTL

\* The sweep leaves every job alone whose time is not over.
THEOREM Kept == Spec => []LiveJobIsKept
  <1>1. IInv => LiveJobIsKept
    BY DEF IInv, RowsOK, RowOK, Completed, Produced, LiveJobIsKept
  <1> QED BY <1>1, Invariance, PTL

\* A result token is spent on a completed conversion only.
THEOREM Spending == Spec => []TokenSpentOnResult
  <1>1. IInv => TokenSpentOnResult
    BY DEF IInv, RowsOK, RowOK, TokenSpentOnResult
  <1> QED BY <1>1, Invariance, PTL

-----------------------------------------------------------------------------
(* A distortion run *)

PageOK(p) ==
    /\ pageState[p] \in {"none", "processing", "complete"} => ~errorSet[p]
    /\ pageState[p] = "queued" /\ errorSet[p] => RetriesLeft(p)

BatchOK(b) ==
    /\ at[b] = "registering" /\ ~resuming[b] => records[b] = {}
    /\ at[b] \in {"reopening", "claiming", "working", "recording"} =>
         Here(b) \notin records[b]
    /\ at[b] = "finishing" => Here(b) \in records[b]
    /\ at[b] \notin {"off", "registering"} => outcome # "none"

AloneOK(b) ==
    alone[b] /\ at[b] # "off" =>
      /\ \A c \in Batches : at[c] # "off" => c = b
      /\ at[b] # "registering" \/ resuming[b] => records[b] = manifest
      /\ at[b] = "claiming" => pageState[Here(b)] # "complete"
      /\ resuming[b] /\ at[b] # "registering" =>
           \A p \in Pages :
             p < Here(b) => (pageState[p] = "complete" <=> p \in manifest)

AttemptOK(p) ==
    IF p \in manifest
      THEN /\ attempts[p] <= MaxRetries + 1
           /\ pageState[p] = "processing" => attempts[p] <= MaxRetries
      ELSE attempts[p] = IF errorSet[p] THEN retryCount[p] + 1
                                        ELSE retryCount[p]

NoOverlapOK ==
    ~overlapped =>
      /\ \A b \in Batches : at[b] # "off" => alone[b]
      /\ manifest \subseteq images
      /\ \A p \in Pages : AttemptOK(p)

DistortionIInv ==
    /\ DistortionTypeOK
    /\ \A p \in Pages : PageOK(p)
    /\ outcome = "none" => manifest = {}
    /\ \A b \in Batches : BatchOK(b) /\ AloneOK(b)
    /\ NoOverlapOK

LEMMA DistortionInitial == DistortionInit => DistortionIInv
  <1> SUFFICES ASSUME DistortionInit PROVE DistortionIInv
    OBVIOUS
  <1> USE DistortionAssumption DEF DistortionInit
  <1>1. /\ pageAt \in [Batches -> 1..(PageCount + 1)]
        /\ retryCount \in [Pages -> 0..MaxRetries]
        /\ attempts \in [Pages -> Nat] /\ begun \in 0..MaxBegins
    OBVIOUS
  <1>2. DistortionTypeOK
    BY <1>1, Zenon DEF DistortionTypeOK, PageStates, BatchPlaces
  <1>3. \A p \in Pages : PageOK(p)
    BY DEF PageOK
  <1>4. \A b \in Batches : BatchOK(b) /\ AloneOK(b)
    BY DEF BatchOK, AloneOK
  <1>5. NoOverlapOK
    BY DEF NoOverlapOK, AttemptOK
  <1> QED
    BY <1>2, <1>3, <1>4, <1>5 DEF DistortionIInv

\* What a step of one batch changes of the batches
BatchMoves(b) ==
    /\ at' \in [Batches -> BatchPlaces]
    /\ pageAt' \in [Batches -> 1..(PageCount + 1)]
    /\ records' \in [Batches -> SUBSET Pages]
    /\ \A c \in Batches \ {b} : /\ at'[c] = at[c] /\ pageAt'[c] = pageAt[c]
                                /\ records'[c] = records[c]
    /\ at'[b] \notin {"off", "registering", "page"} => pageAt'[b] \in Pages
    /\ UNCHANGED <<resuming, begun, alone, overlapped>>

\* What it keeps of the index, the files and the run
IndexOK ==
    /\ pageState \in [Pages -> PageStates]
    /\ retryCount \in [Pages -> 0..MaxRetries]
    /\ errorSet \in [Pages -> BOOLEAN]
    /\ manifest \in SUBSET Pages /\ images \in SUBSET Pages
    /\ outcome \in {"none", "processing", "interrupted", "complete"}
    /\ attempts \in [Pages -> Nat]
    /\ \A p \in Pages : PageOK(p)
    /\ outcome = "none" => manifest = {}

\* A batch that does not run is not alone with the one that does, so a step
\* has to be looked at for the batch that takes it.
LEMMA OneBatch ==
  ASSUME DistortionIInv, NEW b \in Batches, at[b] # "off", BatchMoves(b), IndexOK',
         outcome # "none" => outcome' # "none",
         BatchOK(b)', AloneOK(b)',
         ~overlapped => /\ (manifest \subseteq images)'
                        /\ (\A p \in Pages : AttemptOK(p))'
  PROVE  DistortionIInv'
  <1>1. DistortionTypeOK'
    BY DEF DistortionIInv, DistortionTypeOK, BatchMoves, IndexOK
  <1>2. ASSUME NEW c \in Batches, c # b PROVE BatchOK(c)' /\ AloneOK(c)'
    <2>1. BatchOK(c)'
      BY <1>2 DEF DistortionIInv, BatchOK, BatchMoves, Here
    <2>2. AloneOK(c)'
      BY <1>2 DEF DistortionIInv, AloneOK, BatchMoves
    <2> QED
      BY <2>1, <2>2
  <1>3. NoOverlapOK'
    BY DEF DistortionIInv, NoOverlapOK, BatchMoves
  <1> QED
    BY <1>1, <1>2, <1>3 DEF DistortionIInv, IndexOK

LEMMA GoesOn ==
  ASSUME DistortionTypeOK, NEW b \in Batches, Here(b) \in Pages, NextPage(b),
         UNCHANGED <<records, resuming, begun, alone, overlapped>>
  PROVE  BatchMoves(b) /\ at'[b] = "page" /\ Here(b)' = Here(b) + 1
  BY DistortionAssumption
  DEF DistortionTypeOK, NextPage, GoesTo, BatchMoves, Here, Pages, BatchPlaces

LEMMA StaysThere ==
  ASSUME DistortionTypeOK, NEW b \in Batches, NEW place \in BatchPlaces,
         StaysAt(b, place),
         place \in {"off", "registering", "page"} \/ Here(b) \in Pages,
         UNCHANGED <<records, resuming, begun, alone, overlapped>>
  PROVE  BatchMoves(b) /\ at'[b] = place /\ Here(b)' = Here(b)
  BY DEF DistortionTypeOK, StaysAt, GoesTo, BatchMoves, Here

\* While it runs alone, nothing else is at work.
LEMMA OnlyOne ==
  ASSUME DistortionIInv, NEW b \in Batches, at[b] # "off", alone[b], BatchMoves(b)
  PROVE  \A c \in Batches : at'[c] # "off" => c = b
  BY DEF DistortionIInv, AloneOK, BatchMoves

\* A batch ends, and leaves the index and the files as they are.
LEMMA StopSteps ==
  ASSUME DistortionIInv, NEW b \in Batches,
         IsRefused(b) \/ FindsImage(b) \/ EndsRun(b) \/ BatchDies(b)
  PROVE  DistortionIInv'
  <1>1. /\ at[b] # "off" /\ Dies(b)
        /\ UNCHANGED <<indexVars, pageFileVars, records, resuming, historyVars>>
        /\ outcome' \in {outcome, "complete"}
    BY DEF IsRefused, FindsImage, EndsRun, BatchDies
  <1>2. UNCHANGED <<pageState, retryCount, errorSet, manifest, images, begun,
                    attempts, alone, overlapped, records, resuming>>
    BY <1>1 DEF indexVars, pageFileVars, historyVars
  <1>3. BatchMoves(b) /\ at'[b] = "off"
    BY <1>1, <1>2, StaysThere DEF Dies, DistortionIInv, BatchPlaces
  <1>4. IndexOK' /\ (outcome # "none" => outcome' # "none")
    BY <1>1, <1>2 DEF IndexOK, DistortionIInv, DistortionTypeOK, PageOK,
                      RetriesLeft
  <1>5. BatchOK(b)' /\ AloneOK(b)'
    BY <1>3 DEF BatchOK, AloneOK
  <1>6. ~overlapped => /\ (manifest \subseteq images)'
                       /\ (\A p \in Pages : AttemptOK(p))'
    BY <1>2 DEF DistortionIInv, NoOverlapOK, AttemptOK
  <1> QED
    BY <1>1, <1>3, <1>4, <1>5, <1>6, OneBatch

\* Where the pages a batch works on are, by the type invariant
LEMMA HerePage ==
  ASSUME DistortionTypeOK, NEW b \in Batches,
         at[b] \notin {"off", "registering", "page"}
  PROVE  Here(b) \in Pages
  BY DEF DistortionTypeOK, Here

\* What a batch knows while no two have worked at once
LEMMA SoleBatch ==
  ASSUME DistortionIInv, NEW b \in Batches,
         at[b] \notin {"off", "registering"}, ~overlapped
  PROVE  /\ records[b] = manifest /\ manifest \subseteq images
         /\ \A p \in Pages : AttemptOK(p)
  BY DEF DistortionIInv, NoOverlapOK, AloneOK

LEMMA ReconcileStep ==
  ASSUME DistortionIInv, NEW b \in Batches, SkipsRecorded(b)
  PROVE  DistortionIInv'
  <1> DEFINE p == Here(b)
  <1>1. /\ at[b] = "page" /\ p \in Pages /\ p \in records[b]
        /\ UNCHANGED <<retryCount, manifest, images, outcome, records,
                       resuming, begun, attempts, alone, overlapped>>
    BY DEF SkipsRecorded, AtPage, HasRecord, pageFileVars, historyVars
  <1>2. CASE p \in images
    <2>1. /\ pageState' = [pageState EXCEPT ![p] = "complete"]
          /\ errorSet' = [errorSet EXCEPT ![p] = FALSE]
          /\ NextPage(b)
      BY <1>2 DEF SkipsRecorded, Reconciles
    <2>2. BatchMoves(b) /\ at'[b] = "page" /\ Here(b)' = p + 1
      BY <1>1, <2>1, GoesOn DEF DistortionIInv
    <2> HIDE DEF p
    <2>3. \A q \in Pages :
             /\ pageState'[q] = IF q = p THEN "complete" ELSE pageState[q]
             /\ errorSet'[q] = IF q = p THEN FALSE ELSE errorSet[q]
      BY <2>1 DEF DistortionIInv, DistortionTypeOK
    <2>4. \A q \in Pages : PageOK(q)'
      BY <1>1, <2>3 DEF DistortionIInv, PageOK, RetriesLeft
    <2>5. IndexOK'
      BY <1>1, <2>1, <2>4 DEF IndexOK, DistortionIInv, DistortionTypeOK,
                              PageStates
    <2>6. BatchOK(b)'
      BY <1>1, <2>2 DEF BatchOK, DistortionIInv
    <2>7. AloneOK(b)'
      <3>1. SUFFICES ASSUME alone[b] PROVE AloneOK(b)'
        BY <1>1 DEF AloneOK
      <3>2. records[b] = manifest
        BY <1>1, <3>1 DEF DistortionIInv, AloneOK
      <3>3. \A c \in Batches : at'[c] # "off" => c = b
        BY <1>1, <2>2, <3>1, OnlyOne
      <3>4. ASSUME resuming[b], NEW q \in Pages, q < p + 1
            PROVE  pageState'[q] = "complete" <=> q \in manifest
        <4>1. CASE q = p
          BY <1>1, <2>3, <3>2, <4>1
        <4>2. CASE q # p
          <5>1. q < Here(b)
            BY <1>1, <3>4, <4>2 DEF p, Pages
          <5> QED
            BY <1>1, <2>3, <3>1, <3>4, <4>2, <5>1 DEF DistortionIInv, AloneOK
        <4> QED
          BY <4>1, <4>2
      <3> QED
        BY <1>1, <2>2, <3>2, <3>3, <3>4 DEF AloneOK
    <2>8. ASSUME ~overlapped PROVE \A q \in Pages : AttemptOK(q)'
      <3>1. p \in manifest /\ \A q \in Pages : AttemptOK(q)
        BY <1>1, <2>8, SoleBatch
      <3> QED
        BY <1>1, <2>3, <3>1 DEF AttemptOK
    <2> QED
      BY <1>1, <2>2, <2>5, <2>6, <2>7, <2>8, SoleBatch, OneBatch
  <1>3. CASE p \notin images
    <2>1. /\ pageState' = [pageState EXCEPT ![p] = Queued(p)]
          /\ UNCHANGED errorSet /\ Dies(b)
      BY <1>3 DEF SkipsRecorded, LeavesIndex
    <2>2. BatchMoves(b) /\ at'[b] = "off"
      BY <1>1, <2>1, StaysThere DEF Dies, DistortionIInv, BatchPlaces
    <2> HIDE DEF p
    <2>3. \A q \in Pages :
             \/ pageState'[q] = pageState[q]
             \/ pageState[q] = "none" /\ pageState'[q] = "queued"
      BY <2>1 DEF DistortionIInv, DistortionTypeOK, Queued
    <2>4. \A q \in Pages : PageOK(q)'
      BY <1>1, <2>1, <2>3 DEF DistortionIInv, PageOK, RetriesLeft
    <2>5. IndexOK'
      BY <1>1, <2>1, <2>4 DEF IndexOK, DistortionIInv, DistortionTypeOK,
                              PageStates, Queued
    <2>6. BatchOK(b)' /\ AloneOK(b)'
      BY <2>2 DEF BatchOK, AloneOK
    <2>7. ASSUME ~overlapped PROVE \A q \in Pages : AttemptOK(q)'
      BY <1>1, <2>1, <2>3, <2>7, SoleBatch DEF AttemptOK
    <2> QED
      BY <1>1, <2>2, <2>5, <2>6, <2>7, SoleBatch, OneBatch
  <1> QED
    BY <1>2, <1>3

\* The pages behind a batch that is alone, when only its own page changes
LEMMA Behind ==
  ASSUME DistortionIInv, NEW b \in Batches,
         at[b] \notin {"off", "registering"}, alone[b], resuming[b],
         Here(b) \in Pages,
         \A q \in Pages \ {Here(b)} :
            /\ pageState'[q] = pageState[q]
            /\ q \in manifest' <=> q \in manifest
  PROVE  /\ \A q \in Pages : q < Here(b) =>
               (pageState'[q] = "complete" <=> q \in manifest')
         /\ (pageState'[Here(b)] = "complete" <=> Here(b) \in manifest') =>
               \A q \in Pages : q < Here(b) + 1 =>
                  (pageState'[q] = "complete" <=> q \in manifest')
  <1> DEFINE p == Here(b)
  <1>1. ASSUME NEW q \in Pages, q < p
        PROVE  pageState'[q] = "complete" <=> q \in manifest'
    <2>1. q # p
      BY <1>1 DEF Pages
    <2> QED
      BY <1>1, <2>1 DEF DistortionIInv, AloneOK
  <1>2. \A q \in Pages : q < p + 1 => q < p \/ q = p
    BY DEF Pages
  <1> HIDE DEF p
  <1> QED
    BY <1>1, <1>2 DEF p

LEMMA QueueStep ==
  ASSUME DistortionIInv, NEW b \in Batches, QueuesPage(b)
  PROVE  DistortionIInv'
  <1> DEFINE p == Here(b)
  <1>1. /\ at[b] = "page" /\ p \in Pages /\ p \notin records[b]
        /\ UNCHANGED <<retryCount, errorSet, manifest, images, outcome,
                       records, resuming, begun, attempts, alone, overlapped>>
        /\ pageState' = [pageState EXCEPT ![p] = Queued(p)]
    BY DEF QueuesPage, AtPage, HasRecord, pageFileVars, historyVars
  <1> HIDE DEF p
  <1>2. \A q \in Pages :
           \/ pageState'[q] = pageState[q]
           \/ pageState[q] = "none" /\ pageState'[q] = "queued"
    BY <1>1 DEF DistortionIInv, DistortionTypeOK, Queued
  <1>3. \A q \in Pages : PageOK(q)'
    BY <1>1, <1>2 DEF DistortionIInv, PageOK, RetriesLeft
  <1>4. IndexOK'
    BY <1>1, <1>3 DEF IndexOK, DistortionIInv, DistortionTypeOK, PageStates,
                      Queued
  <1>5. ASSUME ~overlapped PROVE \A q \in Pages : AttemptOK(q)'
    BY <1>1, <1>2, <1>5, SoleBatch DEF AttemptOK
  <1>6. outcome # "none"
    BY <1>1 DEF DistortionIInv, BatchOK
  <1>7. ASSUME alone[b]
        PROVE  /\ records[b] = manifest
               /\ resuming[b] => \A q \in Pages : q < p =>
                    (pageState'[q] = "complete" <=> q \in manifest')
    <2>1. records[b] = manifest
      BY <1>1, <1>7 DEF DistortionIInv, AloneOK
    <2>2. \A q \in Pages : q < p =>
             (pageState[q] = "complete" => pageState'[q] = "complete")
             /\ (pageState'[q] = "complete" => pageState[q] = "complete")
      BY <1>2
    <2> QED
      BY <1>1, <1>7, <2>1, <2>2 DEF p, DistortionIInv, AloneOK
  <1>8. CASE pageState[p] # "complete" \/ resuming[b]
    <2>1. PICK place \in {"claiming", "reopening"} :
             /\ StaysAt(b, place)
             /\ place = "claiming" => pageState[p] # "complete"
      BY <1>8 DEF QueuesPage, PlaceOfComplete, p
    <2>2. BatchMoves(b) /\ at'[b] = place /\ Here(b)' = p
      BY <1>1, <2>1, StaysThere DEF DistortionIInv, BatchPlaces, p
    <2>3. BatchOK(b)'
      BY <1>1, <1>6, <2>2 DEF BatchOK
    <2>4. place = "claiming" => pageState'[p] # "complete"
      BY <1>1, <1>2, <2>1
    <2>5. alone[b] => \A c \in Batches : at'[c] # "off" => c = b
      BY <1>1, <2>2, OnlyOne
    <2>6. AloneOK(b)'
      BY <1>1, <1>7, <2>2, <2>4, <2>5 DEF AloneOK
    <2> QED
      BY <1>1, <1>4, <1>5, <2>2, <2>3, <2>6, SoleBatch, OneBatch
  <1>9. CASE pageState[p] = "complete" /\ ~resuming[b]
    <2>1. NextPage(b)
      BY <1>9 DEF QueuesPage, PlaceOfComplete, p
    <2>2. BatchMoves(b) /\ at'[b] = "page"
      BY <1>1, <2>1, GoesOn DEF DistortionIInv, p
    <2>3. BatchOK(b)'
      BY <1>1, <1>6, <2>2 DEF BatchOK
    <2>4. alone[b] => \A c \in Batches : at'[c] # "off" => c = b
      BY <1>1, <2>2, OnlyOne
    <2>5. AloneOK(b)'
      BY <1>1, <1>7, <1>9, <2>2, <2>4 DEF AloneOK
    <2> QED
      BY <1>1, <1>4, <1>5, <2>2, <2>3, <2>5, SoleBatch, OneBatch
  <1> QED
    BY <1>8, <1>9

LEMMA ReopenStep ==
  ASSUME DistortionIInv, NEW b \in Batches, Reopens(b)
  PROVE  DistortionIInv'
  <1> DEFINE p == Here(b)
  <1>1. /\ at[b] = "reopening"
        /\ UNCHANGED <<retryCount, manifest, images, outcome, records,
                       resuming, begun, attempts, alone, overlapped>>
    BY DEF Reopens, pageFileVars, historyVars
  <1>2. p \in Pages /\ p \notin records[b] /\ outcome # "none"
    BY <1>1, HerePage DEF DistortionIInv, BatchOK
  <1>3. CASE pageState[p] = "complete"
    <2>1. /\ pageState' = [pageState EXCEPT ![p] = "queued"]
          /\ errorSet' = [errorSet EXCEPT ![p] = FALSE]
          /\ StaysAt(b, "claiming")
      BY <1>3 DEF Reopens
    <2>2. BatchMoves(b) /\ at'[b] = "claiming" /\ Here(b)' = p
      BY <1>1, <1>2, <2>1, StaysThere DEF DistortionIInv, BatchPlaces
    <2> HIDE DEF p
    <2>3. ~errorSet[p]
      BY <1>2, <1>3 DEF DistortionIInv, PageOK
    <2>4. \A q \in Pages :
             /\ pageState'[q] = IF q = p THEN "queued" ELSE pageState[q]
             /\ errorSet'[q] = errorSet[q]
      BY <2>1, <2>3 DEF DistortionIInv, DistortionTypeOK
    <2>5. \A q \in Pages : PageOK(q)'
      BY <1>1, <2>3, <2>4 DEF DistortionIInv, PageOK, RetriesLeft
    <2>6. IndexOK'
      BY <1>1, <2>1, <2>5 DEF IndexOK, DistortionIInv, DistortionTypeOK,
                              PageStates
    <2>7. BatchOK(b)'
      BY <1>1, <1>2, <2>2 DEF BatchOK
    <2>8. alone[b] => \A c \in Batches : at'[c] # "off" => c = b
      BY <1>1, <2>2, OnlyOne
    <2>9. ASSUME alone[b], resuming[b]
          PROVE  \A q \in Pages : q < p =>
                    (pageState'[q] = "complete" <=> q \in manifest')
      BY <1>1, <1>2, <2>4, <2>9, Behind DEF p
    <2>10. AloneOK(b)'
      BY <1>1, <1>2, <2>2, <2>4, <2>8, <2>9 DEF AloneOK, DistortionIInv
    <2>11. ASSUME ~overlapped PROVE \A q \in Pages : AttemptOK(q)'
      BY <1>1, <2>4, <2>11, SoleBatch DEF AttemptOK
    <2> QED
      BY <1>1, <2>2, <2>6, <2>7, <2>10, <2>11, SoleBatch, OneBatch
  <1>4. CASE pageState[p] # "complete"
    <2>1. Dies(b) /\ UNCHANGED <<pageState, errorSet>>
      BY <1>4 DEF Reopens
    <2>2. BatchMoves(b) /\ at'[b] = "off"
      BY <1>1, <2>1, StaysThere DEF Dies, DistortionIInv, BatchPlaces
    <2>3. IndexOK'
      BY <1>1, <2>1 DEF IndexOK, DistortionIInv, DistortionTypeOK, PageOK,
                        RetriesLeft
    <2>4. BatchOK(b)' /\ AloneOK(b)'
      BY <2>2 DEF BatchOK, AloneOK
    <2>5. ASSUME ~overlapped PROVE \A q \in Pages : AttemptOK(q)'
      BY <1>1, <2>1, <2>5, SoleBatch DEF AttemptOK
    <2> QED
      BY <1>1, <2>2, <2>3, <2>4, <2>5, SoleBatch, OneBatch
  <1> QED
    BY <1>3, <1>4

LEMMA ClaimStep ==
  ASSUME DistortionIInv, NEW b \in Batches, Claims(b)
  PROVE  DistortionIInv'
  <1> DEFINE p == Here(b)
  <1>1. /\ at[b] = "claiming"
        /\ UNCHANGED <<manifest, images, outcome, records, resuming, begun,
                       attempts, alone, overlapped>>
    BY DEF Claims, pageFileVars, historyVars
  <1>2. p \in Pages /\ p \notin records[b] /\ outcome # "none"
    BY <1>1, HerePage DEF DistortionIInv, BatchOK
  <1>3. CASE Claimable(p)
    <2>1. /\ pageState' = [pageState EXCEPT ![p] = "processing"]
          /\ retryCount' =
               [retryCount EXCEPT ![p] = @ + IF errorSet[p] THEN 1 ELSE 0]
          /\ errorSet' = [errorSet EXCEPT ![p] = FALSE]
          /\ StaysAt(b, "working")
      BY <1>3 DEF Claims
    <2>2. BatchMoves(b) /\ at'[b] = "working" /\ Here(b)' = p
      BY <1>1, <1>2, <2>1, StaysThere DEF DistortionIInv, BatchPlaces
    <2> HIDE DEF p
    <2>3. \A q \in Pages :
             /\ pageState'[q] = IF q = p THEN "processing" ELSE pageState[q]
             /\ errorSet'[q] = IF q = p THEN FALSE ELSE errorSet[q]
             /\ q # p => retryCount'[q] = retryCount[q]
      BY <2>1 DEF DistortionIInv, DistortionTypeOK
    <2>4. retryCount'[p] = IF errorSet[p] THEN retryCount[p] + 1
                                          ELSE retryCount[p]
      BY <1>2, <2>1 DEF DistortionIInv, DistortionTypeOK
    <2>5. retryCount[p] \in 0..MaxRetries /\ MaxRetries \in Nat
      BY <1>2, DistortionAssumption DEF DistortionIInv, DistortionTypeOK
    <2>6. errorSet[p] => retryCount[p] < MaxRetries
      BY <1>2, <1>3 DEF DistortionIInv, PageOK, Claimable, RetriesLeft
    <2>7. retryCount'[p] \in 0..MaxRetries
      BY <2>4, <2>5, <2>6
    <2>8. \A q \in Pages : PageOK(q)'
      BY <1>1, <2>3 DEF DistortionIInv, PageOK, RetriesLeft
    <2>9. retryCount' \in [Pages -> 0..MaxRetries]
      BY <2>1, <2>4, <2>7 DEF DistortionIInv, DistortionTypeOK
    <2>10. IndexOK'
      BY <1>1, <2>1, <2>8, <2>9 DEF IndexOK, DistortionIInv, DistortionTypeOK,
                                    PageStates
    <2>11. BatchOK(b)'
      BY <1>1, <1>2, <2>2 DEF BatchOK
    <2>12. alone[b] => \A c \in Batches : at'[c] # "off" => c = b
      BY <1>1, <2>2, OnlyOne
    <2>13. ASSUME alone[b], resuming[b]
           PROVE  \A q \in Pages : q < p =>
                     (pageState'[q] = "complete" <=> q \in manifest')
      BY <1>1, <1>2, <2>3, <2>13, Behind DEF p
    <2>14. AloneOK(b)'
      BY <1>1, <1>2, <2>2, <2>12, <2>13 DEF AloneOK, DistortionIInv
    <2>15. ASSUME ~overlapped PROVE \A q \in Pages : AttemptOK(q)'
      <3>1. p \notin manifest /\ \A q \in Pages : AttemptOK(q)
        BY <1>1, <1>2, <2>15, SoleBatch
      <3> QED
        BY <1>1, <2>3, <2>4, <3>1 DEF AttemptOK
    <2> QED
      BY <1>1, <2>2, <2>10, <2>11, <2>14, <2>15, SoleBatch, OneBatch
  <1>4. CASE ~Claimable(p)
    <2>1. NextPage(b) /\ UNCHANGED <<pageState, retryCount, errorSet>>
      BY <1>4 DEF Claims, indexVars
    <2>2. BatchMoves(b) /\ at'[b] = "page" /\ Here(b)' = p + 1
      BY <1>1, <1>2, <2>1, GoesOn DEF DistortionIInv
    <2> HIDE DEF p
    <2>3. IndexOK'
      BY <1>1, <2>1 DEF IndexOK, DistortionIInv, DistortionTypeOK, PageOK,
                        RetriesLeft
    <2>4. BatchOK(b)'
      BY <1>1, <1>2, <2>2 DEF BatchOK
    <2>5. alone[b] => \A c \in Batches : at'[c] # "off" => c = b
      BY <1>1, <2>2, OnlyOne
    <2>6. ASSUME alone[b]
          PROVE  /\ records[b] = manifest
                 /\ resuming[b] => \A q \in Pages : q < p + 1 =>
                      (pageState'[q] = "complete" <=> q \in manifest')
      <3>1. records[b] = manifest /\ pageState[p] # "complete"
        BY <1>1, <2>6 DEF p, DistortionIInv, AloneOK
      <3> QED
        BY <1>1, <1>2, <2>1, <2>6, <3>1, Behind DEF p
    <2>7. AloneOK(b)'
      BY <1>1, <2>2, <2>5, <2>6 DEF AloneOK
    <2>8. ASSUME ~overlapped PROVE \A q \in Pages : AttemptOK(q)'
      BY <1>1, <2>1, <2>8, SoleBatch DEF AttemptOK
    <2> QED
      BY <1>1, <2>2, <2>3, <2>4, <2>7, <2>8, SoleBatch, OneBatch
  <1> QED
    BY <1>3, <1>4

\* finish_page for a page that is not in process any more: the batch ends.
LEMMA FinishRefused ==
  ASSUME DistortionIInv, NEW b \in Batches,
         at[b] \in {"working", "recording", "finishing"},
         pageState[Here(b)] # "processing", NEW status, Finishes(b, status),
         UNCHANGED <<manifest, outcome, records, resuming, begun, attempts,
                     alone, overlapped>>,
         images' = images \/ (/\ at[b] = "recording"
                              /\ images' = images \ {Here(b)})
  PROVE  DistortionIInv'
  <1>1. Dies(b) /\ UNCHANGED <<pageState, errorSet, retryCount>>
    BY DEF Finishes
  <1>2. BatchMoves(b) /\ at'[b] = "off"
    BY <1>1, StaysThere DEF Dies, DistortionIInv, BatchPlaces
  <1>3. IndexOK'
    BY <1>1 DEF IndexOK, DistortionIInv, DistortionTypeOK, PageOK,
                RetriesLeft
  <1>4. BatchOK(b)' /\ AloneOK(b)'
    BY <1>2 DEF BatchOK, AloneOK
  <1>5. ASSUME ~overlapped
        PROVE  manifest' \subseteq images' /\ \A q \in Pages : AttemptOK(q)'
    <2>1. at[b] = "recording" => Here(b) \notin manifest
      BY <1>5, SoleBatch DEF DistortionIInv, BatchOK
    <2> QED
      BY <1>1, <1>5, <2>1, SoleBatch DEF AttemptOK
  <1> QED
    BY <1>2, <1>3, <1>4, <1>5, OneBatch

LEMMA FailStep ==
  ASSUME DistortionIInv, NEW b \in Batches, FailsPage(b) \/ ExceedsBytes(b)
  PROVE  DistortionIInv'
  <1> DEFINE p == Here(b)
  <1>1. /\ at[b] \in {"working", "recording"}
        /\ Finishes(b, "failed") /\ CountsFailure(b)
        /\ UNCHANGED <<retryCount, manifest, outcome, records, resuming,
                       begun, alone, overlapped>>
        /\ images' = images \/ (/\ at[b] = "recording"
                                /\ images' = images \ {p})
    BY DEF FailsPage, ExceedsBytes, pageFileVars, Finishes
  <1>2. p \in Pages /\ p \notin records[b] /\ outcome # "none"
    BY <1>1, HerePage DEF DistortionIInv, BatchOK
  <1>3. CASE pageState[p] # "processing"
    <2>1. attempts' = attempts
      BY <1>1, <1>3 DEF CountsFailure
    <2> QED
      BY <1>1, <1>3, <2>1, FinishRefused
  <1>4. CASE pageState[p] = "processing"
    <2>1. /\ pageState' = [pageState EXCEPT ![p] = "failed"]
          /\ errorSet' = [errorSet EXCEPT ![p] = TRUE]
          /\ attempts' = [attempts EXCEPT ![p] = @ + 1]
          /\ NextPage(b)
      BY <1>1, <1>4 DEF Finishes, CountsFailure
    <2>2. BatchMoves(b) /\ at'[b] = "page" /\ Here(b)' = p + 1
      BY <1>1, <1>2, <2>1, GoesOn DEF DistortionIInv
    <2> HIDE DEF p
    <2>3. \A q \in Pages :
             /\ pageState'[q] = IF q = p THEN "failed" ELSE pageState[q]
             /\ errorSet'[q] = IF q = p THEN TRUE ELSE errorSet[q]
             /\ attempts'[q] = IF q = p THEN attempts[q] + 1 ELSE attempts[q]
      BY <2>1 DEF DistortionIInv, DistortionTypeOK
    <2>4. \A q \in Pages : PageOK(q)'
      BY <1>1, <2>3 DEF DistortionIInv, PageOK, RetriesLeft
    <2>5. attempts' \in [Pages -> Nat]
      BY <1>2, <2>1 DEF DistortionIInv, DistortionTypeOK
    <2>6. IndexOK'
      BY <1>1, <2>1, <2>4, <2>5
      DEF IndexOK, DistortionIInv, DistortionTypeOK, PageStates
    <2>7. BatchOK(b)'
      BY <1>1, <1>2, <2>2 DEF BatchOK
    <2>8. alone[b] => \A c \in Batches : at'[c] # "off" => c = b
      BY <1>1, <2>2, OnlyOne
    <2>9. ASSUME alone[b]
          PROVE  /\ records[b] = manifest
                 /\ resuming[b] => \A q \in Pages : q < p + 1 =>
                      (pageState'[q] = "complete" <=> q \in manifest')
      <3>1. records[b] = manifest
        BY <1>1, <2>9 DEF DistortionIInv, AloneOK
      <3> QED
        BY <1>1, <1>2, <2>3, <2>9, <3>1, Behind DEF p
    <2>10. AloneOK(b)'
      BY <1>1, <2>2, <2>8, <2>9 DEF AloneOK
    <2>11. ASSUME ~overlapped
           PROVE  manifest' \subseteq images' /\ \A q \in Pages : AttemptOK(q)'
      <3>1. /\ p \notin manifest /\ manifest \subseteq images
            /\ \A q \in Pages : AttemptOK(q)
        BY <1>1, <1>2, <2>11, SoleBatch
      <3>2. ~errorSet[p]
        BY <1>2, <1>4 DEF p, DistortionIInv, PageOK
      <3>3. \A q \in Pages : AttemptOK(q)'
        BY <1>1, <1>2, <2>3, <3>1, <3>2 DEF AttemptOK
      <3> QED
        BY <1>1, <3>1, <3>3
    <2> QED
      BY <1>1, <2>2, <2>6, <2>7, <2>10, <2>11, OneBatch
  <1> QED
    BY <1>3, <1>4

LEMMA FinishStep ==
  ASSUME DistortionIInv, NEW b \in Batches,
         FinishesPage(b) \/ InterruptsItself(b)
  PROVE  DistortionIInv'
  <1> DEFINE p == Here(b)
  <1>1. /\ at[b] = "finishing"
        /\ UNCHANGED <<retryCount, manifest, images, records, resuming,
                       begun, attempts, alone, overlapped>>
    BY DEF FinishesPage, InterruptsItself, pageFileVars, historyVars, Finishes
  <1>2. p \in Pages /\ p \in records[b] /\ outcome # "none"
    BY <1>1, HerePage DEF DistortionIInv, BatchOK
  <1>3. CASE pageState[p] # "processing"
    <2>1. Finishes(b, "complete") /\ UNCHANGED outcome
      BY <1>3 DEF FinishesPage, InterruptsItself
    <2> QED
      BY <1>1, <1>3, <2>1, FinishRefused
  <1>4. CASE pageState[p] = "processing"
    <2>1. /\ pageState' = [pageState EXCEPT ![p] = "complete"]
          /\ errorSet' = [errorSet EXCEPT ![p] = FALSE]
          /\ outcome' \in {outcome, "interrupted"}
          /\ NextPage(b) \/ Dies(b)
      BY <1>4 DEF FinishesPage, InterruptsItself, Finishes
    <2>2. /\ BatchMoves(b)
          /\ at'[b] = "off" \/ (at'[b] = "page" /\ Here(b)' = p + 1)
      BY <1>1, <1>2, <2>1, GoesOn, StaysThere
      DEF Dies, DistortionIInv, BatchPlaces
    <2> HIDE DEF p
    <2>3. \A q \in Pages :
             /\ pageState'[q] = IF q = p THEN "complete" ELSE pageState[q]
             /\ errorSet'[q] = IF q = p THEN FALSE ELSE errorSet[q]
      BY <2>1 DEF DistortionIInv, DistortionTypeOK
    <2>4. \A q \in Pages : PageOK(q)'
      BY <1>1, <2>3 DEF DistortionIInv, PageOK, RetriesLeft
    <2>5. IndexOK' /\ outcome' # "none"
      BY <1>1, <1>2, <2>1, <2>4
      DEF IndexOK, DistortionIInv, DistortionTypeOK, PageStates
    <2>6. BatchOK(b)'
      BY <1>1, <2>2, <2>5 DEF BatchOK
    <2>7. alone[b] => \A c \in Batches : at'[c] # "off" => c = b
      BY <1>1, <2>2, OnlyOne
    <2>8. ASSUME alone[b]
          PROVE  /\ records[b] = manifest
                 /\ resuming[b] => \A q \in Pages : q < p + 1 =>
                      (pageState'[q] = "complete" <=> q \in manifest')
      <3>1. records[b] = manifest
        BY <1>1, <2>8 DEF DistortionIInv, AloneOK
      <3> QED
        BY <1>1, <1>2, <2>3, <2>8, <3>1, Behind DEF p
    <2>9. AloneOK(b)'
      BY <1>1, <2>2, <2>7, <2>8 DEF AloneOK
    <2>10. ASSUME ~overlapped PROVE \A q \in Pages : AttemptOK(q)'
      <3>1. p \in manifest /\ \A q \in Pages : AttemptOK(q)
        BY <1>1, <1>2, <2>10, SoleBatch
      <3> QED
        BY <1>1, <2>3, <3>1 DEF AttemptOK
    <2> QED
      BY <1>1, <2>2, <2>5, <2>6, <2>9, <2>10, SoleBatch, OneBatch
  <1> QED
    BY <1>3, <1>4

LEMMA SaveStep ==
  ASSUME DistortionIInv, NEW b \in Batches, SavesImage(b)
  PROVE  DistortionIInv'
  <1>1. /\ at[b] = "working" /\ images' = images \cup {Here(b)}
        /\ StaysAt(b, "recording")
        /\ UNCHANGED <<pageState, retryCount, errorSet, manifest, outcome,
                       records, resuming, begun, attempts, alone, overlapped>>
    BY DEF SavesImage, indexVars, historyVars
  <1>2. /\ Here(b) \in Pages /\ Here(b) \notin records[b]
        /\ outcome # "none"
    BY <1>1, HerePage DEF DistortionIInv, BatchOK
  <1>3. BatchMoves(b) /\ at'[b] = "recording" /\ Here(b)' = Here(b)
    BY <1>1, <1>2, StaysThere DEF DistortionIInv, BatchPlaces
  <1>4. IndexOK'
    BY <1>1, <1>2 DEF IndexOK, DistortionIInv, DistortionTypeOK, PageOK,
                      RetriesLeft
  <1>5. BatchOK(b)'
    BY <1>1, <1>2, <1>3 DEF BatchOK
  <1>6. alone[b] => \A c \in Batches : at'[c] # "off" => c = b
    BY <1>1, <1>3, OnlyOne
  <1>7. AloneOK(b)'
    BY <1>1, <1>3, <1>6 DEF DistortionIInv, AloneOK
  <1>8. ASSUME ~overlapped
        PROVE  manifest' \subseteq images' /\ \A q \in Pages : AttemptOK(q)'
    BY <1>1, <1>8, SoleBatch DEF AttemptOK
  <1> QED
    BY <1>1, <1>3, <1>4, <1>5, <1>7, <1>8, OneBatch

LEMMA RecordStep ==
  ASSUME DistortionIInv, NEW b \in Batches, RecordsPage(b)
  PROVE  DistortionIInv'
  <1> DEFINE p == Here(b)
  <1>1. /\ at[b] = "recording" /\ p \in images
        /\ records' = [records EXCEPT ![b] = @ \cup {p}]
        /\ manifest' = records[b] \cup {p}
        /\ at' = [at EXCEPT ![b] = "finishing"] /\ UNCHANGED pageAt
        /\ UNCHANGED <<pageState, retryCount, errorSet, images, outcome,
                       resuming, begun, attempts, alone, overlapped>>
    BY DEF RecordsPage, StaysAt, GoesTo, indexVars, historyVars
  <1>2. p \in Pages /\ p \notin records[b] /\ outcome # "none"
    BY <1>1, HerePage DEF DistortionIInv, BatchOK
  <1>3. /\ records' \in [Batches -> SUBSET Pages]
        /\ records'[b] = records[b] \cup {p} /\ Here(b)' = p
        /\ \A c \in Batches \ {b} : records'[c] = records[c]
    BY <1>1, <1>2 DEF DistortionIInv, DistortionTypeOK, Here
  <1>4. BatchMoves(b) /\ at'[b] = "finishing"
    BY <1>1, <1>2, <1>3
    DEF DistortionIInv, DistortionTypeOK, BatchMoves, Here, BatchPlaces
  <1> HIDE DEF p
  <1>5. manifest' \in SUBSET Pages
    BY <1>1, <1>2 DEF DistortionIInv, DistortionTypeOK
  <1>6. IndexOK'
    BY <1>1, <1>2, <1>5 DEF IndexOK, DistortionIInv, DistortionTypeOK,
                            PageOK, RetriesLeft
  <1>7. BatchOK(b)'
    BY <1>1, <1>2, <1>3, <1>4 DEF BatchOK
  <1>8. alone[b] => \A c \in Batches : at'[c] # "off" => c = b
    BY <1>1, <1>4, OnlyOne
  <1>9. ASSUME alone[b]
        PROVE  /\ records'[b] = manifest'
               /\ resuming[b] => \A q \in Pages : q < p =>
                    (pageState'[q] = "complete" <=> q \in manifest')
    <2>1. records[b] = manifest
      BY <1>1, <1>9 DEF DistortionIInv, AloneOK
    <2> QED
      BY <1>1, <1>2, <1>3, <1>9, <2>1, Behind DEF p
  <1>10. AloneOK(b)'
    BY <1>1, <1>3, <1>4, <1>8, <1>9 DEF AloneOK
  <1>11. ASSUME ~overlapped
         PROVE  manifest' \subseteq images' /\ \A q \in Pages : AttemptOK(q)'
    <2>1. /\ records[b] = manifest /\ manifest \subseteq images
          /\ \A q \in Pages : AttemptOK(q)
      BY <1>1, <1>11, SoleBatch
    <2>2. retryCount[p] \in 0..MaxRetries /\ MaxRetries \in Nat
      BY <1>2, DistortionAssumption DEF DistortionIInv, DistortionTypeOK
    <2>3. PageOK(p)
      BY <1>2 DEF DistortionIInv
    <2>4. \A q \in Pages : AttemptOK(q)'
      BY <1>1, <1>2, <2>1, <2>2, <2>3 DEF AttemptOK, PageOK
    <2> QED
      BY <1>1, <2>1, <2>4
  <1> QED
    BY <1>1, <1>4, <1>6, <1>7, <1>10, <1>11, OneBatch

LEMMA RegisterStep ==
  ASSUME DistortionIInv, NEW b \in Batches, Registers(b)
  PROVE  DistortionIInv'
  <1>1. /\ at[b] = "registering" /\ (outcome = "none" \/ resuming[b])
        /\ outcome' = "processing"
        /\ at' = [at EXCEPT ![b] = "page"]
        /\ pageAt' = [pageAt EXCEPT ![b] = 1]
        /\ UNCHANGED <<manifest, images, records, resuming, begun, alone,
                       overlapped, retryCount>>
    BY DEF Registers, GoesTo, pageFileVars, RecoversStale, indexVars
  <1>2. BatchMoves(b) /\ at'[b] = "page" /\ Here(b)' = 1
    BY <1>1, DistortionAssumption
    DEF DistortionIInv, DistortionTypeOK, BatchMoves, Here, BatchPlaces, Pages
  <1>3. BatchOK(b)'
    BY <1>1, <1>2 DEF BatchOK
  <1>4. alone[b] => \A c \in Batches : at'[c] # "off" => c = b
    BY <1>1, <1>2, OnlyOne
  <1>5. alone[b] => records[b] = manifest
    BY <1>1 DEF DistortionIInv, AloneOK, BatchOK
  <1>6. AloneOK(b)'
    BY <1>1, <1>2, <1>4, <1>5 DEF AloneOK, Pages
  <1>7. PICK old \in SUBSET InProcess :
           /\ \A q \in Pages :
                 /\ pageState'[q] = IF q \notin old THEN pageState[q]
                                    ELSE IF RetriesLeft(q) THEN "queued"
                                                           ELSE "failed"
                 /\ errorSet'[q] = (errorSet[q] \/ q \in old)
                 /\ attempts'[q] = IF q \in old THEN attempts[q] + 1
                                                ELSE attempts[q]
           /\ pageState' \in [Pages -> PageStates]
           /\ errorSet' \in [Pages -> BOOLEAN]
           /\ attempts' \in [Pages -> Nat]
    <2>1. CASE resuming[b] /\ \E old \in SUBSET InProcess : RecoversStale(old)
      <3>1. PICK old \in SUBSET InProcess : RecoversStale(old)
        BY <2>1
      <3>2. /\ pageState' \in [Pages -> PageStates]
            /\ \A q \in Pages :
                 pageState'[q] = IF q \notin old THEN pageState[q]
                                 ELSE IF RetriesLeft(q) THEN "queued"
                                                        ELSE "failed"
        BY <3>1 DEF RecoversStale, DistortionIInv, DistortionTypeOK, PageStates
      <3>3. /\ errorSet' \in [Pages -> BOOLEAN]
            /\ \A q \in Pages : errorSet'[q] = (errorSet[q] \/ q \in old)
        BY <3>1 DEF RecoversStale, DistortionIInv, DistortionTypeOK
      <3>4. /\ attempts' \in [Pages -> Nat]
            /\ \A q \in Pages :
                 attempts'[q] = IF q \in old THEN attempts[q] + 1
                                             ELSE attempts[q]
        BY <3>1 DEF RecoversStale, DistortionIInv, DistortionTypeOK
      <3> QED
        BY <3>2, <3>3, <3>4
    <2>2. CASE UNCHANGED <<indexVars, attempts>>
      <3>1. /\ UNCHANGED <<pageState, errorSet, attempts>>
            /\ {} \subseteq InProcess
        BY <2>2 DEF indexVars
      <3> QED
        BY <3>1 DEF DistortionIInv, DistortionTypeOK
    <2> QED
      BY <2>1, <2>2 DEF Registers
  <1>8. \A q \in old : /\ q \in Pages /\ pageState[q] = "processing"
                       /\ ~errorSet[q]
    BY DEF InProcess, DistortionIInv, PageOK
  <1>9. \A q \in Pages : PageOK(q)'
    BY <1>1, <1>7, <1>8 DEF DistortionIInv, PageOK, RetriesLeft
  <1>10. IndexOK'
    BY <1>1, <1>7, <1>9 DEF IndexOK, DistortionIInv, DistortionTypeOK
  <1>11. ASSUME ~overlapped
         PROVE  manifest' \subseteq images' /\ \A q \in Pages : AttemptOK(q)'
    <2>1. manifest \subseteq images /\ \A q \in Pages : AttemptOK(q)
      BY <1>11 DEF DistortionIInv, NoOverlapOK
    <2>2. ASSUME NEW q \in Pages PROVE AttemptOK(q)'
      <3>1. /\ attempts[q] \in Nat /\ MaxRetries \in Nat
        BY DistortionAssumption DEF DistortionIInv, DistortionTypeOK
      <3>2. CASE q \in old
        BY <1>1, <1>7, <1>8, <2>1, <3>1, <3>2 DEF AttemptOK
      <3>3. CASE q \notin old
        BY <1>1, <1>7, <2>1, <3>3 DEF AttemptOK
      <3> QED
        BY <3>2, <3>3
    <2> QED
      BY <1>1, <2>1, <2>2
  <1> QED
    BY <1>1, <1>2, <1>3, <1>6, <1>10, <1>11, OneBatch

LEMMA BeginStep ==
  ASSUME DistortionIInv, NEW b \in Batches, NEW resume \in BOOLEAN,
         BeginsBatch(b, resume)
  PROVE  DistortionIInv'
  <1>1. /\ at[b] = "off" /\ begun < MaxBegins /\ begun' = begun + 1
        /\ at' = [at EXCEPT ![b] = "registering"]
        /\ resuming' = [resuming EXCEPT ![b] = resume]
        /\ records' = [records EXCEPT ![b] = IF resume THEN manifest ELSE {}]
        /\ alone' =
             [c \in Batches |-> IF c = b THEN Running = {} ELSE FALSE]
        /\ overlapped' = (overlapped \/ Running # {})
        /\ UNCHANGED <<pageState, retryCount, errorSet, manifest, images,
                       outcome, pageAt, attempts>>
    BY DEF BeginsBatch, StaysAt, GoesTo, ReadsManifest, indexVars, pageFileVars
  <1>2. \A c \in Batches :
           /\ at'[c] = IF c = b THEN "registering" ELSE at[c]
           /\ resuming'[c] = IF c = b THEN resume ELSE resuming[c]
           /\ records'[c] = IF c # b THEN records[c]
                            ELSE IF resume THEN manifest ELSE {}
           /\ alone'[c] = IF c = b THEN Running = {} ELSE FALSE
    BY <1>1 DEF DistortionIInv, DistortionTypeOK
  <1>3. DistortionTypeOK'
    <2>1. begun' \in 0..MaxBegins
      BY <1>1, DistortionAssumption DEF DistortionIInv, DistortionTypeOK
    <2>2. /\ at' \in [Batches -> BatchPlaces]
          /\ records' \in [Batches -> SUBSET Pages]
          /\ resuming' \in [Batches -> BOOLEAN]
          /\ alone' \in [Batches -> BOOLEAN] /\ overlapped' \in BOOLEAN
      BY <1>1 DEF DistortionIInv, DistortionTypeOK, BatchPlaces
    <2>3. \A c \in Batches :
             at'[c] \notin {"off", "registering", "page"} =>
               pageAt'[c] \in Pages
      BY <1>1, <1>2 DEF DistortionIInv, DistortionTypeOK
    <2> QED
      BY <1>1, <2>1, <2>2, <2>3 DEF DistortionIInv, DistortionTypeOK
  <1>4. \A p \in Pages : PageOK(p)'
    BY <1>1 DEF DistortionIInv, PageOK, RetriesLeft
  <1>5. \A c \in Batches : BatchOK(c)'
    BY <1>1, <1>2 DEF DistortionIInv, BatchOK, Here
  <1>6. ASSUME NEW c \in Batches, alone'[c] PROVE AloneOK(c)'
    <2>1. c = b /\ Running = {}
      BY <1>2, <1>6
    <2>2. \A d \in Batches : at'[d] # "off" => d = b
      BY <1>2, <2>1 DEF Running
    <2>3. /\ at'[b] = "registering" /\ UNCHANGED manifest
          /\ resuming'[b] => records'[b] = manifest
      BY <1>1, <1>2
    <2> QED
      BY <2>1, <2>2, <2>3 DEF AloneOK
  <1>7. NoOverlapOK'
    <2>1. ASSUME ~overlapped'
          PROVE  \A c \in Batches : at'[c] # "off" => alone'[c]
      BY <1>1, <1>2, <2>1 DEF Running
    <2>2. ASSUME ~overlapped'
          PROVE  manifest' \subseteq images' /\ \A p \in Pages : AttemptOK(p)'
      BY <1>1, <2>2 DEF DistortionIInv, NoOverlapOK, AttemptOK
    <2> QED
      BY <2>1, <2>2 DEF NoOverlapOK
  <1> QED
    BY <1>1, <1>3, <1>4, <1>5, <1>6, <1>7 DEF DistortionIInv, AloneOK

LEMMA DistortionStep ==
  ASSUME DistortionIInv, [DistortionNext]_distortionVars
  PROVE  DistortionIInv'
  <1>1. CASE UNCHANGED distortionVars
    <2>1. UNCHANGED <<pageState, retryCount, errorSet, manifest, images,
                      outcome, at, pageAt, records, resuming, begun,
                      attempts, alone, overlapped>>
      BY <1>1 DEF distortionVars, indexVars, pageFileVars, batchVars
    <2>2. DistortionTypeOK'
      BY <2>1 DEF DistortionIInv, DistortionTypeOK
    <2>3. \A p \in Pages : PageOK(p)'
      BY <2>1 DEF DistortionIInv, PageOK, RetriesLeft
    <2>4. \A b \in Batches : BatchOK(b)' /\ AloneOK(b)'
      BY <2>1 DEF DistortionIInv, BatchOK, AloneOK, Here
    <2>5. NoOverlapOK'
      BY <2>1 DEF DistortionIInv, NoOverlapOK, AttemptOK
    <2> QED
      BY <2>1, <2>2, <2>3, <2>4, <2>5 DEF DistortionIInv
  <1>2. CASE DistortionNext
    <2>1. PICK b \in Batches :
             \/ \E resume \in BOOLEAN : BeginsBatch(b, resume)
             \/ IsRefused(b) \/ Registers(b)
             \/ SkipsRecorded(b) \/ QueuesPage(b) \/ Reopens(b) \/ Claims(b)
             \/ FailsPage(b) \/ SavesImage(b) \/ FindsImage(b)
             \/ ExceedsBytes(b) \/ RecordsPage(b) \/ FinishesPage(b)
             \/ InterruptsItself(b) \/ EndsRun(b) \/ BatchDies(b)
      BY <1>2 DEF DistortionNext
    <2> QED
      BY <2>1, BeginStep, RegisterStep, StopSteps, ReconcileStep, QueueStep,
         ReopenStep, ClaimStep, FailStep, SaveStep, RecordStep, FinishStep
  <1> QED
    BY <1>1, <1>2

\* Only a record that is made changes the manifest.
LEMMA ManifestSteps ==
  ASSUME DistortionIInv, [DistortionNext]_distortionVars
  PROVE  KeepsRecords
  <1>1. ASSUME NEW b \in Batches, RecordsPage(b), ~overlapped'
        PROVE  manifest \subseteq manifest'
    <2>1. /\ at[b] = "recording" /\ manifest' = records[b] \cup {Here(b)}
          /\ ~overlapped
      BY <1>1 DEF RecordsPage, historyVars
    <2> QED
      BY <2>1, SoleBatch
  <1>2. \/ UNCHANGED manifest \/ \E b \in Batches : RecordsPage(b)
    BY DEF DistortionNext, distortionVars, pageFileVars, BeginsBatch, IsRefused,
           Registers, SkipsRecorded, QueuesPage, Reopens, Claims, FailsPage,
           SavesImage, FindsImage, ExceedsBytes, FinishesPage,
           InterruptsItself, EndsRun, BatchDies
  <1> QED
    BY <1>1, <1>2 DEF KeepsRecords

\* At its end a batch has every page behind it.
LEMMA EndSteps ==
  ASSUME DistortionIInv
  PROVE  Repairs
  <1> SUFFICES ASSUME NEW b \in Batches, EndsRun(b), alone[b], resuming[b],
                      NEW p \in Pages
               PROVE  pageState[p] = "complete" <=> p \in manifest
    BY DEF Repairs, CompletesAlone, Agrees
  <1>1. at[b] = "page" /\ Here(b) \notin Pages
    BY DEF EndsRun
  <1>2. Here(b) \in 1..(PageCount + 1) /\ PageCount \in Nat
    BY DistortionAssumption DEF DistortionIInv, DistortionTypeOK, Here
  <1>3. p < Here(b)
    BY <1>1, <1>2 DEF Pages
  <1> QED
    BY <1>1, <1>3 DEF DistortionIInv, AloneOK

LEMMA DistortionInvariant == DistortionSpec => []DistortionIInv
  <1>1. DistortionIInv /\ [DistortionNext]_distortionVars => DistortionIInv'
    BY DistortionStep
  <1> QED
    BY <1>1, DistortionInitial, PTL DEF DistortionSpec

\* The index, the files and the batches hold what the code can put there; in
\* particular no page is claimed more often than max_retries allows, whatever
\* batches work at once (claim_page, recover_stale).
THEOREM DistortionTypeCorrect == DistortionSpec => []DistortionTypeOK
  <1>1. DistortionIInv => DistortionTypeOK
    BY DEF DistortionIInv
  <1> QED
    BY <1>1, DistortionInvariant, PTL

\* Batches that work one at a time attempt a page at most max_retries times
\* and once more through any crashes and resumes, and leave no record without
\* its image (claim_page, recover_stale, _write_jsonl_atomic).
THEOREM RetriesAreCounted == DistortionSpec => []RetriesHold
  <1>1. ASSUME DistortionIInv PROVE RetriesHold
    <2>1. RecordsHaveImages
      BY <1>1 DEF DistortionIInv, NoOverlapOK, RecordsHaveImages
    <2>2. ASSUME ~overlapped, NEW p \in Pages
          PROVE  attempts[p] <= MaxRetries + 1
      <3>1. /\ AttemptOK(p) /\ attempts[p] \in Nat
            /\ retryCount[p] \in 0..MaxRetries /\ MaxRetries \in Nat
        BY <1>1, <2>2, DistortionAssumption
        DEF DistortionIInv, NoOverlapOK, DistortionTypeOK
      <3> QED
        BY <3>1 DEF AttemptOK
    <2> QED
      BY <2>1, <2>2 DEF RetriesHold, AttemptsAreBounded
  <1> QED
    BY <1>1, DistortionInvariant, PTL

\* Batches that work one at a time never lose a record, and a resumed batch
\* that reaches its end alone leaves an index and a manifest that agree, even
\* after batches at once had written over each other's records
\* (reconcile_page, requeue_for_manifest_recovery).
THEOREM ManifestIsRepaired == DistortionSpec => ManifestHolds
  <1>1. DistortionIInv /\ [DistortionNext]_distortionVars =>
           [KeepsRecords]_distortionVars /\ [Repairs]_distortionVars
    BY ManifestSteps, EndSteps
  <1> QED
    BY <1>1, DistortionInvariant, PTL
    DEF DistortionSpec, ManifestHolds, RecordsStay, ResumeRepairs

-----------------------------------------------------------------------------
(* The loader *)

\* The samples of an epoch by shard and line, in visiting order
Way == [e \in Epochs |->
          [i \in 1..ShardCount |-> [k \in 1..PerShard |-> Sample(e, i, k)]]]

Ways ==
    {o \in [1..ShardCount -> [1..PerShard -> Samples]] :
        /\ \A i, j \in 1..ShardCount, k, l \in 1..PerShard :
              o[i][k] = o[j][l] => i = j /\ k = l
        /\ \A s \in Samples :
              \E i \in 1..ShardCount, k \in 1..PerShard : s = o[i][k]}

\* Precedes, for a given way
Less(o, s, t) ==
    \E i, j \in 1..ShardCount, k, l \in 1..PerShard :
        /\ s = o[i][k] /\ t = o[j][l]
        /\ i < j \/ (i = j /\ k < l)

After(o, S, T) == \A s \in S, t \in T : Less(o, s, t)

Sorted(o, seq) ==
    \A m, n \in 1..Len(seq) : m < n => Less(o, seq[m], seq[n])

\* What lies before a cursor
Passed(c, e, i, k) ==
    \/ e < c.epoch
    \/ e = c.epoch /\ (i <= c.shard \/ (i = c.shard + 1 /\ k <= c.sample))

\* What went out in an epoch are the owned samples before the cursor; of an
\* epoch that is over all but the last few, as many as drop_last may leave.
Fits(o, own, most, e, c, flow) ==
    /\ flow \subseteq own
    /\ \A i \in 1..ShardCount, k \in 1..PerShard :
          o[i][k] \in flow => Passed(c, e, i, k)
    /\ e = c.epoch =>
         \A i \in 1..ShardCount, k \in 1..PerShard :
            Passed(c, e, i, k) /\ o[i][k] \in own => o[i][k] \in flow
    /\ e < c.epoch =>
         /\ Cardinality(own \ flow) <= most
         /\ After(o, flow, own \ flow)

Cursors == [epoch: 0..(LastEpoch + 1), shard: 0..ShardCount,
            sample: 0..PerShard]
Generators == [at: {"off", "reading", "last"}, epoch: Epochs,
               shard: 0..ShardCount, seen: 0..PerShard, skips: BOOLEAN]
FullBatches == [epoch: Epochs, samples: Seq(Samples)]

ConfigOK ==
    /\ visit \in [Epochs -> Orders(ShardCount)]
    /\ lines \in [Epochs -> [1..ShardCount -> Orders(PerShard)]]
    /\ owned \in SUBSET Samples
    /\ dropLast \in BOOLEAN /\ depth \in Nat

LoaderTypes ==
    /\ ConfigOK
    /\ cursor \in Cursors /\ gen \in Generators
    /\ buffer \in Seq(Samples) /\ Len(buffer) <= BatchSize
    /\ queue \in Seq(FullBatches)
    /\ Len(queue) <= IF depth = 0 THEN 1 ELSE depth
    /\ trained \in [Epochs -> Seq(Samples)]
    /\ saved \in [cursor: Cursors, trained: [Epochs -> Seq(Samples)]]
    /\ asking \in BOOLEAN /\ crashed \in BOOLEAN

\* Where the generator is against the cursor, and who waits for whom
GeneratorOK ==
    /\ gen.at = "reading" =>
         /\ gen.epoch = cursor.epoch /\ gen.shard <= cursor.shard
         /\ gen.shard < cursor.shard => gen.seen = 0
         /\ gen.shard = cursor.shard =>
              /\ cursor.sample <= gen.seen \/ gen.skips
              /\ \A k \in 1..PerShard :
                    cursor.sample < k /\ k <= gen.seen =>
                        Way[gen.epoch][gen.shard + 1][k] \notin owned
    /\ gen.at = "last" => cursor.epoch = gen.epoch + 1

WaitsOK ==
    /\ gen.at = "off" => buffer = <<>>
    /\ depth = 0 /\ ~asking => queue = <<>> /\ buffer = <<>>
    /\ depth = 0 /\ queue # <<>> => buffer = <<>>

\* The samples on their way to the trainer
Held(q, b) == Range(b) \cup UNION {Range(q[m].samples) : m \in 1..Len(q)}

InFlow(e) ==
    Range(trained[e]) \cup (IF e = gen.epoch THEN Held(queue, buffer) ELSE {})

Most == IF dropLast THEN BatchSize - 1 ELSE 0

\* They follow each other, and what the model has of their epoch.
Chunks(o, e, fed, q, b) ==
    /\ \A m \in 1..Len(q) :
          /\ q[m].epoch = e
          /\ Sorted(o, q[m].samples)
          /\ After(o, fed, Range(q[m].samples))
          /\ After(o, Range(q[m].samples), Range(b))
          /\ \A n \in 1..Len(q) :
                m < n => After(o, Range(q[m].samples), Range(q[n].samples))
    /\ Sorted(o, b)
    /\ After(o, fed, Range(b))

FlowOK ==
    /\ \A e \in Epochs : /\ Fits(Way[e], owned, Most, e, cursor, InFlow(e))
                         /\ Sorted(Way[e], trained[e])
    /\ Chunks(Way[gen.epoch], gen.epoch, Range(trained[gen.epoch]), queue,
              buffer)

SavedOK ==
    \A e \in Epochs :
        /\ Fits(Way[e], owned, Most, e, saved.cursor, Range(saved.trained[e]))
        /\ Sorted(Way[e], saved.trained[e])

LoaderIInv ==
    /\ LoaderTypes /\ GeneratorOK /\ WaitsOK
    /\ depth = 0 \/ ~crashed => FlowOK
    /\ depth = 0 => SavedOK

-----------------------------------------------------------------------------

\* An order of the numbers up to n has each of them.
LEMMA OrdersCover ==
  ASSUME NEW n \in Nat, NEW p \in Orders(n), NEW v \in 1..n
  PROVE  \E i \in 1..n : p[i] = v
  <1>1. p \in Injection(1..n, 1..n)
    BY DEF Orders, Injection, IsInjective
  <1>2. IsFiniteSet(1..n)
    BY FS_Interval
  <1>3. p \in Surjection(1..n, 1..n)
    BY <1>1, <1>2, FS_Injection
  <1> QED
    BY <1>3 DEF Surjection

\* Every sample has one place in the way of an epoch.
LEMMA WaysCover ==
  ASSUME ConfigOK
  PROVE  Way \in [Epochs -> Ways]
  <1> USE LoaderAssumption
  <1> SUFFICES ASSUME NEW e \in Epochs PROVE Way[e] \in Ways
    BY DEF Way
  <1>1. /\ visit[e] \in Orders(ShardCount)
        /\ \A i \in 1..ShardCount : lines[e][i] \in Orders(PerShard)
        /\ \A i \in 1..ShardCount : visit[e][i] \in 1..ShardCount
    BY DEF ConfigOK, Orders
  <1>2. \A i \in 1..ShardCount, k \in 1..PerShard :
           Way[e][i][k] = <<visit[e][i], lines[e][visit[e][i]][k]>>
    BY DEF Way, Sample
  <1>3. \A i \in 1..ShardCount, k \in 1..PerShard :
           lines[e][i][k] \in 1..PerShard
    BY <1>1 DEF Orders
  <1>4. Way[e] \in [1..ShardCount -> [1..PerShard -> Samples]]
    <2>1. \A i \in 1..ShardCount, k \in 1..PerShard : Sample(e, i, k) \in Samples
      BY <1>1, <1>3 DEF Sample, Samples
    <2> QED
      BY <2>1 DEF Way
  <1>5. ASSUME NEW i \in 1..ShardCount, NEW j \in 1..ShardCount,
               NEW k \in 1..PerShard, NEW l \in 1..PerShard,
               Way[e][i][k] = Way[e][j][l]
        PROVE  i = j /\ k = l
    <2>1. visit[e][i] = visit[e][j]
      BY <1>2, <1>5
    <2>2. i = j
      BY <1>1, <2>1 DEF Orders
    <2>3. lines[e][visit[e][i]][k] = lines[e][visit[e][i]][l]
      BY <1>2, <1>5, <2>2
    <2> QED
      BY <1>1, <2>2, <2>3 DEF Orders
  <1>6. ASSUME NEW s \in Samples
        PROVE  \E i \in 1..ShardCount, k \in 1..PerShard : s = Way[e][i][k]
    <2>1. PICK v \in 1..ShardCount, w \in 1..PerShard : s = <<v, w>>
      BY DEF Samples
    <2>2. PICK i \in 1..ShardCount : visit[e][i] = v
      BY <1>1, OrdersCover
    <2>3. PICK k \in 1..PerShard : lines[e][v][k] = w
      BY <1>1, OrdersCover
    <2> QED
      BY <1>2, <2>1, <2>2, <2>3
  <1> QED
    BY <1>4, <1>5, <1>6 DEF Ways

LEMMA OnePlace ==
  ASSUME NEW o \in Ways, NEW i \in 1..ShardCount, NEW j \in 1..ShardCount,
         NEW k \in 1..PerShard, NEW l \in 1..PerShard, o[i][k] = o[j][l]
  PROVE  i = j /\ k = l
  BY DEF Ways

LEMMA LessByPlace ==
  ASSUME NEW o \in Ways, NEW i \in 1..ShardCount, NEW j \in 1..ShardCount,
         NEW k \in 1..PerShard, NEW l \in 1..PerShard
  PROVE  Less(o, o[i][k], o[j][l]) <=> i < j \/ (i = j /\ k < l)
  <1>1. CASE i < j \/ (i = j /\ k < l)
    BY <1>1 DEF Less
  <1>2. CASE Less(o, o[i][k], o[j][l])
    <2>1. PICK i1, j1 \in 1..ShardCount, k1, l1 \in 1..PerShard :
                  /\ o[i][k] = o[i1][k1] /\ o[j][l] = o[j1][l1]
                  /\ i1 < j1 \/ (i1 = j1 /\ k1 < l1)
      BY <1>2 DEF Less
    <2>2. i = i1 /\ k = k1 /\ j = j1 /\ l = l1
      BY <2>1 DEF Ways
    <2> QED
      BY <1>2, <2>1, <2>2
  <1> QED
    BY <1>1, <1>2

\* The order is strict and total.
LEMMA LessIsStrict ==
  ASSUME NEW o \in Ways, NEW s \in Samples, NEW t \in Samples, Less(o, s, t)
  PROVE  ~Less(o, t, s) /\ s # t
  <1> USE LoaderAssumption
  <1>1. PICK i, j \in 1..ShardCount, k, l \in 1..PerShard :
                /\ s = o[i][k] /\ t = o[j][l]
                /\ i < j \/ (i = j /\ k < l)
    BY DEF Less
  <1>2. ~(j < i \/ (j = i /\ l < k))
    BY <1>1
  <1>3. ~Less(o, t, s)
    BY <1>1, <1>2, LessByPlace
  <1>4. s # t
    <2> SUFFICES ASSUME s = t PROVE FALSE
      OBVIOUS
    <2>1. o[i][k] = o[j][l]
      BY <1>1
    <2>2. i = j /\ k = l
      BY <2>1 DEF Ways
    <2> QED
      BY <1>1, <2>2
  <1> QED
    BY <1>3, <1>4

LEMMA RangeOf ==
  ASSUME NEW T, NEW s \in Seq(T)
  PROVE  /\ Range(s) \subseteq T
         /\ \A x : x \in Range(s) <=> \E i \in 1..Len(s) : x = s[i]
         /\ Range(s) = {} <=> s = <<>>
  <1>1. DOMAIN s = 1..Len(s) /\ Len(s) \in Nat
    OBVIOUS
  <1>2. \A x : x \in Range(s) <=> \E i \in 1..Len(s) : x = s[i]
    BY <1>1 DEF Range
  <1>3. \A i \in 1..Len(s) : s[i] \in T
    OBVIOUS
  <1>4. s # <<>> => Len(s) >= 1
    BY <1>1, EmptySeq
  <1>5. s = <<>> => Len(s) = 0
    OBVIOUS
  <1>6. Range(s) \subseteq T
    BY <1>2, <1>3
  <1>7. s = <<>> => Range(s) = {}
    BY <1>2, <1>5
  <1>8. s # <<>> => s[1] \in Range(s)
    BY <1>1, <1>2, <1>4
  <1> QED
    BY <1>2, <1>6, <1>7, <1>8

LEMMA RangeJoined ==
  ASSUME NEW T, NEW a \in Seq(T), NEW b \in Seq(T)
  PROVE  /\ a \o b \in Seq(T)
         /\ Range(a \o b) = Range(a) \cup Range(b)
  BY ConcatProperties, RangeConcatenation

LEMMA SortedJoined ==
  ASSUME NEW o, NEW a \in Seq(Samples), NEW b \in Seq(Samples),
         Sorted(o, a), Sorted(o, b), After(o, Range(a), Range(b))
  PROVE  Sorted(o, a \o b)
  <1> DEFINE c == a \o b
  <1>1. /\ Len(a) \in Nat /\ Len(b) \in Nat /\ Len(c) = Len(a) + Len(b)
        /\ \A i \in 1..(Len(a) + Len(b)) :
              c[i] = IF i <= Len(a) THEN a[i] ELSE b[i - Len(a)]
    BY ConcatProperties
  <1> HIDE DEF c
  <1> SUFFICES ASSUME NEW m \in 1..Len(c), NEW n \in 1..Len(c), m < n
               PROVE  Less(o, c[m], c[n])
    BY DEF Sorted, c
  <1>2. CASE n <= Len(a)
    <2>1. m \in 1..Len(a) /\ n \in 1..Len(a) /\ c[m] = a[m] /\ c[n] = a[n]
      BY <1>1, <1>2
    <2> QED
      BY <2>1 DEF Sorted
  <1>3. CASE Len(a) < m
    <2>1. /\ m - Len(a) \in 1..Len(b) /\ n - Len(a) \in 1..Len(b)
          /\ m - Len(a) < n - Len(a)
          /\ c[m] = b[m - Len(a)] /\ c[n] = b[n - Len(a)]
      BY <1>1, <1>3
    <2> QED
      BY <2>1 DEF Sorted
  <1>4. CASE m <= Len(a) /\ Len(a) < n
    <2>1. m \in 1..Len(a) /\ n - Len(a) \in 1..Len(b)
      BY <1>1, <1>4
    <2>2. c[m] = a[m] /\ c[n] = b[n - Len(a)]
      BY <1>1, <1>4
    <2>3. c[m] \in Range(a) /\ c[n] \in Range(b)
      BY <2>1, <2>2, RangeOf
    <2> QED
      BY <2>3 DEF After
  <1> QED
    BY <1>1, <1>2, <1>3, <1>4

LEMMA SortedOne ==
  ASSUME NEW o, NEW s \in Samples
  PROVE  /\ <<s>> \in Seq(Samples) /\ Sorted(o, <<s>>) /\ Range(<<s>>) = {s}
         /\ Sorted(o, <<>>) /\ Range(<<>>) = {}
  <1>1. Len(<<s>>) = 1 /\ <<s>>[1] = s /\ <<s>> \in Seq(Samples)
    OBVIOUS
  <1>2. Sorted(o, <<s>>)
    BY <1>1 DEF Sorted
  <1>3. Range(<<s>>) = {s}
    <2>1. \A x : x \in Range(<<s>>) <=> \E i \in 1..1 : x = <<s>>[i]
      BY <1>1, RangeOf
    <2> QED
      BY <1>1, <2>1
  <1>4. Sorted(o, <<>>) /\ Range(<<>>) = {}
    <2>1. <<>> \in Seq(Samples) /\ Len(<<>>) = 0
      OBVIOUS
    <2>2. Range(<<>>) = {}
      BY <2>1, RangeOf
    <2> QED
      BY <2>1, <2>2 DEF Sorted
  <1> QED
    BY <1>1, <1>2, <1>3, <1>4

\* What fits, and comes before the rest of what fits, is a beginning.
LEMMA BeginningOf ==
  ASSUME NEW o \in Ways, NEW own \in SUBSET Samples, NEW most, NEW e \in Nat,
         NEW c \in Cursors, NEW flow, Fits(o, own, most, e, c, flow),
         NEW part \in SUBSET flow, After(o, part, flow \ part),
         NEW s \in own, NEW t \in part, Less(o, s, t)
  PROVE  s \in part
  <1> USE LoaderAssumption
  <1> SUFFICES ASSUME s \notin part PROVE FALSE
    OBVIOUS
  <1>1. s \in Samples /\ t \in Samples /\ t \in flow
    BY DEF Fits
  <1>2. s \notin flow
    <2> SUFFICES ASSUME s \in flow PROVE FALSE
      OBVIOUS
    <2>1. Less(o, t, s)
      BY DEF After
    <2> QED
      BY <1>1, <2>1, LessIsStrict
  <1>3. ~(e < c.epoch)
    <2> SUFFICES ASSUME e < c.epoch PROVE FALSE
      OBVIOUS
    <2>1. Less(o, t, s)
      BY <1>1, <1>2 DEF Fits, After
    <2> QED
      BY <1>1, <2>1, LessIsStrict
  <1>4. PICK i, j \in 1..ShardCount, k, l \in 1..PerShard :
                /\ s = o[i][k] /\ t = o[j][l]
                /\ i < j \/ (i = j /\ k < l)
    BY DEF Less
  <1>5. Passed(c, e, j, l)
    BY <1>1, <1>4 DEF Fits
  <1>6. Passed(c, e, i, k) /\ e = c.epoch
    BY <1>3, <1>4, <1>5 DEF Passed, Cursors
  <1> QED
    BY <1>2, <1>4, <1>6 DEF Fits

LEMMA LoaderInitial == LoaderInit => LoaderIInv
  <1> SUFFICES ASSUME LoaderInit PROVE LoaderIInv
    OBVIOUS
  <1> USE LoaderAssumption
  <1> DEFINE start == [epoch |-> 0, shard |-> 0, sample |-> 0]
  <1>1. /\ 0 \in Epochs /\ start \in Cursors
        /\ cursor = start /\ gen = NoGen /\ buffer = <<>> /\ queue = <<>>
        /\ trained = [e \in Epochs |-> <<>>]
        /\ saved = [cursor |-> start, trained |-> trained]
        /\ asking = FALSE /\ crashed = FALSE
    BY DEF LoaderInit, Epochs, Cursors
  <1>2. NoGen \in Generators
    BY <1>1 DEF NoGen, Generators
  <1>3. ConfigOK
    BY DEF LoaderInit, ConfigOK
  <1>4. LoaderTypes
    <2>1. /\ <<>> \in Seq(Samples) /\ Len(<<>>) = 0 /\ <<>> \in Seq(FullBatches)
      OBVIOUS
    <2>2. trained \in [Epochs -> Seq(Samples)]
      BY <1>1, <2>1
    <2>3. saved \in [cursor: Cursors, trained: [Epochs -> Seq(Samples)]]
      BY <1>1, <2>2
    <2>4. 0 <= IF depth = 0 THEN 1 ELSE depth
      BY <1>3 DEF ConfigOK
    <2> QED
      BY <1>1, <1>2, <1>3, <2>1, <2>2, <2>3, <2>4 DEF LoaderTypes
  <1>5. GeneratorOK /\ WaitsOK
    BY <1>1 DEF GeneratorOK, WaitsOK, NoGen
  <1>6. Way \in [Epochs -> Ways]
    BY <1>3, WaysCover
  <1>7. ASSUME NEW e \in Epochs
        PROVE  /\ Fits(Way[e], owned, Most, e, start, {})
               /\ Sorted(Way[e], <<>>)
    <2>1. \A i \in 1..ShardCount, k \in 1..PerShard : ~Passed(start, e, i, k)
      BY DEF Passed, Epochs
    <2>2. ~(e < start.epoch)
      BY DEF Epochs
    <2>3. Sorted(Way[e], <<>>)
      BY DEF Sorted
    <2> QED
      BY <2>1, <2>2, <2>3 DEF Fits
  <1> HIDE DEF start
  <1>8. /\ Range(<<>>) = {} /\ Held(queue, buffer) = {}
        /\ \A e \in Epochs : trained[e] = <<>> /\ saved.trained[e] = <<>>
    <2>1. Range(<<>>) = {}
      BY DEF Range
    <2>2. 1..Len(queue) = {}
      BY <1>1
    <2>3. Held(queue, buffer) = {}
      BY <1>1, <2>1, <2>2 DEF Held
    <2> QED
      BY <1>1, <2>1, <2>3
  <1>9. \A e \in Epochs : InFlow(e) = {}
    BY <1>8 DEF InFlow
  <1>10. SavedOK
    BY <1>1, <1>7, <1>8 DEF SavedOK
  <1>11. FlowOK
    <2>1. gen.epoch = 0 /\ 1..Len(queue) = {}
      BY <1>1 DEF NoGen
    <2>2. Chunks(Way[gen.epoch], gen.epoch, Range(trained[gen.epoch]), queue,
                 buffer)
      BY <1>1, <1>7, <1>8, <2>1 DEF Chunks, After
    <2> QED
      BY <1>1, <1>7, <1>8, <1>9, <2>2 DEF FlowOK
  <1> QED
    BY <1>4, <1>5, <1>10, <1>11 DEF LoaderIInv

-----------------------------------------------------------------------------
(* Types and the generator's place *)

LEMMA SameWay ==
  ASSUME UNCHANGED configVars
  PROVE  Way' = Way /\ Most' = Most
  BY DEF configVars, Way, Most, Sample

LEMMA GeneratorMoved ==
  ASSUME gen \in Generators, NEW shard \in 0..ShardCount, NEW position,
         MovesOn(shard, position)
  PROVE  /\ gen' \in Generators
         /\ gen'.at = gen.at /\ gen'.epoch = gen.epoch
         /\ gen'.shard = shard /\ gen'.seen = 0
         /\ gen'.skips = (position.shard = shard /\ position.sample > 0)
  <1> DEFINE skips == position.shard = shard /\ position.sample > 0
  <1>1. skips \in BOOLEAN /\ 0 \in 0..PerShard
    BY LoaderAssumption
  <1>2. gen' = [gen EXCEPT !.shard = shard, !.seen = 0, !.skips = skips]
    BY DEF MovesOn
  <1> HIDE DEF skips
  <1>3. /\ gen' \in Generators
        /\ gen'.at = gen.at /\ gen'.epoch = gen.epoch
        /\ gen'.shard = shard /\ gen'.seen = 0 /\ gen'.skips = skips
    BY <1>1, <1>2 DEF Generators
  <1> QED
    BY <1>3 DEF skips

LEMMA ReadTypes ==
  ASSUME LoaderTypes, Opens \/ SkipsShard \/ Reads \/ EndsShard \/ EndsEpoch
  PROVE  LoaderTypes' /\ gen' \in Generators /\ cursor' \in Cursors
  <1> USE LoaderAssumption
  <1>1. UNCHANGED <<configVars, queue, asking, trained, saved, crashed>>
    BY DEF Opens, SkipsShard, Reads, EndsShard, EndsEpoch
  <1>2. /\ cursor \in Cursors /\ gen \in Generators
        /\ buffer \in Seq(Samples) /\ Len(buffer) <= BatchSize
    BY DEF LoaderTypes
  <1>3. cursor' \in Cursors /\ gen' \in Generators
        /\ buffer' \in Seq(Samples) /\ Len(buffer') <= BatchSize
    <2>1. CASE Opens
      <3>1. cursor.epoch \in Epochs
        BY <1>2, <2>1 DEF Opens, Cursors, Epochs
      <3> QED
        BY <1>2, <2>1, <3>1 DEF Opens, Cursors, Generators
    <2>2. CASE SkipsShard
      <3>1. gen.shard + 1 \in 0..ShardCount
        BY <1>2, <2>2 DEF SkipsShard, Cursors, Generators
      <3> QED
        BY <1>2, <2>2, <3>1, GeneratorMoved DEF SkipsShard
    <2>3. CASE Reads
      <3> DEFINE k == gen.seen + 1
                 sample == Sample(gen.epoch, gen.shard + 1, k)
      <3>1. k \in 1..PerShard /\ gen.shard + 1 \in 1..ShardCount
        <4>1. gen.seen \in 0..PerShard /\ gen.seen < PerShard
          BY <1>2, <2>3 DEF Reads, Generators
        <4>2. gen.shard \in cursor.shard..(ShardCount - 1) /\ cursor.shard \in Nat
          BY <1>2, <2>3 DEF Reads, Cursors
        <4> QED
          BY <4>1, <4>2
      <3>2. gen' \in Generators
        BY <1>2, <2>3, <3>1 DEF Reads, Generators
      <3>3. sample \in Samples
        BY <1>2, <3>1, WaysCover DEF LoaderTypes, Generators, Way, Ways
      <3>4. \/ UNCHANGED <<cursor, buffer>>
            \/ /\ cursor' = [cursor EXCEPT !.sample = k]
               /\ buffer' = Append(buffer, sample)
        BY <2>3 DEF Reads, CursorAt
      <3>5. Len(buffer) < BatchSize
        BY <2>3 DEF Reads, GenRuns
      <3> HIDE DEF k, sample
      <3>6. /\ Append(buffer, sample) \in Seq(Samples)
            /\ Len(Append(buffer, sample)) <= BatchSize
        BY <1>2, <3>3, <3>5, AppendProperties
      <3>7. [cursor EXCEPT !.sample = k] \in Cursors
        BY <1>2, <3>1 DEF Cursors
      <3> QED
        BY <1>2, <3>2, <3>4, <3>6, <3>7
    <2>4. CASE EndsShard
      <3>1. gen.shard + 1 \in 0..ShardCount
        BY <1>2, <2>4 DEF EndsShard, Cursors, Generators
      <3>2. gen' \in Generators
        BY <1>2, <2>4, <3>1, GeneratorMoved DEF EndsShard
      <3>3. cursor' \in Cursors /\ buffer' = buffer
        <4>1. cursor' = [cursor EXCEPT !.shard = gen.shard + 1, !.sample = 0]
          BY <2>4 DEF EndsShard
        <4>2. 0 \in 0..PerShard /\ buffer' = buffer
          BY <2>4 DEF EndsShard
        <4> QED
          BY <1>2, <3>1, <4>1, <4>2 DEF Cursors
      <3> QED
        BY <1>2, <3>2, <3>3
    <2>5. CASE EndsEpoch
      <3>1. gen.epoch + 1 \in 0..(LastEpoch + 1)
        BY <1>2 DEF Generators, Epochs
      <3>2. cursor' \in Cursors
        BY <2>5, <3>1 DEF EndsEpoch, Cursors
      <3>3. gen' \in Generators
        BY <1>2, <2>5 DEF EndsEpoch, Generators
      <3>4. buffer' = buffer \/ buffer' = <<>>
        BY <2>5 DEF EndsEpoch
      <3>5. <<>> \in Seq(Samples) /\ Len(<<>>) <= BatchSize
        OBVIOUS
      <3> QED
        BY <1>2, <3>2, <3>3, <3>4, <3>5
    <2> QED
      BY <2>1, <2>2, <2>3, <2>4, <2>5
  <1> QED
    BY <1>1, <1>3 DEF LoaderTypes, ConfigOK, configVars

LEMMA PutTypes ==
  ASSUME LoaderTypes, Puts
  PROVE  /\ LoaderTypes'
         /\ [epoch |-> gen.epoch, samples |-> buffer] \in FullBatches
  <1> USE LoaderAssumption
  <1> DEFINE batch == [epoch |-> gen.epoch, samples |-> buffer]
  <1>1. batch \in FullBatches
    BY DEF LoaderTypes, FullBatches, Generators
  <1>2. /\ queue' = Append(queue, batch) /\ buffer' = <<>>
        /\ UNCHANGED <<configVars, cursor, asking, trained, saved, crashed>>
        /\ gen' \in {gen, [gen EXCEPT !.at = "off"]}
    BY DEF Puts
  <1> HIDE DEF batch
  <1>3. queue' \in Seq(FullBatches) /\ Len(queue') = Len(queue) + 1
    BY <1>1, <1>2, AppendProperties DEF LoaderTypes
  <1>4. Len(queue') <= IF depth = 0 THEN 1 ELSE depth
    <2>1. Len(queue) \in Nat
      BY DEF LoaderTypes
    <2>2. CASE depth = 0
      BY <1>3, <2>2 DEF Puts, Room
    <2>3. CASE depth # 0
      BY <1>3, <2>1, <2>3 DEF Puts, Room, LoaderTypes, ConfigOK
    <2> QED
      BY <2>2, <2>3
  <1>5. gen' \in Generators
    BY <1>2 DEF LoaderTypes, Generators
  <1>6. buffer' \in Seq(Samples) /\ Len(buffer') <= BatchSize
    BY <1>2
  <1> QED
    BY <1>1, <1>2, <1>3, <1>4, <1>5, <1>6 DEF LoaderTypes, ConfigOK,
                                              configVars, batch

LEMMA TrainerTypes ==
  ASSUME LoaderTypes, Asks \/ Trains \/ Saves \/ Crashes
  PROVE  LoaderTypes'
  <1> USE LoaderAssumption
  <1>1. UNCHANGED configVars
    BY DEF Asks, Trains, Saves, Crashes
  <1>2. CASE Asks
    BY <1>1, <1>2 DEF Asks, LoaderTypes, ConfigOK, configVars
  <1>3. CASE Trains
    <2>1. /\ queue \in Seq(FullBatches) /\ queue # <<>>
          /\ trained \in [Epochs -> Seq(Samples)]
      BY <1>3 DEF Trains, LoaderTypes
    <2>2. /\ Head(queue) \in FullBatches /\ Tail(queue) \in Seq(FullBatches)
          /\ Len(Tail(queue)) = Len(queue) - 1 /\ Len(queue) \in Nat
      BY <2>1, HeadTailProperties
    <2>3. /\ Head(queue).epoch \in Epochs /\ Head(queue).samples \in Seq(Samples)
      BY <2>2 DEF FullBatches
    <2>4. trained[Head(queue).epoch] \o Head(queue).samples \in Seq(Samples)
      BY <2>1, <2>3
    <2>5. trained' \in [Epochs -> Seq(Samples)]
      BY <1>3, <2>1, <2>4 DEF Trains
    <2>6. Len(Tail(queue)) <= IF depth = 0 THEN 1 ELSE depth
      BY <2>2 DEF LoaderTypes, ConfigOK
    <2> QED
      BY <1>1, <1>3, <2>2, <2>5, <2>6 DEF Trains, LoaderTypes, ConfigOK,
                                          configVars
  <1>4. CASE Saves
    <2>1. saved' \in [cursor: Cursors, trained: [Epochs -> Seq(Samples)]]
      BY <1>4 DEF Saves, LoaderTypes
    <2> QED
      BY <1>1, <1>4, <2>1 DEF Saves, LoaderTypes, ConfigOK, configVars
  <1>5. CASE Crashes
    <2>1. /\ cursor' \in Cursors /\ trained' \in [Epochs -> Seq(Samples)]
          /\ UNCHANGED saved
      BY <1>5 DEF Crashes, LoaderTypes
    <2>2. gen' \in Generators
      BY <1>5 DEF Crashes, NoGen, Generators, Epochs
    <2>3. buffer' = <<>> /\ queue' = <<>>
      BY <1>5 DEF Crashes
    <2>4. 0 <= IF depth = 0 THEN 1 ELSE depth
      BY DEF LoaderTypes, ConfigOK
    <2>5. /\ buffer' \in Seq(Samples) /\ Len(buffer') <= BatchSize
          /\ queue' \in Seq(FullBatches)
          /\ Len(queue') <= IF depth = 0 THEN 1 ELSE depth
      BY <2>3, <2>4
    <2>6. asking' \in BOOLEAN /\ crashed' \in BOOLEAN
      BY <1>5 DEF Crashes
    <2> QED
      BY <1>1, <2>1, <2>2, <2>5, <2>6 DEF LoaderTypes, ConfigOK, configVars
  <1> QED
    BY <1>2, <1>3, <1>4, <1>5

LEMMA LoaderTyping == LoaderTypes /\ [LoaderNext]_loaderVars => LoaderTypes'
  <1> SUFFICES ASSUME LoaderTypes, [LoaderNext]_loaderVars PROVE LoaderTypes'
    OBVIOUS
  <1>1. CASE UNCHANGED loaderVars
    BY <1>1 DEF loaderVars, configVars, LoaderTypes, ConfigOK
  <1> QED
    BY <1>1, ReadTypes, PutTypes, TrainerTypes DEF LoaderNext

\* Where the generator is against the cursor
LEMMA GeneratorMoves ==
  ASSUME LoaderTypes, GeneratorOK, [LoaderNext]_loaderVars
  PROVE  GeneratorOK'
  <1> USE LoaderAssumption
  <1>1. cursor \in Cursors /\ gen \in Generators
    BY DEF LoaderTypes
  <1>2. ASSUME UNCHANGED <<configVars, cursor, gen>> PROVE GeneratorOK'
    <2>1. Way' = Way /\ owned' = owned /\ cursor' = cursor /\ gen' = gen
      BY <1>2, SameWay DEF configVars
    <2> QED
      BY <2>1 DEF GeneratorOK
  <1>3. ASSUME gen'.at # "reading",
               gen'.at = "last" => cursor'.epoch = gen'.epoch + 1
        PROVE  GeneratorOK'
    BY <1>3 DEF GeneratorOK
  <1>4. CASE Opens
    <2>1. /\ gen'.at = "reading" /\ gen'.epoch = cursor.epoch
          /\ gen'.shard = 0 /\ gen'.seen = 0
          /\ cursor' = cursor
      BY <1>4 DEF Opens
    <2>2. cursor.shard \in Nat /\ cursor.sample \in Nat
      BY <1>1 DEF Cursors
    <2>3. gen'.shard = cursor'.shard /\ ~gen'.skips => cursor'.sample <= 0
      <3> SUFFICES ASSUME gen'.shard = cursor'.shard, ~(cursor'.sample <= 0)
                   PROVE  gen'.skips
        OBVIOUS
      <3>1. cursor.shard = 0 /\ cursor.sample > 0
        <4>1. cursor.shard = 0
          BY <2>1
        <4>2. ~(cursor.sample <= 0)
          BY <2>1
        <4> QED
          BY <2>2, <4>1, <4>2
      <3>2. gen'.skips = (cursor.shard = 0 /\ cursor.sample > 0)
        <4> DEFINE skips == cursor.shard = 0 /\ cursor.sample > 0
        <4>1. gen' = [at |-> "reading", epoch |-> cursor.epoch, shard |-> 0,
                      seen |-> 0, skips |-> skips]
          BY <1>4 DEF Opens
        <4> HIDE DEF skips
        <4>2. gen'.skips = skips
          BY <4>1
        <4> QED
          BY <4>2 DEF skips
      <3> QED
        BY <3>1, <3>2, Zenon
    <2>4. /\ gen'.epoch = cursor'.epoch /\ gen'.shard <= cursor'.shard
          /\ gen'.seen = 0 /\ gen'.at # "last"
      BY <2>1, <2>2
    <2>5. \A k \in 1..PerShard : ~(k <= gen'.seen)
      BY <2>4
    <2> QED
      BY <2>3, <2>4, <2>5 DEF GeneratorOK
  <1>5. CASE SkipsShard
    <2>1. /\ gen.at = "reading" /\ gen.shard < cursor.shard
          /\ MovesOn(gen.shard + 1, cursor) /\ cursor' = cursor
      BY <1>5 DEF SkipsShard, GenRuns
    <2>2. /\ gen.shard + 1 \in 0..ShardCount
          /\ gen.shard + 1 <= cursor.shard
          /\ cursor.sample \in Nat /\ cursor.shard \in Nat
      BY <1>1, <2>1 DEF Generators, Cursors
    <2>3. /\ gen'.at = "reading" /\ gen'.epoch = gen.epoch /\ gen'.seen = 0
          /\ gen'.shard = gen.shard + 1
          /\ gen'.skips = (cursor.shard = gen.shard + 1 /\ cursor.sample > 0)
      BY <1>1, <2>1, <2>2, GeneratorMoved
    <2>4. gen.epoch = cursor.epoch
      BY <2>1 DEF GeneratorOK
    <2>5. gen'.shard = cursor'.shard /\ ~gen'.skips => cursor'.sample <= 0
      <3> SUFFICES ASSUME gen'.shard = cursor'.shard, ~(cursor'.sample <= 0)
                   PROVE  gen'.skips
        OBVIOUS
      <3>1. cursor.shard = gen.shard + 1 /\ cursor.sample > 0
        BY <2>1, <2>2, <2>3
      <3> QED
        BY <2>3, <3>1, Zenon
    <2>6. /\ gen'.epoch = cursor'.epoch /\ gen'.shard <= cursor'.shard
          /\ gen'.seen = 0 /\ gen'.at # "last"
      BY <2>1, <2>2, <2>3, <2>4
    <2>7. \A k \in 1..PerShard : ~(k <= gen'.seen)
      BY <2>6
    <2> QED
      BY <2>5, <2>6, <2>7 DEF GeneratorOK
  <1>6. CASE Reads
    <2> DEFINE k == gen.seen + 1
               sample == Sample(gen.epoch, gen.shard + 1, k)
    <2>1. /\ gen.at = "reading" /\ gen.shard = cursor.shard
          /\ gen.epoch = cursor.epoch
      <3>1. /\ gen.at = "reading"
            /\ gen.shard \in cursor.shard..(ShardCount - 1)
        BY <1>6 DEF Reads, GenRuns
      <3>2. gen.shard <= cursor.shard /\ gen.epoch = cursor.epoch
        BY <3>1 DEF GeneratorOK
      <3>3. cursor.shard \in Nat /\ gen.shard \in Nat
        BY <1>1 DEF Cursors, Generators
      <3> QED
        BY <3>1, <3>2, <3>3
    <2>2. /\ k \in 1..PerShard /\ gen.shard + 1 \in 1..ShardCount
          /\ gen.seen \in Nat /\ cursor.sample \in Nat
      <3>1. gen.seen \in 0..PerShard /\ gen.seen < PerShard
        BY <1>1, <1>6 DEF Reads, Generators
      <3>2. gen.shard \in cursor.shard..(ShardCount - 1) /\ cursor.shard \in Nat
            /\ cursor.sample \in Nat
        BY <1>1, <1>6 DEF Reads, Cursors
      <3> QED
        BY <3>1, <3>2
    <2>3. /\ gen'.at = "reading" /\ gen'.epoch = gen.epoch
          /\ gen'.shard = gen.shard /\ gen'.seen = k
          /\ gen'.skips = gen.skips
          /\ UNCHANGED configVars
      BY <1>1, <1>6, <2>1 DEF Reads, Generators
    <2>4. sample = Way[gen.epoch][gen.shard + 1][k]
      BY <1>1, <2>2 DEF Way, Generators
    <2>5. Way' = Way /\ owned' = owned
      BY <2>3, SameWay DEF configVars
    <2>6. CASE SkipsUpTo(k) \/ sample \notin owned
      <3>1. cursor' = cursor
        BY <1>6, <2>6 DEF Reads
      <3>2. cursor.sample <= k \/ gen.skips
        BY <2>1, <2>2 DEF GeneratorOK
      <3>3. ASSUME NEW l \in 1..PerShard, cursor.sample < l, l <= k
            PROVE  Way[gen.epoch][gen.shard + 1][l] \notin owned
        <4>1. CASE l = k
          <5>1. ~SkipsUpTo(k)
            BY <2>2, <3>3, <4>1 DEF SkipsUpTo
          <5> QED
            BY <2>4, <2>6, <4>1, <5>1
        <4>2. CASE l # k
          <5>1. l <= gen.seen
            BY <2>2, <3>3, <4>2
          <5> QED
            BY <2>1, <3>3, <5>1 DEF GeneratorOK
        <4> QED
          BY <4>1, <4>2
      <3> HIDE DEF k
      <3>4. cursor'.sample <= gen'.seen \/ gen'.skips
        BY <2>3, <3>1, <3>2
      <3>5. \A l \in 1..PerShard : cursor'.sample < l /\ l <= gen'.seen =>
                Way'[gen'.epoch][gen'.shard + 1][l] \notin owned'
        BY <2>3, <2>5, <3>1, <3>3
      <3>6. /\ gen'.epoch = cursor'.epoch /\ gen'.shard = cursor'.shard
            /\ gen'.shard <= cursor'.shard /\ gen'.at # "last"
            /\ ~(gen'.shard < cursor'.shard)
        BY <1>1, <2>1, <2>3, <3>1 DEF Cursors
      <3> QED
        BY <3>4, <3>5, <3>6 DEF GeneratorOK
    <2>7. CASE ~(SkipsUpTo(k) \/ sample \notin owned)
      <3>1. cursor' = [cursor EXCEPT !.sample = k]
        BY <1>6, <2>7 DEF Reads, CursorAt
      <3>2. /\ cursor'.epoch = cursor.epoch /\ cursor'.shard = cursor.shard
            /\ cursor'.sample = k
        BY <1>1, <3>1 DEF Cursors
      <3>3. \A l \in 1..PerShard : ~(k < l /\ l <= k)
        BY <2>2
      <3> HIDE DEF k
      <3>4. k <= k /\ gen.shard \in Nat
        BY <1>1, <2>2 DEF Generators
      <3> QED
        BY <2>1, <2>3, <3>2, <3>3, <3>4 DEF GeneratorOK
    <2> QED
      BY <2>6, <2>7
  <1>7. CASE EndsShard
    <2>1. /\ gen.at = "reading"
          /\ gen.shard \in cursor.shard..(ShardCount - 1)
          /\ cursor' = [cursor EXCEPT !.shard = gen.shard + 1, !.sample = 0]
          /\ MovesOn(gen.shard + 1, cursor')
      BY <1>7 DEF EndsShard, GenRuns
    <2>2. gen.epoch = cursor.epoch
      BY <2>1 DEF GeneratorOK
    <2>3. /\ cursor'.epoch = cursor.epoch /\ cursor'.shard = gen.shard + 1
          /\ cursor'.sample = 0
      BY <1>1, <2>1 DEF Cursors
    <2>4. gen.shard + 1 \in 0..ShardCount
      BY <1>1, <2>1 DEF Generators, Cursors
    <2>5. /\ gen'.at = gen.at /\ gen'.epoch = gen.epoch /\ gen'.seen = 0
          /\ gen'.shard = gen.shard + 1
      BY <1>1, <2>1, <2>4, GeneratorMoved
    <2> QED
      BY <2>1, <2>2, <2>3, <2>4, <2>5 DEF GeneratorOK
  <1>8. CASE EndsEpoch
    <2>1. /\ gen'.epoch = gen.epoch
          /\ gen'.at \in {"last", "off"}
          /\ cursor'.epoch = gen.epoch + 1
      BY <1>1, <1>8 DEF EndsEpoch, Generators
    <2> QED
      BY <1>3, <2>1
  <1>9. CASE Puts
    <2>1. CASE gen.at = "last"
      <3>1. gen'.at = "off"
        BY <1>1, <1>9, <2>1 DEF Puts, Generators
      <3> QED
        BY <1>3, <3>1
    <2>2. CASE gen.at # "last"
      BY <1>2, <1>9, <2>2 DEF Puts
    <2> QED
      BY <2>1, <2>2
  <1>10. CASE Asks \/ Saves \/ Trains \/ UNCHANGED loaderVars
    BY <1>2, <1>10 DEF Asks, Saves, Trains, loaderVars
  <1>11. CASE Crashes
    BY <1>3, <1>11 DEF Crashes, NoGen
  <1> QED
    BY <1>4, <1>5, <1>6, <1>7, <1>8, <1>9, <1>10, <1>11 DEF LoaderNext

\* Who waits for whom
LEMMA WaitsStay ==
  ASSUME LoaderTypes, WaitsOK, [LoaderNext]_loaderVars
  PROVE  WaitsOK'
  <1>1. CASE UNCHANGED <<depth, asking, queue, buffer, gen>>
    BY <1>1 DEF WaitsOK
  <1>2. CASE Opens
    BY <1>2 DEF Opens, WaitsOK, configVars
  <1>3. CASE SkipsShard \/ EndsShard \/ Reads
    <2>1. gen.at = "reading" /\ (depth = 0 => asking /\ queue = <<>>)
      BY <1>3 DEF SkipsShard, EndsShard, Reads, GenRuns
    <2>2. gen'.at = gen.at
      BY <1>3 DEF SkipsShard, EndsShard, Reads, MovesOn, LoaderTypes, Generators
    <2>3. UNCHANGED <<depth, asking, queue>>
      BY <1>3 DEF SkipsShard, EndsShard, Reads, configVars
    <2> QED
      BY <2>1, <2>2, <2>3 DEF WaitsOK
  <1>4. CASE EndsEpoch
    <2>1. depth = 0 => asking /\ queue = <<>>
      BY <1>4 DEF EndsEpoch, GenRuns
    <2>2. gen'.at = "off" => buffer' = <<>>
      BY <1>4 DEF EndsEpoch, LoaderTypes, Generators
    <2>3. UNCHANGED <<depth, asking, queue>>
      BY <1>4 DEF EndsEpoch, configVars
    <2> QED
      BY <2>1, <2>2, <2>3 DEF WaitsOK
  <1>5. CASE Puts
    <2>1. buffer' = <<>> /\ (depth = 0 => asking) /\ UNCHANGED <<depth, asking>>
      BY <1>5 DEF Puts, Room, configVars
    <2> QED
      BY <2>1 DEF WaitsOK
  <1>6. CASE Asks
    BY <1>6 DEF Asks, WaitsOK, configVars
  <1>7. CASE Trains
    <2>1. /\ queue' = Tail(queue) /\ queue # <<>>
          /\ UNCHANGED <<depth, gen, buffer>>
      BY <1>7 DEF Trains, configVars
    <2>2. depth = 0 => queue' = <<>>
      <3> SUFFICES ASSUME depth = 0 PROVE queue' = <<>>
        OBVIOUS
      <3>1. queue \in Seq(FullBatches) /\ Len(queue) <= 1
        BY DEF LoaderTypes
      <3>2. /\ Tail(queue) \in Seq(FullBatches)
            /\ Len(Tail(queue)) = Len(queue) - 1 /\ Len(Tail(queue)) \in Nat
            /\ Len(queue) \in Nat
        BY <2>1, <3>1, HeadTailProperties
      <3>3. Len(queue') = 0 /\ queue' \in Seq(FullBatches)
        BY <2>1, <3>1, <3>2
      <3> QED
        BY <3>3, EmptySeq
    <2> QED
      BY <2>1, <2>2 DEF WaitsOK
  <1>8. CASE Saves \/ UNCHANGED loaderVars
    BY <1>1, <1>8 DEF Saves, loaderVars, configVars
  <1>9. CASE Crashes
    BY <1>9 DEF Crashes, WaitsOK
  <1> QED
    BY <1>2, <1>3, <1>4, <1>5, <1>6, <1>7, <1>8, <1>9 DEF LoaderNext
-----------------------------------------------------------------------------
(* The flow: what was trained on, the queue and the batch being filled *)

LEMMA HeldIs ==
  ASSUME NEW q, NEW b, NEW s
  PROVE  s \in Held(q, b) <=> \/ \E m \in 1..Len(q) : s \in Range(q[m].samples)
                              \/ s \in Range(b)
  BY DEF Held

LEMMA AfterHeld ==
  ASSUME NEW o, NEW e, NEW fed, NEW q, NEW b, Chunks(o, e, fed, q, b)
  PROVE  After(o, fed, Held(q, b))
  <1> SUFFICES ASSUME NEW s \in fed, NEW t \in Held(q, b) PROVE Less(o, s, t)
    BY DEF After
  <1>1. CASE t \in Range(b)
    BY <1>1 DEF Chunks, After
  <1>2. CASE t \notin Range(b)
    <2>1. PICK m \in 1..Len(q) : t \in Range(q[m].samples)
      BY <1>2, HeldIs
    <2> QED
      BY <2>1 DEF Chunks, After
  <1> QED
    BY <1>1, <1>2

LEMMA NoneHeld ==
  ASSUME NEW o, NEW e, NEW fed
  PROVE  /\ Held(<<>>, <<>>) = {}
         /\ Chunks(o, e, fed, <<>>, <<>>)
  <1>1. 1..Len(<<>>) = {} /\ Range(<<>>) = {}
    BY DEF Range
  <1>2. Sorted(o, <<>>)
    BY <1>1 DEF Sorted
  <1> QED
    BY <1>1, <1>2 DEF Held, Chunks, After

LEMMA RangeGrows ==
  ASSUME NEW b \in Seq(Samples), NEW s \in Samples, NEW r, r = Append(b, s)
  PROVE  \A x : x \in Range(r) <=> x \in Range(b) \/ x = s
  <1>1. r = b \o <<s>>
    OBVIOUS
  <1>2. <<s>> \in Seq(Samples) /\ Range(<<s>>) = {s}
    BY SortedOne
  <1>3. Range(b \o <<s>>) = Range(b) \cup Range(<<s>>)
    BY <1>2, RangeJoined
  <1> QED
    BY <1>1, <1>2, <1>3

LEMMA HeldGrows ==
  ASSUME NEW q, NEW b \in Seq(Samples), NEW s \in Samples,
         NEW r, r = Append(b, s)
  PROVE  \A x : x \in Held(q, r) <=> x \in Held(q, b) \/ x = s
  BY RangeGrows DEF Held

\* A sample read joins the batch.
LEMMA ChunksGrow ==
  ASSUME NEW o, NEW e, NEW fed, NEW q \in Seq(FullBatches),
         NEW b \in Seq(Samples), NEW s \in Samples, Chunks(o, e, fed, q, b),
         NEW r, r = Append(b, s), After(o, fed, {s}), After(o, Held(q, b), {s})
  PROVE  Chunks(o, e, fed, q, r)
  <1>1. r = b \o <<s>>
    OBVIOUS
  <1>2. <<s>> \in Seq(Samples) /\ Sorted(o, <<s>>) /\ Range(<<s>>) = {s}
    BY SortedOne
  <1>3. Range(r) = Range(b) \cup {s}
    BY RangeGrows
  <1>4. After(o, Range(b), {s})
    BY HeldIs DEF After
  <1>5. Sorted(o, r)
    BY <1>1, <1>2, <1>4, SortedJoined DEF Chunks
  <1>6. After(o, fed, Range(r))
    BY <1>3 DEF Chunks, After
  <1>7. \A m \in 1..Len(q) : After(o, Range(q[m].samples), Range(r))
    <2> SUFFICES ASSUME NEW m \in 1..Len(q), NEW x \in Range(q[m].samples),
                        NEW y \in Range(b) \cup {s}
                 PROVE  Less(o, x, y)
      BY <1>3 DEF After
    <2>1. x \in Held(q, b)
      BY HeldIs
    <2> QED
      BY <2>1 DEF Chunks, After
  <1> QED
    BY <1>5, <1>6, <1>7 DEF Chunks

\* The batch joins the queue.
LEMMA HeldPasses ==
  ASSUME NEW o, NEW e \in Epochs, NEW fed, NEW q \in Seq(FullBatches),
         NEW b \in Seq(Samples), Chunks(o, e, fed, q, b)
  PROVE  /\ Chunks(o, e, fed, Append(q, [epoch |-> e, samples |-> b]), <<>>)
         /\ Held(Append(q, [epoch |-> e, samples |-> b]), <<>>) = Held(q, b)
  <1> DEFINE batch == [epoch |-> e, samples |-> b]
             r == Append(q, batch)
  <1>1. batch \in FullBatches /\ batch.epoch = e /\ batch.samples = b
    BY DEF FullBatches
  <1>2. Sorted(o, <<>>) /\ Range(<<>>) = {}
    BY DEF Sorted, Range
  <1> HIDE DEF batch
  <1>3. /\ Len(q) \in Nat /\ Len(r) = Len(q) + 1
        /\ \A i \in 1..Len(q) : r[i] = q[i]
        /\ r[Len(q) + 1] = batch
    BY <1>1, AppendProperties
  <1> HIDE DEF r
  <1>4. \A m \in 1..Len(r) :
           \/ m \in 1..Len(q) /\ r[m] = q[m]
           \/ m = Len(q) + 1 /\ r[m] = batch
    BY <1>3
  <1>5. \A m, n \in 1..Len(r) : m < n => m \in 1..Len(q)
    BY <1>3
  <1>6. ASSUME NEW m \in 1..Len(r)
        PROVE  /\ r[m].epoch = e
               /\ Sorted(o, r[m].samples)
               /\ After(o, fed, Range(r[m].samples))
               /\ After(o, Range(r[m].samples), Range(<<>>))
               /\ \A n \in 1..Len(r) :
                     m < n => After(o, Range(r[m].samples), Range(r[n].samples))
    <2>1. /\ r[m].epoch = e
          /\ Sorted(o, r[m].samples)
          /\ After(o, fed, Range(r[m].samples))
      BY <1>1, <1>4 DEF Chunks
    <2>2. After(o, Range(r[m].samples), Range(<<>>))
      BY <1>2 DEF After
    <2>3. ASSUME NEW n \in 1..Len(r), m < n
          PROVE  After(o, Range(r[m].samples), Range(r[n].samples))
      <3>1. m \in 1..Len(q) /\ r[m] = q[m]
        BY <1>3, <1>5, <2>3
      <3>2. CASE n \in 1..Len(q) /\ r[n] = q[n]
        BY <2>3, <3>1, <3>2 DEF Chunks
      <3>3. CASE r[n] = batch
        BY <1>1, <3>1, <3>3 DEF Chunks
      <3> QED
        BY <1>4, <3>2, <3>3
    <2> QED
      BY <2>1, <2>2, <2>3
  <1>7. After(o, fed, Range(<<>>))
    BY <1>2 DEF After
  <1>8. Chunks(o, e, fed, r, <<>>)
    BY <1>2, <1>6, <1>7 DEF Chunks
  <1>9. ASSUME NEW s PROVE s \in Held(r, <<>>) <=> s \in Held(q, b)
    <2>1. Len(q) + 1 \in 1..Len(r) /\ 1..Len(q) \subseteq 1..Len(r)
      BY <1>3
    <2>2. (\E m \in 1..Len(r) : s \in Range(r[m].samples))
             <=> \/ \E m \in 1..Len(q) : s \in Range(q[m].samples)
                 \/ s \in Range(b)
      BY <1>1, <1>3, <1>4, <2>1
    <2> QED
      BY <1>2, <2>2, HeldIs
  <1> QED
    BY <1>8, <1>9 DEF r, batch

\* The model is trained on the first of the queue.
Taken(t, q, u, r) == q # <<>> /\ u = t \o Head(q).samples /\ r = Tail(q)

LEMMA HeldTrained ==
  ASSUME NEW o, NEW e \in Epochs, NEW t \in Seq(Samples),
         NEW q \in Seq(FullBatches), NEW b \in Seq(Samples), NEW r, NEW u,
         Taken(t, q, u, r), Sorted(o, t), Chunks(o, e, Range(t), q, b)
  PROVE  /\ Head(q).epoch = e /\ Sorted(o, u)
         /\ Chunks(o, e, Range(u), r, b)
  <1> DEFINE h == q[1].samples
  <1>1. /\ Head(q) = q[1] /\ r \in Seq(FullBatches)
        /\ Len(q) \in Nat \ {0} /\ Len(r) = Len(q) - 1
        /\ \A i \in 1..Len(r) : r[i] = q[i + 1]
    BY HeadTailProperties, EmptySeq DEF Taken
  <1>2. 1 \in 1..Len(q) /\ q[1] \in FullBatches /\ h \in Seq(Samples)
    <2>1. 1 \in 1..Len(q) /\ q[1] \in FullBatches
      BY <1>1
    <2> QED
      BY <2>1 DEF FullBatches
  <1>3. /\ q[1].epoch = e /\ Sorted(o, h) /\ After(o, Range(t), Range(h))
        /\ After(o, Range(h), Range(b))
        /\ \A n \in 1..Len(q) : 1 < n => After(o, Range(h), Range(q[n].samples))
    BY <1>2 DEF Chunks
  <1> HIDE DEF h
  <1>4. Sorted(o, u) /\ Range(u) = Range(t) \cup Range(h)
    <2>1. u = t \o h
      BY <1>1 DEF h, Taken
    <2>2. Sorted(o, t \o h) /\ Range(t \o h) = Range(t) \cup Range(h)
      BY <1>2, <1>3, SortedJoined, RangeJoined
    <2> QED
      BY <2>1, <2>2
  <1>5. \A m \in 1..Len(r) : m + 1 \in 1..Len(q) /\ r[m] = q[m + 1] /\ 1 < m + 1
    BY <1>1
  <1>6. ASSUME NEW m \in 1..Len(r)
        PROVE  /\ r[m].epoch = e
               /\ Sorted(o, r[m].samples)
               /\ After(o, Range(u), Range(r[m].samples))
               /\ After(o, Range(r[m].samples), Range(b))
               /\ \A n \in 1..Len(r) :
                     m < n => After(o, Range(r[m].samples), Range(r[n].samples))
    <2>1. m + 1 \in 1..Len(q) /\ r[m] = q[m + 1] /\ 1 < m + 1
      BY <1>5
    <2>2. /\ r[m].epoch = e
          /\ Sorted(o, r[m].samples)
          /\ After(o, Range(r[m].samples), Range(b))
          /\ After(o, Range(t), Range(r[m].samples))
          /\ After(o, Range(h), Range(r[m].samples))
      BY <1>3, <2>1 DEF Chunks
    <2>3. After(o, Range(u), Range(r[m].samples))
      BY <1>4, <2>2 DEF After
    <2>4. ASSUME NEW n \in 1..Len(r), m < n
          PROVE  After(o, Range(r[m].samples), Range(r[n].samples))
      <3>1. n + 1 \in 1..Len(q) /\ r[n] = q[n + 1] /\ m + 1 < n + 1
        BY <1>5, <2>4
      <3> QED
        BY <2>1, <3>1 DEF Chunks
    <2> QED
      BY <2>2, <2>3, <2>4
  <1>7. After(o, Range(u), Range(b))
    BY <1>3, <1>4 DEF Chunks, After
  <1>8. Chunks(o, e, Range(u), r, b)
    BY <1>6, <1>7 DEF Chunks
  <1> QED
    BY <1>1, <1>3, <1>4, <1>8

LEMMA HeldStays ==
  ASSUME NEW t \in Seq(Samples), NEW q \in Seq(FullBatches), NEW b,
         NEW r, NEW u, Taken(t, q, u, r)
  PROVE  \A s : s \in Range(u) \/ s \in Held(r, b)
               <=> s \in Range(t) \/ s \in Held(q, b)
  <1> DEFINE h == q[1].samples
  <1>1. /\ Head(q) = q[1] /\ r \in Seq(FullBatches)
        /\ Len(q) \in Nat \ {0} /\ Len(r) = Len(q) - 1
        /\ \A i \in 1..Len(r) : r[i] = q[i + 1]
    BY HeadTailProperties, EmptySeq DEF Taken
  <1>2. 1 \in 1..Len(q) /\ q[1] \in FullBatches /\ h \in Seq(Samples)
    <2>1. 1 \in 1..Len(q) /\ q[1] \in FullBatches
      BY <1>1
    <2> QED
      BY <2>1 DEF FullBatches
  <1> HIDE DEF h
  <1>4. Range(u) = Range(t) \cup Range(h)
    <2>1. u = t \o h
      BY <1>1 DEF h, Taken
    <2> QED
      BY <1>2, <2>1, RangeJoined
  <1>5. \A m \in 1..Len(r) : m + 1 \in 1..Len(q) /\ r[m] = q[m + 1]
    BY <1>1
  <1>9. ASSUME NEW s
        PROVE  s \in Range(u) \/ s \in Held(r, b)
                  <=> s \in Range(t) \/ s \in Held(q, b)
    <2>1. ASSUME NEW m \in 1..Len(q)
          PROVE  q[m].samples = h \/ \E n \in 1..Len(r) : r[n] = q[m]
      <3>1. CASE m = 1
        BY <3>1 DEF h
      <3>2. CASE m # 1
        <4>1. m - 1 \in 1..Len(r) /\ (m - 1) + 1 = m
          BY <1>1, <3>2
        <4> QED
          BY <1>5, <4>1
      <3> QED
        BY <3>1, <3>2
    <2>2. s \in Held(q, b) <=> \/ s \in Range(h)
                               \/ \E n \in 1..Len(r) : s \in Range(r[n].samples)
                               \/ s \in Range(b)
      <3>1. ASSUME NEW m \in 1..Len(q), s \in Range(q[m].samples)
            PROVE  s \in Range(h) \/ \E n \in 1..Len(r) : s \in Range(r[n].samples)
        BY <2>1, <3>1
      <3>2. ASSUME NEW n \in 1..Len(r), s \in Range(r[n].samples)
            PROVE  \E m \in 1..Len(q) : s \in Range(q[m].samples)
        BY <1>5, <3>2
      <3>3. s \in Range(h) => \E m \in 1..Len(q) : s \in Range(q[m].samples)
        BY <1>2 DEF h
      <3> QED
        BY <3>1, <3>2, <3>3, HeldIs
    <2> QED
      BY <1>4, <2>2, HeldIs
  <1> QED
    BY <1>9


-----------------------------------------------------------------------------
(* What fits a cursor, and the cursor moving on *)

\* Of an epoch that is not the cursor's only the cursor's epoch tells.
LEMMA FitsOthers ==
  ASSUME NEW o, NEW own, NEW most, NEW e, NEW c, NEW d, NEW flow,
         d.epoch = c.epoch, e # c.epoch, Fits(o, own, most, e, c, flow)
  PROVE  Fits(o, own, most, e, d, flow)
  <1>1. \A i \in 1..ShardCount, k \in 1..PerShard :
           Passed(c, e, i, k) <=> Passed(d, e, i, k)
    BY DEF Passed
  <1> QED
    BY <1>1 DEF Fits

\* The cursor moves to a sample of its shard that is delivered.
LEMMA FitsSample ==
  ASSUME NEW o \in Ways, NEW own \in SUBSET Samples, NEW most, NEW c \in Cursors,
         NEW flow, Fits(o, own, most, c.epoch, c, flow),
         c.shard < ShardCount, NEW k \in 1..PerShard, c.sample < k,
         o[c.shard + 1][k] \in own,
         \A l \in 1..PerShard :
            c.sample < l /\ l < k => o[c.shard + 1][l] \notin own
  PROVE  /\ Fits(o, own, most, c.epoch, [c EXCEPT !.sample = k],
                 flow \cup {o[c.shard + 1][k]})
         /\ After(o, flow, {o[c.shard + 1][k]})
  <1> USE LoaderAssumption
  <1> DEFINE d == [c EXCEPT !.sample = k]
             t == o[c.shard + 1][k]
             more == flow \cup {t}
             e == c.epoch
  <1>1. /\ c.shard \in Nat /\ c.sample \in Nat /\ c.epoch \in Nat
        /\ c.shard + 1 \in 1..ShardCount
        /\ d.epoch = e /\ d.shard = c.shard /\ d.sample = k
    BY DEF Cursors
  <1> HIDE DEF d
  <1>2. \A i \in 1..ShardCount, l \in 1..PerShard :
           Passed(d, e, i, l) <=>
              \/ Passed(c, e, i, l)
              \/ i = c.shard + 1 /\ c.sample < l /\ l <= k
    BY <1>1 DEF Passed
  <1>3. more \subseteq own
    BY DEF Fits
  <1>4. ASSUME NEW i \in 1..ShardCount, NEW l \in 1..PerShard, o[i][l] \in more
        PROVE  Passed(d, e, i, l)
    <2>1. CASE o[i][l] \in flow
      BY <1>2, <2>1 DEF Fits
    <2>2. CASE o[i][l] = t
      <3>1. i = c.shard + 1 /\ l = k
        BY <1>1, <2>2, OnePlace
      <3> QED
        BY <1>1, <1>2, <3>1
    <2> QED
      BY <1>4, <2>1, <2>2
  <1>5. ASSUME NEW i \in 1..ShardCount, NEW l \in 1..PerShard,
               Passed(d, e, i, l), o[i][l] \in own
        PROVE  o[i][l] \in more
    <2>1. CASE Passed(c, e, i, l)
      BY <1>5, <2>1 DEF Fits
    <2>2. CASE i = c.shard + 1 /\ c.sample < l /\ l <= k
      <3>1. o[c.shard + 1][l] \in own
        BY <1>5, <2>2
      <3>2. ~(c.sample < l /\ l < k)
        BY <3>1
      <3>3. l = k
        BY <2>2, <3>2
      <3> QED
        BY <2>2, <3>3
    <2> QED
      BY <1>2, <1>5, <2>1, <2>2
  <1>6. Fits(o, own, most, e, d, more)
    BY <1>1, <1>3, <1>4, <1>5 DEF Fits
  <1>7. After(o, flow, {t})
    <2> SUFFICES ASSUME NEW s \in flow PROVE Less(o, s, t)
      BY DEF After
    <2>1. s \in Samples
      BY DEF Fits
    <2>2. PICK i \in 1..ShardCount, l \in 1..PerShard : s = o[i][l]
      BY <2>1 DEF Ways
    <2>3. Passed(c, e, i, l)
      BY <2>2 DEF Fits
    <2>4. i < c.shard + 1 \/ (i = c.shard + 1 /\ l < k)
      BY <1>1, <2>3 DEF Passed
    <2> QED
      BY <1>1, <2>2, <2>4 DEF Less
  <1> QED
    BY <1>6, <1>7 DEF d

\* The cursor moves past a shard, of which nothing is left.
LEMMA FitsShard ==
  ASSUME NEW o, NEW own, NEW most, NEW c \in Cursors, NEW flow,
         Fits(o, own, most, c.epoch, c, flow), c.shard < ShardCount,
         \A l \in 1..PerShard : c.sample < l => o[c.shard + 1][l] \notin own
  PROVE  Fits(o, own, most, c.epoch,
              [c EXCEPT !.shard = c.shard + 1, !.sample = 0], flow)
  <1> USE LoaderAssumption
  <1> DEFINE d == [c EXCEPT !.shard = c.shard + 1, !.sample = 0]
             e == c.epoch
  <1>1. /\ c.shard \in Nat /\ c.sample \in Nat /\ c.epoch \in Nat
        /\ c.shard + 1 \in 1..ShardCount
        /\ d.epoch = e /\ d.shard = c.shard + 1 /\ d.sample = 0
    BY DEF Cursors
  <1> HIDE DEF d
  <1>2. \A i \in 1..ShardCount, l \in 1..PerShard :
           Passed(d, e, i, l) <=>
              \/ Passed(c, e, i, l)
              \/ i = c.shard + 1 /\ c.sample < l
    BY <1>1 DEF Passed
  <1> QED
    BY <1>1, <1>2 DEF Fits, d

\* A set within the range of a sequence is no larger than the sequence.
LEMMA FewLeft ==
  ASSUME NEW b \in Seq(Samples), NEW left \in SUBSET Range(b)
  PROVE  IsFiniteSet(left) /\ Cardinality(left) <= Len(b)
  <1>1. Len(b) \in Nat /\ DOMAIN b = 1..Len(b)
    OBVIOUS
  <1>2. IsFiniteSet(1..Len(b)) /\ Cardinality(1..Len(b)) = Len(b)
    BY <1>1, FS_Interval
  <1>3. \E f : f \in Surjection(1..Len(b), Range(b))
    <2>1. b \in [1..Len(b) -> Range(b)]
      BY <1>1, RangeOf DEF Range
    <2>2. \A x \in Range(b) : \E i \in 1..Len(b) : b[i] = x
      BY RangeOf
    <2>3. b \in Surjection(1..Len(b), Range(b))
      BY <2>1, <2>2 DEF Surjection
    <2> QED
      BY <2>3
  <1>4. IsFiniteSet(Range(b)) /\ Cardinality(Range(b)) <= Len(b)
    BY <1>2, <1>3, FS_Surjection
  <1>5. IsFiniteSet(left) /\ Cardinality(left) <= Cardinality(Range(b))
    BY <1>4, FS_Subset
  <1>6. Cardinality(left) \in Nat /\ Cardinality(Range(b)) \in Nat
    BY <1>4, <1>5, FS_CardinalityType
  <1> QED
    BY <1>1, <1>4, <1>5, <1>6

\* The epoch is over; at most the last few are left out of it.
LEMMA FitsEnd ==
  ASSUME NEW o \in Ways, NEW own \in SUBSET Samples, NEW most, NEW c \in Cursors,
         NEW flow, Fits(o, own, most, c.epoch, c, flow), c.shard = ShardCount,
         NEW kept \in SUBSET flow, Cardinality(flow \ kept) <= most,
         After(o, kept, flow \ kept), NEW d, d.epoch = c.epoch + 1
  PROVE  Fits(o, own, most, c.epoch, d, kept)
  <1> USE LoaderAssumption
  <1>1. c.epoch \in Nat /\ c.epoch < d.epoch
    BY DEF Cursors
  <1>2. flow = own
    <2> SUFFICES ASSUME NEW s \in own PROVE s \in flow
      BY DEF Fits
    <2>1. PICK i \in 1..ShardCount, k \in 1..PerShard : s = o[i][k]
      BY DEF Ways
    <2>2. Passed(c, c.epoch, i, k)
      BY DEF Passed
    <2> QED
      BY <2>1, <2>2 DEF Fits
  <1>3. \A i \in 1..ShardCount, k \in 1..PerShard : Passed(d, c.epoch, i, k)
    BY <1>1 DEF Passed
  <1> QED
    BY <1>1, <1>2, <1>3 DEF Fits

\* The next epoch begins with its first shard.
LEMMA FitsNext ==
  ASSUME NEW o \in Ways, NEW own \in SUBSET Samples, NEW most, NEW c \in Cursors,
         NEW e \in Nat, e # c.epoch, NEW flow, Fits(o, own, most, e, c, flow),
         NEW d, d = [epoch |-> c.epoch + 1, shard |-> 0, sample |-> 0]
  PROVE  Fits(o, own, most, e, d, flow)
  <1> USE LoaderAssumption
  <1>1. /\ c.epoch \in Nat
        /\ d.epoch = c.epoch + 1 /\ d.shard = 0 /\ d.sample = 0
    BY DEF Cursors
  <1>2. CASE e < c.epoch
    <2>1. e < d.epoch /\ e # d.epoch
      BY <1>1, <1>2
    <2>2. \A i \in 1..ShardCount, k \in 1..PerShard : Passed(d, e, i, k)
      BY <2>1 DEF Passed
    <2> QED
      BY <1>2, <2>1, <2>2 DEF Fits
  <1>3. CASE c.epoch < e
    <2>1. ~(e < d.epoch)
      BY <1>1, <1>3
    <2>2. \A i \in 1..ShardCount, k \in 1..PerShard :
             ~Passed(c, e, i, k) /\ ~Passed(d, e, i, k)
      BY <1>1, <1>3, <2>1 DEF Passed
    <2> QED
      BY <2>1, <2>2 DEF Fits
  <1> QED
    BY <1>1, <1>2, <1>3


-----------------------------------------------------------------------------
(* The flow, action by action *)

LEMMA FlowAgain ==
  ASSUME UNCHANGED configVars,
         \A e \in Epochs :
            /\ Fits(Way[e], owned, Most, e, cursor',
                    Range(trained'[e]) \cup
                       (IF e = gen'.epoch THEN Held(queue', buffer') ELSE {}))
            /\ Sorted(Way[e], trained'[e]),
         Chunks(Way[gen'.epoch], gen'.epoch, Range(trained'[gen'.epoch]),
                queue', buffer')
  PROVE  FlowOK'
  <1>1. Way' = Way /\ Most' = Most /\ owned' = owned
    BY SameWay DEF configVars
  <1> QED
    BY <1>1 DEF FlowOK, InFlow

LEMMA FlowIs ==
  ASSUME LoaderTypes, FlowOK, NEW e \in Epochs
  PROVE  /\ Way[e] \in Ways /\ owned \in SUBSET Samples
         /\ Fits(Way[e], owned, Most, e, cursor,
                 Range(trained[e]) \cup
                    (IF e = gen.epoch THEN Held(queue, buffer) ELSE {}))
         /\ Sorted(Way[e], trained[e])
         /\ trained[e] \in Seq(Samples)
  <1>1. Way[e] \in Ways /\ owned \in SUBSET Samples
    BY WaysCover DEF LoaderTypes, ConfigOK
  <1> QED
    BY <1>1 DEF FlowOK, InFlow, LoaderTypes

\* Nothing moves.
LEMMA FlowRests ==
  ASSUME FlowOK, UNCHANGED <<configVars, cursor, queue, buffer, trained>>,
         gen'.epoch = gen.epoch
  PROVE  FlowOK'
  <1> SUFFICES ASSUME TRUE
      PROVE  /\ \A e \in Epochs :
                   /\ Fits(Way[e], owned, Most, e, cursor,
                           Range(trained[e]) \cup
                              (IF e = gen.epoch THEN Held(queue, buffer) ELSE {}))
                   /\ Sorted(Way[e], trained[e])
             /\ Chunks(Way[gen.epoch], gen.epoch, Range(trained[gen.epoch]),
                       queue, buffer)
    BY FlowAgain
  <1> QED
    BY DEF FlowOK, InFlow

LEMMA FlowOpens ==
  ASSUME LoaderTypes, WaitsOK, FlowOK, Opens
  PROVE  FlowOK'
  <1>1. /\ queue = <<>> /\ buffer = <<>>
        /\ UNCHANGED <<configVars, cursor, queue, buffer, trained>>
    BY DEF Opens, WaitsOK
  <1>2. Held(queue, buffer) = {}
    BY <1>1, NoneHeld
  <1>3. ASSUME NEW e \in Epochs
        PROVE  /\ Fits(Way[e], owned, Most, e, cursor',
                       Range(trained'[e]) \cup
                          (IF e = gen'.epoch THEN Held(queue', buffer') ELSE {}))
               /\ Sorted(Way[e], trained'[e])
    <2>1. (IF e = gen.epoch THEN Held(queue, buffer) ELSE {}) = {}
      BY <1>2
    <2>2. (IF e = gen'.epoch THEN Held(queue', buffer') ELSE {}) = {}
      BY <1>1, <1>2
    <2>3. /\ Fits(Way[e], owned, Most, e, cursor, Range(trained[e]) \cup {})
          /\ Sorted(Way[e], trained[e])
      BY <2>1, FlowIs
    <2> QED
      BY <1>1, <2>2, <2>3
  <1>4. Chunks(Way[gen'.epoch], gen'.epoch, Range(trained'[gen'.epoch]), queue',
               buffer')
    <2>1. queue' = <<>> /\ buffer' = <<>>
      BY <1>1
    <2> QED
      BY <2>1, NoneHeld
  <1> QED
    BY <1>1, <1>3, <1>4, FlowAgain

\* The sample read is the next of its epoch, or none that is owned.
LEMMA FlowReads ==
  ASSUME LoaderTypes, GeneratorOK, FlowOK, Reads
  PROVE  FlowOK'
  <1> USE LoaderAssumption
  <1> DEFINE k == gen.seen + 1
             sample == Sample(gen.epoch, gen.shard + 1, k)
             E == gen.epoch
             o == Way[E]
             fed == Range(trained[E])
  <1>1. /\ cursor \in Cursors /\ gen \in Generators /\ E \in Epochs
        /\ queue \in Seq(FullBatches) /\ buffer \in Seq(Samples)
    BY DEF LoaderTypes, Generators
  <1>2. /\ gen.at = "reading" /\ E = cursor.epoch
        /\ UNCHANGED <<configVars, queue, trained>> /\ gen'.epoch = E
    BY <1>1 DEF Reads, GenRuns, GeneratorOK, Generators
  <1>3. CASE UNCHANGED <<cursor, buffer>>
    BY <1>2, <1>3, FlowRests
  <1>4. CASE ~(SkipsUpTo(k) \/ sample \notin owned)
    <2>1. /\ gen.seen \in 0..PerShard /\ gen.seen < PerShard
          /\ gen.shard \in cursor.shard..(ShardCount - 1)
          /\ cursor.shard \in Nat /\ cursor.sample \in Nat
          /\ gen.shard \in Nat
      BY <1>1 DEF Reads, Generators, Cursors
    <2>2. gen.shard <= cursor.shard
      BY <1>2 DEF GeneratorOK
    <2>3. /\ gen.shard = cursor.shard /\ cursor.shard < ShardCount
          /\ k \in 1..PerShard /\ gen.shard + 1 \in 1..ShardCount
      BY <2>1, <2>2
    <2>4. cursor.sample < k
      <3>1. cursor.sample <= gen.seen \/ gen.skips
        BY <1>2, <2>3 DEF GeneratorOK
      <3>2. CASE gen.skips
        BY <1>4, <2>1, <3>2 DEF SkipsUpTo
      <3>3. CASE cursor.sample <= gen.seen
        BY <2>1, <3>3
      <3> QED
        BY <3>1, <3>2, <3>3
    <2>5. sample = o[cursor.shard + 1][k]
      BY <1>1, <2>3 DEF Way
    <2>6. sample \in owned /\ sample \in Samples
      BY <1>4 DEF LoaderTypes, ConfigOK
    <2>7. \A l \in 1..PerShard :
             cursor.sample < l /\ l < k => o[cursor.shard + 1][l] \notin owned
      <3>1. \A l \in 1..PerShard : l < k => l <= gen.seen
        BY <2>1
      <3> QED
        BY <1>2, <2>3, <3>1 DEF GeneratorOK
    <2>8. cursor' = [cursor EXCEPT !.sample = k] /\ buffer' = Append(buffer, sample)
      BY <1>4 DEF Reads, CursorAt
    <2> HIDE DEF k, sample
    <2>9. Fits(o, owned, Most, E, cursor, fed \cup Held(queue, buffer))
      BY <1>1, FlowIs
    <2>10. o \in Ways /\ owned \in SUBSET Samples
      BY <1>1, FlowIs
    <2> HIDE DEF E, o, fed
    <2>11. /\ Fits(o, owned, Most, E, cursor',
                   (fed \cup Held(queue, buffer)) \cup {sample})
           /\ After(o, fed \cup Held(queue, buffer), {sample})
      <3> DEFINE flow == fed \cup Held(queue, buffer)
                 t == o[cursor.shard + 1][k]
      <3>1. Fits(o, owned, Most, cursor.epoch, cursor, flow)
        BY <1>2, <2>9
      <3>2. t \in owned
        BY <2>5, <2>6
      <3> HIDE DEF flow
      <3>3. /\ Fits(o, owned, Most, cursor.epoch, [cursor EXCEPT !.sample = k],
                    flow \cup {t})
            /\ After(o, flow, {t})
        BY <1>1, <2>3, <2>4, <2>7, <2>10, <3>1, <3>2, FitsSample
      <3> QED
        BY <1>2, <2>5, <2>8, <3>3 DEF flow
    <2>12. Chunks(o, E, fed, queue, buffer)
      BY DEF FlowOK, E, o, fed
    <2>13. /\ Chunks(o, E, fed, queue, buffer')
           /\ Held(queue, buffer') = Held(queue, buffer) \cup {sample}
      <3>1. queue \in Seq(FullBatches) /\ buffer \in Seq(Samples)
        BY <1>1
      <3>2. sample \in Samples /\ buffer' = Append(buffer, sample)
        BY <2>6, <2>8
      <3>3. After(o, fed, {sample}) /\ After(o, Held(queue, buffer), {sample})
        BY <2>11 DEF After
      <3>4. Chunks(o, E, fed, queue, buffer')
        BY <2>12, <3>1, <3>2, <3>3, ChunksGrow
      <3>5. \A x : x \in Held(queue, buffer')
                      <=> x \in Held(queue, buffer) \/ x = sample
        BY <3>1, <3>2, HeldGrows
      <3> QED
        BY <3>4, <3>5
    <2>14. ASSUME NEW e \in Epochs
           PROVE  /\ Fits(Way[e], owned, Most, e, cursor',
                          Range(trained'[e]) \cup
                             (IF e = gen'.epoch THEN Held(queue', buffer')
                                                ELSE {}))
                  /\ Sorted(Way[e], trained'[e])
      <3>1. CASE e = E
        <4>1. Range(trained'[e]) \cup
                 (IF e = gen'.epoch THEN Held(queue', buffer') ELSE {})
                = (fed \cup Held(queue, buffer)) \cup {sample}
          BY <1>2, <2>13, <3>1 DEF fed
        <4> QED
          BY <1>2, <2>11, <3>1, <4>1, FlowIs DEF o
      <3>2. CASE e # E
        <4>1. /\ Fits(Way[e], owned, Most, e, cursor, Range(trained[e]) \cup {})
              /\ Sorted(Way[e], trained[e])
          BY <3>2, FlowIs DEF E
        <4>2. cursor'.epoch = cursor.epoch
          BY <1>1, <2>8 DEF Cursors
        <4>3. Fits(Way[e], owned, Most, e, cursor', Range(trained[e]) \cup {})
          BY <1>2, <3>2, <4>1, <4>2, FitsOthers
        <4> QED
          BY <1>2, <3>2, <4>1, <4>3
      <3> QED
        BY <3>1, <3>2
    <2>15. Chunks(Way[gen'.epoch], gen'.epoch, Range(trained'[gen'.epoch]),
                  queue', buffer')
      BY <1>2, <2>13 DEF o, fed
    <2> QED
      BY <1>2, <2>14, <2>15, FlowAgain
  <1> QED
    BY <1>3, <1>4 DEF Reads

\* Of a shard that is over nothing is left to deliver.
LEMMA FlowEndsShard ==
  ASSUME LoaderTypes, GeneratorOK, FlowOK, EndsShard
  PROVE  FlowOK'
  <1> USE LoaderAssumption
  <1> DEFINE E == gen.epoch
             o == Way[E]
             flow == Range(trained[E]) \cup Held(queue, buffer)
  <1>1. /\ cursor \in Cursors /\ gen \in Generators /\ E \in Epochs
        /\ cursor.shard \in Nat /\ gen.shard \in Nat
    BY DEF LoaderTypes, Generators, Cursors
  <1>2. /\ gen.at = "reading" /\ E = cursor.epoch
        /\ gen.shard \in cursor.shard..(ShardCount - 1) /\ gen.seen = PerShard
        /\ gen.shard <= cursor.shard
        /\ cursor' = [cursor EXCEPT !.shard = gen.shard + 1, !.sample = 0]
        /\ MovesOn(gen.shard + 1, cursor')
        /\ UNCHANGED <<configVars, queue, buffer, trained>>
    BY DEF EndsShard, GenRuns, GeneratorOK
  <1>3. gen.shard = cursor.shard /\ cursor.shard < ShardCount
    BY <1>1, <1>2
  <1>4. gen'.epoch = E
    <2>1. gen.shard + 1 \in 0..ShardCount
      BY <1>1, <1>3
    <2> QED
      BY <1>1, <1>2, <2>1, GeneratorMoved
  <1>5. \A l \in 1..PerShard : cursor.sample < l => o[cursor.shard + 1][l] \notin owned
    <2>1. \A l \in 1..PerShard : l <= gen.seen
      BY <1>2
    <2> QED
      BY <1>2, <1>3, <2>1 DEF GeneratorOK
  <1>6. Fits(o, owned, Most, cursor.epoch, cursor, flow)
    BY <1>1, <1>2, FlowIs
  <1>7. cursor' = [cursor EXCEPT !.shard = cursor.shard + 1, !.sample = 0]
    BY <1>2, <1>3
  <1>8. cursor'.epoch = cursor.epoch
    BY <1>1, <1>7 DEF Cursors
  <1> HIDE DEF o, flow
  <1>9. Fits(o, owned, Most, cursor.epoch, cursor', flow)
    BY <1>1, <1>3, <1>5, <1>6, <1>7, FitsShard
  <1> HIDE DEF E
  <1>10. ASSUME NEW e \in Epochs
         PROVE  /\ Fits(Way[e], owned, Most, e, cursor',
                        Range(trained'[e]) \cup
                           (IF e = gen'.epoch THEN Held(queue', buffer')
                                              ELSE {}))
                /\ Sorted(Way[e], trained'[e])
    <2>1. CASE e = E
      BY <1>2, <1>4, <1>9, <2>1, FlowIs DEF o, flow
    <2>2. CASE e # E
      <3>1. /\ Fits(Way[e], owned, Most, e, cursor, Range(trained[e]) \cup {})
            /\ Sorted(Way[e], trained[e])
        BY <2>2, FlowIs DEF E
      <3>2. Fits(Way[e], owned, Most, e, cursor', Range(trained[e]) \cup {})
        BY <1>2, <1>8, <2>2, <3>1, FitsOthers
      <3> QED
        BY <1>2, <1>4, <2>2, <3>1, <3>2
    <2> QED
      BY <2>1, <2>2
  <1>11. Chunks(Way[gen'.epoch], gen'.epoch, Range(trained'[gen'.epoch]),
                queue', buffer')
    BY <1>2, <1>4 DEF E, FlowOK
  <1> QED
    BY <1>2, <1>10, <1>11, FlowAgain

LEMMA ChunksDrop ==
  ASSUME NEW o, NEW e, NEW fed, NEW q, NEW b, Chunks(o, e, fed, q, b)
  PROVE  Chunks(o, e, fed, q, <<>>)
  <1>1. Range(<<>>) = {} /\ Sorted(o, <<>>)
    BY DEF Range, Sorted
  <1>2. \A S : After(o, S, Range(<<>>))
    BY <1>1 DEF After
  <1> QED
    BY <1>1, <1>2 DEF Chunks

\* What an epoch leaves out is less than a batch, and the last of it.
LEMMA FlowEndsEpoch ==
  ASSUME LoaderTypes, GeneratorOK, FlowOK, EndsEpoch
  PROVE  FlowOK'
  <1> USE LoaderAssumption
  <1> DEFINE E == gen.epoch
             o == Way[E]
             fed == Range(trained[E])
             flow == fed \cup Held(queue, buffer)
             kept == fed \cup Held(queue, buffer')
  <1>1. /\ cursor \in Cursors /\ gen \in Generators /\ E \in Epochs
        /\ cursor.shard \in 0..ShardCount /\ dropLast \in BOOLEAN
        /\ buffer \in Seq(Samples) /\ Len(buffer) \in Nat
    BY DEF LoaderTypes, Generators, Cursors, ConfigOK
  <1>2. /\ gen.at = "reading" /\ E = cursor.epoch
        /\ gen.shard = ShardCount /\ gen.shard <= cursor.shard
        /\ Len(buffer) < BatchSize
        /\ buffer' = IF dropLast THEN <<>> ELSE buffer
        /\ UNCHANGED <<configVars, queue, trained>>
    BY DEF EndsEpoch, GenRuns, GeneratorOK
  <1>3. /\ cursor' = [epoch |-> cursor.epoch + 1, shard |-> 0, sample |-> 0]
        /\ cursor'.epoch = cursor.epoch + 1
    BY <1>2 DEF EndsEpoch
  <1>4. gen'.epoch = E
    BY <1>1 DEF EndsEpoch, Generators
  <1>5. cursor.shard = ShardCount
    BY <1>1, <1>2
  <1>6. /\ Chunks(o, E, fed, queue, buffer) /\ Chunks(o, E, fed, queue, buffer')
    BY <1>2, ChunksDrop DEF FlowOK
  <1>7. /\ o \in Ways /\ owned \in SUBSET Samples
        /\ Fits(o, owned, Most, cursor.epoch, cursor, flow)
    BY <1>1, <1>2, FlowIs
  <1> HIDE DEF E, o, fed
  <1>8. kept \subseteq flow
    BY <1>2 DEF Held, Range
  <1>9. flow \ kept \subseteq IF dropLast THEN Range(buffer) ELSE {}
    BY <1>2 DEF Held
  <1>10. Cardinality(flow \ kept) <= Most
    <2>1. CASE dropLast
      <3>1. Cardinality(flow \ kept) <= Len(buffer)
        BY <1>1, <1>9, <2>1, FewLeft
      <3>2. IsFiniteSet(flow \ kept)
        BY <1>1, <1>9, <2>1, FewLeft
      <3>3. Cardinality(flow \ kept) \in Nat
        BY <3>2, FS_CardinalityType
      <3>4. Most = BatchSize - 1
        BY <2>1 DEF Most
      <3> HIDE DEF flow, kept
      <3> QED
        BY <1>1, <1>2, <3>1, <3>3, <3>4
    <2>2. CASE ~dropLast
      <3>1. flow \ kept = {} /\ Most = 0
        BY <1>9, <2>2 DEF Most
      <3> QED
        BY <3>1, FS_EmptySet
    <2> QED
      BY <2>1, <2>2
  <1>11. After(o, kept, flow \ kept)
    <2> SUFFICES ASSUME NEW x \in kept, NEW y \in flow \ kept
                 PROVE  Less(o, x, y)
      BY DEF After
    <2>1. dropLast /\ y \in Range(buffer)
      BY <1>1, <1>9
    <2>2. x \in fed \/ \E m \in 1..Len(queue) : x \in Range(queue[m].samples)
      <3>1. Range(buffer') = {}
        BY <1>2, <2>1 DEF Range
      <3> QED
        BY <1>2, <3>1, HeldIs
    <2> QED
      BY <1>6, <2>1, <2>2 DEF Chunks, After
  <1> HIDE DEF flow, kept
  <1>12. Fits(o, owned, Most, cursor.epoch, cursor', kept)
    BY <1>1, <1>3, <1>5, <1>7, <1>8, <1>10, <1>11, FitsEnd
  <1>13. ASSUME NEW e \in Epochs
         PROVE  /\ Fits(Way[e], owned, Most, e, cursor',
                        Range(trained'[e]) \cup
                           (IF e = gen'.epoch THEN Held(queue', buffer')
                                              ELSE {}))
                /\ Sorted(Way[e], trained'[e])
    <2>1. CASE e = E
      BY <1>2, <1>4, <1>12, <2>1, FlowIs DEF o, fed, kept
    <2>2. CASE e # E
      <3>1. /\ Fits(Way[e], owned, Most, e, cursor, Range(trained[e]) \cup {})
            /\ Sorted(Way[e], trained[e]) /\ Way[e] \in Ways
        BY <2>2, FlowIs DEF E
      <3>2. e \in Nat /\ e # cursor.epoch
        BY <1>2, <2>2 DEF Epochs
      <3>3. Fits(Way[e], owned, Most, e, cursor', Range(trained[e]) \cup {})
        BY <1>1, <1>3, <1>7, <3>1, <3>2, FitsNext
      <3> QED
        BY <1>2, <1>4, <2>2, <3>1, <3>3
    <2> QED
      BY <2>1, <2>2
  <1>14. Chunks(Way[gen'.epoch], gen'.epoch, Range(trained'[gen'.epoch]),
                queue', buffer')
    BY <1>2, <1>4, <1>6 DEF o, fed
  <1> QED
    BY <1>2, <1>13, <1>14, FlowAgain

\* The batch goes on, the flow stays.
LEMMA FlowPuts ==
  ASSUME LoaderTypes, FlowOK, Puts
  PROVE  FlowOK'
  <1> DEFINE E == gen.epoch
             o == Way[E]
             fed == Range(trained[E])
  <1>1. /\ gen \in Generators /\ E \in Epochs
        /\ queue \in Seq(FullBatches) /\ buffer \in Seq(Samples)
    BY DEF LoaderTypes, Generators
  <1>2. /\ queue' = Append(queue, [epoch |-> E, samples |-> buffer])
        /\ buffer' = <<>>
        /\ UNCHANGED <<configVars, cursor, trained>>
    BY DEF Puts
  <1>3. gen'.epoch = E
    BY <1>1 DEF Puts, Generators
  <1>4. Chunks(o, E, fed, queue, buffer)
    BY DEF FlowOK
  <1> HIDE DEF E, o, fed
  <1>5. /\ Chunks(o, E, fed, queue', buffer')
        /\ Held(queue', buffer') = Held(queue, buffer)
    BY <1>1, <1>2, <1>4, HeldPasses
  <1>6. ASSUME NEW e \in Epochs
        PROVE  /\ Fits(Way[e], owned, Most, e, cursor',
                       Range(trained'[e]) \cup
                          (IF e = gen'.epoch THEN Held(queue', buffer') ELSE {}))
               /\ Sorted(Way[e], trained'[e])
    BY <1>2, <1>3, <1>5, FlowIs DEF E
  <1>7. Chunks(Way[gen'.epoch], gen'.epoch, Range(trained'[gen'.epoch]), queue',
               buffer')
    BY <1>2, <1>3, <1>5 DEF o, fed
  <1> QED
    BY <1>2, <1>6, <1>7, FlowAgain

LEMMA FlowTrains ==
  ASSUME LoaderTypes, FlowOK, Trains
  PROVE  FlowOK'
  <1> DEFINE E == gen.epoch
             o == Way[E]
             t == trained[E]
             u == t \o Head(queue).samples
  <1>1. /\ gen \in Generators /\ E \in Epochs /\ queue # <<>>
        /\ queue \in Seq(FullBatches) /\ buffer \in Seq(Samples)
        /\ trained \in [Epochs -> Seq(Samples)] /\ t \in Seq(Samples)
    BY DEF LoaderTypes, Generators, Trains
  <1>2. /\ queue' = Tail(queue) /\ buffer' = buffer /\ gen' = gen
        /\ trained' = [trained EXCEPT ![Head(queue).epoch] =
                          @ \o Head(queue).samples]
        /\ UNCHANGED <<configVars, cursor>>
    BY DEF Trains
  <1>3. Chunks(o, E, Range(t), queue, buffer) /\ Sorted(o, t)
    BY <1>1 DEF FlowOK
  <1> HIDE DEF E, o, t
  <1>0. Taken(t, queue, u, queue')
    BY <1>1, <1>2 DEF Taken
  <1> HIDE DEF u
  <1>4. /\ Head(queue).epoch = E /\ Sorted(o, u)
        /\ Chunks(o, E, Range(u), queue', buffer)
    BY <1>0, <1>1, <1>2, <1>3, HeldTrained
  <1>5. Range(u) \cup Held(queue', buffer) = Range(t) \cup Held(queue, buffer)
    <2>1. \A s : s \in Range(u) \/ s \in Held(queue', buffer)
                 <=> s \in Range(t) \/ s \in Held(queue, buffer)
      BY <1>0, <1>1, <1>2, HeldStays
    <2> QED
      BY <2>1
  <1>6. trained'[E] = u /\ \A e \in Epochs : e # E => trained'[e] = trained[e]
    BY <1>1, <1>2, <1>4 DEF t, u
  <1>7. ASSUME NEW e \in Epochs
        PROVE  /\ Fits(Way[e], owned, Most, e, cursor',
                       Range(trained'[e]) \cup
                          (IF e = gen'.epoch THEN Held(queue', buffer') ELSE {}))
               /\ Sorted(Way[e], trained'[e])
    <2>1. CASE e = E
      <3>1. Fits(o, owned, Most, E, cursor, Range(t) \cup Held(queue, buffer))
        BY <1>1, FlowIs DEF E, o, t
      <3>2. Range(trained'[e]) \cup
               (IF e = gen'.epoch THEN Held(queue', buffer') ELSE {})
              = Range(t) \cup Held(queue, buffer)
        BY <1>2, <1>5, <1>6, <2>1 DEF E
      <3> QED
        BY <1>2, <1>4, <1>6, <2>1, <3>1, <3>2 DEF o
    <2>2. CASE e # E
      <3>1. /\ Fits(Way[e], owned, Most, e, cursor, Range(trained[e]) \cup {})
            /\ Sorted(Way[e], trained[e])
        BY <2>2, FlowIs DEF E
      <3> QED
        BY <1>2, <1>6, <2>2, <3>1 DEF E
    <2> QED
      BY <2>1, <2>2
  <1>8. Chunks(Way[gen'.epoch], gen'.epoch, Range(trained'[gen'.epoch]), queue',
               buffer')
    BY <1>2, <1>4, <1>6 DEF o, E
  <1> QED
    BY <1>2, <1>7, <1>8, FlowAgain

LEMMA FlowStays ==
  ASSUME LoaderTypes, GeneratorOK, WaitsOK, FlowOK, [LoaderNext]_loaderVars,
         ~Crashes
  PROVE  FlowOK'
  <1>1. CASE Opens
    BY <1>1, FlowOpens
  <1>2. CASE SkipsShard
    <2>1. /\ gen \in Generators /\ gen.shard + 1 \in 0..ShardCount
          /\ MovesOn(gen.shard + 1, cursor)
      BY <1>2, LoaderAssumption DEF SkipsShard, LoaderTypes, Generators, Cursors
    <2>2. gen'.epoch = gen.epoch
      BY <2>1, GeneratorMoved
    <2> QED
      BY <1>2, <2>2, FlowRests DEF SkipsShard
  <1>3. CASE Reads
    BY <1>3, FlowReads
  <1>4. CASE EndsShard
    BY <1>4, FlowEndsShard
  <1>5. CASE EndsEpoch
    BY <1>5, FlowEndsEpoch
  <1>6. CASE Puts
    BY <1>6, FlowPuts
  <1>7. CASE Trains
    BY <1>7, FlowTrains
  <1>8. CASE Asks \/ Saves \/ UNCHANGED loaderVars
    BY <1>8, FlowRests DEF Asks, Saves, loaderVars
  <1> QED
    BY <1>1, <1>2, <1>3, <1>4, <1>5, <1>6, <1>7, <1>8 DEF LoaderNext

-----------------------------------------------------------------------------
(* Checkpoints, and the theorems *)

LEMMA SavedStays ==
  ASSUME SavedOK, UNCHANGED <<configVars, saved>>
  PROVE  SavedOK'
  <1>1. Way' = Way /\ Most' = Most /\ owned' = owned
    BY SameWay DEF configVars
  <1> QED
    BY <1>1 DEF SavedOK

\* Without prefetch nothing is on its way when the trainer saves.
LEMMA SavesFlow ==
  ASSUME LoaderTypes, WaitsOK, FlowOK, depth = 0, Saves
  PROVE  SavedOK'
  <1>1. Way' = Way /\ Most' = Most /\ owned' = owned
    BY SameWay DEF Saves, configVars
  <1>2. Held(queue, buffer) = {}
    BY NoneHeld DEF Saves, WaitsOK
  <1>3. saved'.cursor = cursor /\ saved'.trained = trained
    BY DEF Saves
  <1>4. ASSUME NEW e \in Epochs
        PROVE  /\ Fits(Way[e], owned, Most, e, cursor, Range(trained[e]))
               /\ Sorted(Way[e], trained[e])
    <2>1. Range(trained[e]) \cup
             (IF e = gen.epoch THEN Held(queue, buffer) ELSE {})
            = Range(trained[e])
      BY <1>2
    <2> QED
      BY <2>1, FlowIs
  <1> QED
    BY <1>1, <1>3, <1>4 DEF SavedOK

LEMMA CrashesFlow ==
  ASSUME LoaderTypes, SavedOK, Crashes
  PROVE  FlowOK'
  <1>1. /\ cursor' = saved.cursor /\ trained' = saved.trained
        /\ gen' = NoGen /\ buffer' = <<>> /\ queue' = <<>>
        /\ UNCHANGED configVars
    BY DEF Crashes
  <1>2. Held(queue', buffer') = {}
    BY <1>1, NoneHeld
  <1>3. ASSUME NEW e \in Epochs
        PROVE  /\ Fits(Way[e], owned, Most, e, cursor',
                       Range(trained'[e]) \cup
                          (IF e = gen'.epoch THEN Held(queue', buffer') ELSE {}))
               /\ Sorted(Way[e], trained'[e])
    <2>1. Range(trained'[e]) \cup
             (IF e = gen'.epoch THEN Held(queue', buffer') ELSE {})
            = Range(saved.trained[e])
      BY <1>1, <1>2
    <2> QED
      BY <1>1, <2>1 DEF SavedOK
  <1>4. Chunks(Way[gen'.epoch], gen'.epoch, Range(trained'[gen'.epoch]), queue',
               buffer')
    <2>1. Chunks(Way[gen'.epoch], gen'.epoch, Range(trained'[gen'.epoch]),
                 <<>>, <<>>)
      BY NoneHeld
    <2> QED
      BY <1>1, <2>1
  <1> QED
    BY <1>1, <1>3, <1>4, FlowAgain

LEMMA LoaderStep == LoaderIInv /\ [LoaderNext]_loaderVars => LoaderIInv'
  <1> SUFFICES ASSUME LoaderIInv, [LoaderNext]_loaderVars PROVE LoaderIInv'
    OBVIOUS
  <1>1. LoaderTypes' /\ GeneratorOK' /\ WaitsOK'
    BY LoaderTyping, GeneratorMoves, WaitsStay DEF LoaderIInv
  <1>2. LoaderTypes /\ GeneratorOK /\ WaitsOK
    BY DEF LoaderIInv
  <1>3. depth' = depth
    BY DEF LoaderNext, loaderVars, configVars, Opens, SkipsShard, Reads,
           EndsShard, EndsEpoch, Puts, Asks, Trains, Saves, Crashes
  <1>4. CASE Crashes
    <2>1. crashed' = TRUE /\ UNCHANGED <<configVars, saved>>
      BY <1>4 DEF Crashes
    <2>2. depth = 0 => FlowOK' /\ SavedOK'
      BY <1>2, <1>4, <2>1, CrashesFlow, SavedStays DEF LoaderIInv
    <2> QED
      BY <1>1, <1>3, <2>1, <2>2 DEF LoaderIInv
  <1>5. CASE ~Crashes
    <2>1. crashed' = crashed
      BY <1>5 DEF LoaderNext, loaderVars, Opens, SkipsShard, Reads,
                  EndsShard, EndsEpoch, Puts, Asks, Trains, Saves
    <2>2. depth = 0 \/ ~crashed => FlowOK'
      BY <1>2, <1>5, FlowStays DEF LoaderIInv
    <2>3. depth = 0 => SavedOK'
      <3>1. CASE Saves
        BY <1>2, <3>1, SavesFlow DEF LoaderIInv
      <3>2. CASE ~Saves
        <4>1. UNCHANGED <<configVars, saved>>
          BY <1>5, <3>2 DEF LoaderNext, loaderVars, Opens, SkipsShard, Reads,
                            EndsShard, EndsEpoch, Puts, Asks, Trains
        <4> QED
          BY <4>1, SavedStays DEF LoaderIInv
      <3> QED
        BY <3>1, <3>2
    <2> QED
      BY <1>1, <1>3, <2>1, <2>2, <2>3 DEF LoaderIInv
  <1> QED
    BY <1>4, <1>5

LEMMA PrecedesIs ==
  ASSUME NEW e \in Epochs, NEW s, NEW t
  PROVE  Precedes(e, s, t) <=> Less(Way[e], s, t)
  <1>1. \A i \in 1..ShardCount, k \in 1..PerShard :
           Way[e][i][k] = Sample(e, i, k)
    BY DEF Way
  <1> QED
    BY <1>1 DEF Precedes, Less

LEMMA SamplesFinite == IsFiniteSet(Samples)
  <1>1. IsFiniteSet(1..ShardCount) /\ IsFiniteSet(1..PerShard)
    BY LoaderAssumption, FS_Interval
  <1> QED
    BY <1>1, FS_Product DEF Samples

LEMMA FlowIsInOrder ==
  ASSUME LoaderTypes, FlowOK, NEW e \in Epochs
  PROVE  IsBeginning(e, trained[e])
  <1> DEFINE o == Way[e]
             part == Range(trained[e])
             rest == IF e = gen.epoch THEN Held(queue, buffer) ELSE {}
  <1>1. /\ o \in Ways /\ owned \in SUBSET Samples
        /\ Fits(o, owned, Most, e, cursor, part \cup rest)
        /\ Sorted(o, trained[e])
    BY FlowIs
  <1>2. cursor \in Cursors /\ e \in Nat
    BY DEF LoaderTypes, Epochs
  <1>3. After(o, part, rest)
    <2>1. CASE e = gen.epoch
      BY <2>1, AfterHeld DEF FlowOK
    <2>2. CASE e # gen.epoch
      BY <2>2 DEF After
    <2> QED
      BY <2>1, <2>2
  <1>4. InOrder(e, trained[e])
    BY <1>1, PrecedesIs DEF InOrder, Sorted
  <1> HIDE DEF o, part, rest
  <1> DEFINE flow == part \cup rest
  <1>5. After(o, part, flow \ part)
    BY <1>3 DEF After
  <1>6. part \in SUBSET flow /\ part \subseteq owned
    BY <1>1 DEF Fits
  <1>7. Fits(o, owned, Most, e, cursor, flow)
    BY <1>1
  <1> HIDE DEF flow
  <1>8. ASSUME NEW s \in owned, NEW t \in part, Precedes(e, s, t)
        PROVE  s \in part
    <2>1. Less(o, s, t)
      BY <1>8, PrecedesIs DEF o
    <2> QED
      BY <1>1, <1>2, <1>5, <1>6, <1>7, <2>1, BeginningOf
  <1> QED
    BY <1>4, <1>6, <1>8 DEF IsBeginning, part

LEMMA LoaderTrains == LoaderIInv => TrainsOnEpochs
  <1> SUFFICES ASSUME LoaderIInv PROVE TrainsOnEpochs
    OBVIOUS
  <1> USE LoaderAssumption
  <1>1. LoaderTypes /\ GeneratorOK
    BY DEF LoaderIInv
  <1>2. TrainsInOrder
    BY <1>1, FlowIsInOrder DEF LoaderIInv, TrainsInOrder
  <1>3. EpochIsCovered
    <2> SUFFICES ASSUME depth = 0 \/ ~crashed, NEW e \in Epochs,
                        gen.at = "reading", e < gen.epoch
                 PROVE  LET left == owned \ Range(trained[e])
                        IN  IF dropLast THEN Cardinality(left) < BatchSize
                                        ELSE left = {}
      BY DEF EpochIsCovered
    <2> DEFINE left == owned \ Range(trained[e])
    <2>1. e < cursor.epoch /\ e # gen.epoch
      BY <1>1 DEF GeneratorOK, LoaderTypes, Generators, Epochs
    <2>2. /\ Fits(Way[e], owned, Most, e, cursor, Range(trained[e]) \cup {})
          /\ owned \in SUBSET Samples
      BY <1>1, <2>1, FlowIs DEF LoaderIInv
    <2>3. Cardinality(left) <= Most
      BY <2>1, <2>2 DEF Fits
    <2>4. IsFiniteSet(left) /\ Cardinality(left) \in Nat
      BY <2>2, SamplesFinite, FS_Subset, FS_CardinalityType
    <2>5. CASE dropLast
      <3>1. Most = BatchSize - 1
        BY <2>5 DEF Most
      <3> HIDE DEF left
      <3>2. Cardinality(left) < BatchSize
        BY <2>3, <2>4, <3>1
      <3> QED
        BY <2>5, <3>2 DEF left
    <2>6. CASE ~dropLast
      <3>1. Most = 0
        BY <2>6 DEF Most
      <3> HIDE DEF left
      <3>2. Cardinality(left) = 0
        BY <2>3, <2>4, <3>1
      <3>3. left = {}
        BY <2>4, <3>2, FS_EmptySet
      <3> QED
        BY <2>6, <3>3 DEF left
    <2> QED
      BY <2>5, <2>6
  <1> QED
    BY <1>2, <1>3 DEF TrainsOnEpochs

\* LoaderTypeOK, for any shards, orders and ownership.
THEOREM LoaderTypeCorrect == LoaderSpec => []LoaderTypeOK
  <1>1. LoaderTypes => LoaderTypeOK
    BY DEF LoaderTypes, LoaderTypeOK, Cursors, Generators
  <1>2. LoaderInit => LoaderTypes
    BY LoaderInitial DEF LoaderIInv
  <1> QED
    BY <1>1, <1>2, LoaderTyping, PTL DEF LoaderSpec

\* TrainsOnEpochs, for any shards, orders, ownership and batches.
THEOREM LoaderTrainsOnEpochs == LoaderSpec => []TrainsOnEpochs
  BY LoaderInitial, LoaderStep, LoaderTrains, PTL DEF LoaderSpec

-----------------------------------------------------------------------------
(* The stores together *)

\* A behaviour of the stores is one of each of its parts: what holds of each
\* part by itself holds of the three together.
THEOREM StoresAreTheirParts ==
  StoresSpec => Spec /\ DistortionSpec /\ LoaderSpec
  <1>1. StoresInit => Init /\ DistortionInit /\ LoaderInit
    BY DEF StoresInit
  <1>2. [StoresNext]_storesVars
          => /\ [Next]_vars /\ [DistortionNext]_distortionVars
             /\ [LoaderNext]_loaderVars
    <2> SUFFICES ASSUME [StoresNext]_storesVars
                 PROVE  /\ [Next]_vars /\ [DistortionNext]_distortionVars
                        /\ [LoaderNext]_loaderVars
      OBVIOUS
    <2>1. CASE UNCHANGED storesVars
      BY <2>1 DEF storesVars
    <2>2. CASE Of("trial", Next)
      BY <2>2 DEF Of
    <2>3. CASE Of("distortion", DistortionNext)
      BY <2>3 DEF Of
    <2>4. CASE Of("loader", LoaderNext)
      BY <2>4 DEF Of
    <2> QED
      BY <2>1, <2>2, <2>3, <2>4 DEF StoresNext
  <1> QED
    BY <1>1, <1>2, PTL DEF StoresSpec, Spec, DistortionSpec, LoaderSpec

\* The rows, files, manifests and cursors of the stores always hold one of
\* their values (StoresTypeOK).
THEOREM StoresTyped == StoresSpec => []StoresTypeOK
  <1>1. TypeOK /\ DistortionTypeOK /\ LoaderTypeOK => StoresTypeOK
    BY DEF StoresTypeOK
  <1> QED
    BY <1>1, StoresAreTheirParts, TypeCorrect, DistortionTypeCorrect,
       LoaderTypeCorrect, PTL
=============================================================================
