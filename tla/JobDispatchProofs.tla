------------------------- MODULE JobDispatchProofs -------------------------
(***************************************************************************)
(* Proofs about JobDispatch for any number of dispatchers, workers and     *)
(* retries.                                                                *)
(*                                                                         *)
(* That a dispatcher neither pushes an id twice nor deletes a job that is   *)
(* queued rests on the lock: whoever is between the fetch and the release  *)
(* holds it (LockOK), so what it has judged dead is not queued meanwhile,  *)
(* and what it has deleted or not found is not in the list (PlacingOK).    *)
(* That the job it does not find is not in the list either is AbsentOK.    *)
(***************************************************************************)
EXTENDS JobDispatch, FiniteSetTheorems, TLAPS

LockOK == \A d \in Dispatchers : thread[d] \in Locked => lock = d

PlacingOK ==
    \A d \in Dispatchers :
        /\ thread[d] = "replace" => rq # "queued"
        /\ thread[d] = "create" => entries = 0

AbsentOK == rq = "none" => entries = 0

IInv == TypeOK /\ LockOK /\ PlacingOK /\ AbsentOK

-----------------------------------------------------------------------------
LEMMA InitInv == Init => IInv
  <1> SUFFICES ASSUME Init PROVE IInv
    OBVIOUS
  <1>1. PICK d \in Dispatchers :
          thread = [x \in Dispatchers |-> IF x = d THEN "lock" ELSE "idle"]
    BY DEF Init
  <1>2. \A x \in Dispatchers : thread[x] \in {"lock", "idle"}
    BY <1>1
  <1>3. thread \in [Dispatchers -> Steps]
    BY <1>1 DEF Steps
  <1>4. TypeOK
    <2>1. 0 \in 0..RetryCount /\ 0 \in 0..UserSteps
      BY DispatchAssumption
    <2>2. run \in [Workers -> Runs]
      BY DEF Init, Runs
    <2> QED BY <1>3, <2>1, <2>2 DEF Init, TypeOK, Statuses, RqStatuses
  <1>5. LockOK /\ PlacingOK /\ AbsentOK
    BY <1>2 DEF Init, LockOK, Locked, PlacingOK, AbsentOK
  <1> QED BY <1>4, <1>5 DEF IInv

\* A step of a dispatcher (enqueue, cancel, retry, or a failure of Redis)
\* keeps the lock's promise.
LEMMA DispatcherInv ==
    ASSUME IInv, NEW d \in Dispatchers,
           Dispatch(d) \/ Retries(d) \/ Cancels(d) \/ RedisFails(d)
    PROVE  IInv'
  <1> USE DispatchAssumption
      DEF IInv, LockOK, Locked, PlacingOK, AbsentOK, TypeOK, rowVars,
          rqVars, At, Go, Steps, Statuses, RqStatuses, Waiting
  <1>1. CASE MaintenanceScans(d)
    BY <1>1 DEF MaintenanceScans, Deferred
  <1>2. CASE TakesLock(d)
    BY <1>2 DEF TakesLock, LockIsFree
  <1>3. CASE LosesLock(d)
    BY <1>3 DEF LosesLock
  <1>4. CASE Fetches(d)
    BY <1>4 DEF Fetches
  <1>5. CASE Deletes(d) \/ Places(d) \/ Releases(d)
    BY <1>5 DEF Deletes, Places, Releases
  <1>6. CASE Records(d)
    BY <1>6 DEF Records
  <1>7. CASE ClearsId(d)
    BY <1>7 DEF ClearsId
  <1>8. CASE FindsJob(d)
    BY <1>8 DEF FindsJob
  <1>9. CASE Withdraws(d)
    BY <1>9 DEF Withdraws
  <1>10. CASE Retries(d)
    BY <1>10 DEF Retries
  <1>11. CASE Cancels(d)
    BY <1>11 DEF Cancels
  <1>12. CASE RedisFails(d)
    BY <1>12 DEF RedisFails, LockIsFree
  <1> QED BY <1>1, <1>2, <1>3, <1>4, <1>5, <1>6,
             <1>7, <1>8, <1>9, <1>10, <1>11, <1>12 DEF Dispatch

\* A run of the job, and its death, queue nothing and put nothing into the
\* list, whatever status they leave the job in.
LEMMA RunInv ==
    ASSUME IInv, NEW w \in Workers, Run(w) \/ WorkerDies(w)
    PROVE  IInv'
  <1> USE DispatchAssumption
      DEF IInv, LockOK, Locked, PlacingOK, AbsentOK, TypeOK, rowVars,
          rqVars, Enter, Statuses, RqStatuses, Runs, Orphaned
  <1>1. CASE Pops(w)
    BY <1>1 DEF Pops
  <1>2. CASE Claims(w) \/ Adopts(w) \/ StartRefused(w) \/ Converts(w)
    BY <1>2 DEF Claims, Adopts, StartRefused, Converts
  <1>3. CASE Uploads(w)
    BY <1>3 DEF Uploads
  <1>4. CASE Reports(w)
    BY <1>4 DEF Reports
  <1>5. CASE Raises(w)
    BY <1>5 DEF Raises, TryAgain
  <1>6. CASE WorkerDies(w)
    BY <1>6 DEF WorkerDies
  <1> QED BY <1>1, <1>2, <1>3, <1>4, <1>5, <1>6 DEF Run

\* RQ's scheduler, its stop command, time and a crash of the API process.
LEMMA SurroundingsInv ==
    ASSUME IInv, \/ Reschedules \/ Stops \/ Abandoned \/ GrowsStale
                 \/ LockExpires \/ ServerCrashes
    PROVE  IInv'
  <1> USE DispatchAssumption
      DEF IInv, LockOK, Locked, PlacingOK, AbsentOK, TypeOK, rowVars,
          rqVars, Statuses, RqStatuses, Runs, Steps
  <1>1. CASE Reschedules
    BY <1>1 DEF Reschedules
  <1>2. CASE Stops
    BY <1>2 DEF Stops, Enter, Orphaned
  <1>3. CASE Abandoned
    BY <1>3 DEF Abandoned, TryAgain
  <1>4. CASE GrowsStale
    BY <1>4 DEF GrowsStale
  <1>5. CASE LockExpires
    BY <1>5 DEF LockExpires
  <1>6. CASE ServerCrashes
    BY <1>6 DEF ServerCrashes
  <1> QED BY <1>1, <1>2, <1>3, <1>4, <1>5, <1>6

LEMMA NextInv == IInv /\ [Next]_vars => IInv'
  <1> SUFFICES ASSUME IInv, [Next]_vars PROVE IInv'
    OBVIOUS
  <1>1. CASE UNCHANGED vars
    BY <1>1 DEF vars, rowVars, rqVars, IInv, TypeOK, LockOK, Locked,
                 PlacingOK, AbsentOK
  <1>2. CASE Next
    BY <1>2, DispatcherInv, RunInv, SurroundingsInv DEF Next
  <1> QED BY <1>1, <1>2

-----------------------------------------------------------------------------
\* The inductive invariant holds in every reachable state.
THEOREM Invariance == Spec => []IInv
  BY InitInv, NextInv, PTL DEF Spec

\* The row, Redis, the threads and the runs always hold one of their values.
THEOREM TypeCorrect == Spec => []TypeOK
  <1>1. IInv => TypeOK
    BY DEF IInv
  <1> QED BY <1>1, Invariance, PTL

\* No dispatcher deletes an RQ job that has been queued since it fetched it
\* (DistributedJobQueue.enqueue: its lock, and a retry interval that is longer
\* than the lock lives).
THEOREM Keeping == Spec => QueuedIsKept
  <1>1. IInv /\ [Next]_vars => [QueuedIsNotDeleted]_vars
    <2> SUFFICES ASSUME IInv, Next, rq = "queued" PROVE rq' # "none"
      BY DEF QueuedIsNotDeleted
    <2>1. ASSUME NEW d \in Dispatchers,
                 Dispatch(d) \/ Retries(d) \/ Cancels(d) \/ RedisFails(d)
          PROVE  rq' # "none"
      <3>1. ~Deletes(d)
        BY DEF Deletes, At, IInv, PlacingOK
      <3> QED BY <2>1, <3>1 DEF Dispatch, MaintenanceScans, TakesLock, LosesLock,
              Fetches, Places, Releases, Records, ClearsId, FindsJob, Withdraws,
              Retries, Cancels, RedisFails, rqVars
    <2>2. ASSUME NEW w \in Workers, Run(w) \/ WorkerDies(w)
          PROVE  rq' # "none"
      BY <2>2 DEF Run, Pops, Claims, Adopts, StartRefused, Converts, Uploads,
                  Reports, Raises, TryAgain, WorkerDies, rqVars
    <2>3. ASSUME \/ Reschedules \/ Stops \/ Abandoned \/ GrowsStale
                 \/ LockExpires \/ ServerCrashes
          PROVE  rq' # "none"
      BY <2>3 DEF Reschedules, Stops, Abandoned, TryAgain, GrowsStale,
                  LockExpires, ServerCrashes, rqVars
    <2> QED BY <2>1, <2>2, <2>3 DEF Next
  <1> QED BY <1>1, Invariance, PTL DEF Spec, QueuedIsKept

\* What a placement finds: the id of a job that is absent, or was deleted, is
\* not listed (DistributedJobQueue.enqueue).
LEMMA DispatcherPlaces ==
    ASSUME IInv, NEW d \in Dispatchers,
           Dispatch(d) \/ Retries(d) \/ Cancels(d) \/ RedisFails(d),
           NEW x \in Dispatchers,
           thread[x] = "create", thread'[x] = "release"
    PROVE  entries' = 1
  <1>0. thread \in [Dispatchers -> Steps]
    BY DEF IInv, TypeOK
  <1>1. CASE Places(d)
    <2>1. entries = 0
      BY <1>1 DEF Places, At, IInv, PlacingOK
    <2> QED BY <1>1, <2>1 DEF Places
  <1>2. CASE ~Places(d)
    BY <1>0, <1>2 DEF Dispatch, MaintenanceScans, TakesLock, LosesLock, Fetches,
                      Deletes, Releases, Records, ClearsId, FindsJob, Withdraws,
                      Retries, Cancels, RedisFails, At, Go
  <1> QED BY <1>1, <1>2

\* However dispatchers race, no job id is pushed while it is in the list.
THEOREM Placement == Spec => PlacedOnce
  <1>1. IInv /\ [Next]_vars => [OnePlacement]_vars
    <2> SUFFICES ASSUME IInv, [Next]_vars, NEW x \in Dispatchers,
                        thread[x] = "create", thread'[x] = "release"
                 PROVE  entries' = 1
      BY DEF OnePlacement, At
    <2>1. ASSUME NEW d \in Dispatchers,
                 Dispatch(d) \/ Retries(d) \/ Cancels(d) \/ RedisFails(d)
          PROVE  entries' = 1
      BY <2>1, DispatcherPlaces
    <2>2. ASSUME NEW w \in Workers, Run(w) \/ WorkerDies(w)
          PROVE  thread' = thread
      BY <2>2 DEF Run, Pops, Claims, Adopts, StartRefused, Converts, Uploads,
                  Reports, Raises, WorkerDies
    <2>3. CASE Reschedules \/ Stops \/ Abandoned \/ GrowsStale \/ LockExpires
      BY <2>3 DEF Reschedules, Stops, Abandoned, GrowsStale, LockExpires
    <2>4. CASE ServerCrashes
      BY <2>4 DEF ServerCrashes
    <2>5. CASE UNCHANGED vars
      BY <2>5 DEF vars
    <2> QED BY <2>1, <2>2, <2>3, <2>4, <2>5 DEF Next
  <1> QED BY <1>1, Invariance, PTL DEF Spec, PlacedOnce

-----------------------------------------------------------------------------
(* How the runs of a job end *)

\* What a thread of the API has before it
StageRank(stage) ==
    IF stage = "clear" THEN 7
    ELSE IF stage = "lock" THEN 6
    ELSE IF stage = "fetch" THEN 5
    ELSE IF stage = "replace" THEN 4
    ELSE IF stage = "create" THEN 3
    ELSE IF stage \in {"release", "find"} THEN 2
    ELSE IF stage \in {"record", "withdraw"} THEN 1
    ELSE 0

\* What a run has before it
RunRank(stage) ==
    IF stage = "start" THEN 5
    ELSE IF stage = "convert" THEN 4
    ELSE IF stage = "upload" THEN 3
    ELSE IF stage = "report" THEN 2
    ELSE IF stage = "raise" THEN 1
    ELSE 0

\* The ids that are still to be cleared
Clearing == {d \in Dispatchers : thread[d] = "clear"}

\* One element for each step that f says the members of S have before them
Left(S, f) == {x \in S \X (1..7) : x[2] <= f[x[1]]}

StagesLeft == Left(Dispatchers, [d \in Dispatchers |-> StageRank(thread[d])])

RunsLeft == Left(Workers, [w \in Workers |-> RunRank(run[w])])

One(condition) == IF condition THEN 1 ELSE 0

\* All that a job can still do, in the order in which one thing makes room for
\* others: a user's step for a dispatch, a dispatch for retries, a retry for
\* an entry of the queue, an entry for a run, a run for what is left of it.
JobRank ==
    << UserSteps - steps,
       Cardinality(Clearing),
       Cardinality(StagesLeft),
       retries,
       2 * entries + 3 * One(rq = "scheduled"),
       Cardinality(RunsLeft),
       One(stop) + One(rq = "started") + One(claim = "orphaned")
           + One(lock # Nobody) >>

\* The i-th number falls and none before it rises.
FallsAt(i) ==
    /\ JobRank'[i] < JobRank[i]
    /\ \A j \in 1..(i - 1) : JobRank'[j] <= JobRank[j]

\* Whatever happens uses up something, except a scan of maintenance, which
\* needs a deferred row; and a row becomes deferred by a user's step or by what
\* is left of one only.
RunsNearEnd ==
    /\ \A i \in 1..7 : JobRank'[i] \in Nat
    /\ \/ \E i \in 1..7 : FallsAt(i)
       \/ /\ Deferred
          /\ \E d \in Dispatchers : MaintenanceScans(d)
          /\ \A i \in 1..7 \ {3} : JobRank'[i] = JobRank[i]
    /\ ~Deferred /\ Deferred' => FallsAt(1) \/ FallsAt(2)

RunsComeToEnd == [][RunsNearEnd]_vars

\* If no member of S has more before it than it had, and one has less, less is
\* left.
LEMMA LeftIsNat ==
  ASSUME NEW S, IsFiniteSet(S), NEW f
  PROVE  IsFiniteSet(Left(S, f)) /\ Cardinality(Left(S, f)) \in Nat
  <1>1. IsFiniteSet(1..7)
    <2>1. /\ 1..7 \in SUBSET Nat /\ 7 \in Nat
          /\ \A i \in 1..7 : i <= 7
      OBVIOUS
    <2> QED BY <2>1, FS_BoundedSetOfNaturals, Zenon
  <1>2. IsFiniteSet(S \X (1..7))
    BY <1>1, FS_Product
  <1>3. Left(S, f) \in SUBSET (S \X (1..7))
    BY DEF Left
  <1> QED BY <1>2, <1>3, FS_Subset, FS_CardinalityType

LEMMA LeftDoesNotGrow ==
  ASSUME NEW S, IsFiniteSet(S), NEW f \in [S -> 0..7], NEW g \in [S -> 0..7],
         \A x \in S : g[x] <= f[x]
  PROVE  Cardinality(Left(S, g)) <= Cardinality(Left(S, f))
  <1>1. Left(S, g) \in SUBSET Left(S, f)
    BY DEF Left
  <1> QED BY <1>1, LeftIsNat, FS_Subset

LEMMA LeftFalls ==
  ASSUME NEW S, IsFiniteSet(S), NEW f \in [S -> 0..7], NEW g \in [S -> 0..7],
         \A x \in S : g[x] <= f[x], NEW y \in S, g[y] < f[y]
  PROVE  Cardinality(Left(S, g)) < Cardinality(Left(S, f))
  <1>1. Left(S, g) \in SUBSET Left(S, f)
    BY DEF Left
  <1>2. <<y, f[y]>> \in Left(S, f) /\ <<y, f[y]>> \notin Left(S, g)
    BY DEF Left
  <1>3. Cardinality(Left(S, g)) # Cardinality(Left(S, f))
    BY <1>1, <1>2, LeftIsNat, FS_Subset
  <1>4. /\ Cardinality(Left(S, g)) \in Nat /\ Cardinality(Left(S, f)) \in Nat
        /\ Cardinality(Left(S, g)) <= Cardinality(Left(S, f))
    BY LeftIsNat, LeftDoesNotGrow
  <1> QED BY <1>3, <1>4

LEMMA RanksAreNat ==
  ASSUME TypeOK
  PROVE  /\ [d \in Dispatchers |-> StageRank(thread[d])] \in [Dispatchers -> 0..7]
         /\ [w \in Workers |-> RunRank(run[w])] \in [Workers -> 0..7]
         /\ IsFiniteSet(Clearing)
         /\ \A i \in 1..7 : JobRank[i] \in Nat
  <1>1. /\ \A d \in Dispatchers : StageRank(thread[d]) \in 0..7
        /\ \A w \in Workers : RunRank(run[w]) \in 0..7
    BY DEF StageRank, RunRank
  <1>2. Clearing \in SUBSET Dispatchers
    BY DEF Clearing
  <1>3. IsFiniteSet(Clearing) /\ Cardinality(Clearing) \in Nat
    BY <1>2, DispatchAssumption, FS_Subset, FS_CardinalityType
  <1>4. Cardinality(StagesLeft) \in Nat /\ Cardinality(RunsLeft) \in Nat
    BY DispatchAssumption, LeftIsNat DEF StagesLeft, RunsLeft
  <1>5. UserSteps - steps \in Nat
    BY DispatchAssumption DEF TypeOK
  <1>6. retries \in Nat /\ 2 * entries + 3 * One(rq = "scheduled") \in Nat
    BY DispatchAssumption DEF TypeOK, One
  <1>7. One(stop) + One(rq = "started") + One(claim = "orphaned")
            + One(lock # Nobody) \in Nat
    BY DEF One
  <1>8. /\ JobRank[1] \in Nat /\ JobRank[2] \in Nat /\ JobRank[3] \in Nat
        /\ JobRank[4] \in Nat /\ JobRank[5] \in Nat /\ JobRank[6] \in Nat
        /\ JobRank[7] \in Nat
    BY <1>3, <1>4, <1>5, <1>6, <1>7 DEF JobRank
  <1>9. \A i \in 1..7 :
            \/ i = 1 \/ i = 2 \/ i = 3 \/ i = 4 \/ i = 5 \/ i = 6 \/ i = 7
    OBVIOUS
  <1> HIDE DEF JobRank
  <1>10. \A i \in 1..7 : JobRank[i] \in Nat
    BY <1>8, <1>9
  <1> QED BY <1>1, <1>3, <1>10

LEMMA JobRankIsNat == TypeOK => \A i \in 1..7 : JobRank[i] \in Nat
  BY RanksAreNat

\* A thread that moves on, or is cut short, uses up stages.
LEMMA StagesFall ==
  ASSUME TypeOK, TypeOK', steps' = steps,
         \A x \in Dispatchers :
             /\ StageRank(thread'[x]) <= StageRank(thread[x])
             /\ thread'[x] = "clear" => thread[x] = "clear",
         NEW d \in Dispatchers, StageRank(thread'[d]) < StageRank(thread[d])
  PROVE  FallsAt(3)
  <1>1. /\ [x \in Dispatchers |-> StageRank(thread[x])] \in [Dispatchers -> 0..7]
        /\ [x \in Dispatchers |-> StageRank(thread'[x])] \in [Dispatchers -> 0..7]
    BY DEF StageRank
  <1>2. Cardinality(StagesLeft)' < Cardinality(StagesLeft)
    BY <1>1, DispatchAssumption, LeftFalls DEF StagesLeft
  <1>3. Cardinality(Clearing)' <= Cardinality(Clearing)
    <2>1. Clearing' \in SUBSET Clearing
      BY DEF Clearing
    <2> QED BY <2>1, RanksAreNat, FS_Subset
  <1>4. UserSteps - steps' <= UserSteps - steps
    BY DispatchAssumption DEF TypeOK
  <1> QED BY <1>2, <1>3, <1>4 DEF FallsAt, JobRank

\* A run that goes on or ends, without a new entry or retry, uses up its steps.
LEMMA RunsFall ==
  ASSUME TypeOK, TypeOK', UNCHANGED <<steps, thread, retries, entries>>,
         rq' = "scheduled" => rq = "scheduled",
         NEW w \in Workers, NEW stage \in Runs,
         run' = [run EXCEPT ![w] = stage], RunRank(stage) < RunRank(run[w])
  PROVE  FallsAt(6)
  <1>1. /\ [x \in Workers |-> RunRank(run[x])] \in [Workers -> 0..7]
        /\ [x \in Workers |-> RunRank(run'[x])] \in [Workers -> 0..7]
    BY DEF RunRank
  <1>2. /\ \A x \in Workers : RunRank(run'[x]) <= RunRank(run[x])
        /\ RunRank(run'[w]) < RunRank(run[w])
    <2>1. run \in [Workers -> Runs]
      BY DEF TypeOK
    <2>2. \A x \in Workers \ {w} : run'[x] = run[x]
      BY <2>1
    <2>3. run'[w] = stage
      BY <2>1
    <2> QED BY <1>1, <2>2, <2>3
  <1>3. Cardinality(RunsLeft)' < Cardinality(RunsLeft)
    BY <1>1, <1>2, DispatchAssumption, LeftFalls DEF RunsLeft
  <1>4. Clearing' = Clearing /\ StagesLeft' = StagesLeft
    BY DEF Clearing, StagesLeft
  <1>5. /\ UserSteps - steps' <= UserSteps - steps
        /\ Cardinality(Clearing)' <= Cardinality(Clearing)
        /\ Cardinality(StagesLeft)' <= Cardinality(StagesLeft)
        /\ retries' <= retries
    <2>1. /\ JobRank[1] \in Nat /\ JobRank[2] \in Nat /\ JobRank[3] \in Nat
          /\ retries \in Nat
      BY RanksAreNat, DispatchAssumption DEF TypeOK
    <2> QED BY <1>4, <2>1 DEF JobRank
  <1>6. 2 * entries' + 3 * One(rq' = "scheduled")
            <= 2 * entries + 3 * One(rq = "scheduled")
    BY DEF TypeOK, One
  <1> QED BY <1>3, <1>5, <1>6 DEF FallsAt, JobRank

\* What changes neither threads nor users' steps leaves the first three alone.
LEMMA FirstThree ==
  ASSUME TypeOK, UNCHANGED <<steps, thread>>
  PROVE  \A i \in 1..3 : JobRank'[i] <= JobRank[i]
  <1>1. Clearing' = Clearing /\ StagesLeft' = StagesLeft
    BY DEF Clearing, StagesLeft
  <1>2. /\ JobRank[1] \in Nat /\ JobRank[2] \in Nat /\ JobRank[3] \in Nat
    BY RanksAreNat
  <1>3. /\ JobRank'[1] = JobRank[1] /\ JobRank'[2] = JobRank[2]
        /\ JobRank'[3] = JobRank[3]
    BY <1>1 DEF JobRank
  <1> HIDE DEF JobRank
  <1> QED BY <1>2, <1>3

LEMMA UserStepFalls ==
  ASSUME TypeOK, TypeOK', steps' = steps + 1
  PROVE  FallsAt(1)
  <1>1. UserSteps - steps' < UserSteps - steps
    BY DispatchAssumption DEF TypeOK
  <1> QED BY <1>1 DEF FallsAt, JobRank

LEMMA ClearedIdFalls ==
  ASSUME TypeOK, TypeOK', NEW d \in Dispatchers, ClearsId(d)
  PROVE  FallsAt(2)
  <1>1. /\ thread[d] = "clear" /\ thread' = [thread EXCEPT ![d] = "lock"]
        /\ steps' = steps /\ thread \in [Dispatchers -> Steps]
    BY DEF ClearsId, At, Go, TypeOK
  <1>2. Clearing' = Clearing \ {d} /\ d \in Clearing
    BY <1>1 DEF Clearing
  <1>3. Cardinality(Clearing') < Cardinality(Clearing)
    <2>1. Cardinality(Clearing') = Cardinality(Clearing) - 1
      BY <1>2, RanksAreNat, FS_RemoveElement
    <2>2. Cardinality(Clearing) \in Nat
      BY RanksAreNat, FS_CardinalityType
    <2> QED BY <2>1, <2>2
  <1>4. UserSteps - steps' <= UserSteps - steps
    BY <1>1, DispatchAssumption DEF TypeOK
  <1> QED BY <1>3, <1>4 DEF FallsAt, JobRank

\* The threads of the API: a user's step is used up, then the id to be cleared,
\* then the stages of a dispatch or of a cancel.
LEMMA DispatcherNearsEnd ==
  ASSUME TypeOK, TypeOK', NEW d \in Dispatchers,
         Dispatch(d) \/ Retries(d) \/ Cancels(d) \/ RedisFails(d)
  PROVE  \/ \E i \in 1..7 : FallsAt(i)
         \/ /\ MaintenanceScans(d)
            /\ \A i \in 1..7 \ {3} : JobRank'[i] = JobRank[i]
  <1>0. thread \in [Dispatchers -> Steps] /\ steps \in 0..UserSteps
    BY DEF TypeOK
  <1>1. CASE Retries(d) \/ Cancels(d)
    <2>1. FallsAt(1)
      BY <1>1, UserStepFalls DEF Retries, Cancels
    <2> QED BY <2>1
  <1>2. CASE ClearsId(d)
    <2>1. FallsAt(2)
      BY <1>2, ClearedIdFalls
    <2> QED BY <2>1
  <1>3. CASE MaintenanceScans(d)
    <2>1. /\ thread[d] = "idle" /\ thread' = [thread EXCEPT ![d] = "lock"]
          /\ UNCHANGED <<status, claim, recorded, rq, entries, retries, stop,
                         run, lock, steps>>
      BY <1>3 DEF MaintenanceScans, At, Go, rowVars, rqVars
    <2>2. Clearing' = Clearing /\ RunsLeft' = RunsLeft
      BY <1>0, <2>1 DEF Clearing, RunsLeft
    <2>3. /\ JobRank'[1] = JobRank[1] /\ JobRank'[2] = JobRank[2]
          /\ JobRank'[4] = JobRank[4] /\ JobRank'[5] = JobRank[5]
          /\ JobRank'[6] = JobRank[6] /\ JobRank'[7] = JobRank[7]
      BY <2>1, <2>2 DEF JobRank
    <2>4. \A i \in 1..7 \ {3} :
              i = 1 \/ i = 2 \/ i = 4 \/ i = 5 \/ i = 6 \/ i = 7
      OBVIOUS
    <2> HIDE DEF JobRank
    <2> QED BY <1>3, <2>3, <2>4
  <1>4. CASE \/ TakesLock(d) \/ LosesLock(d) \/ Fetches(d)
             \/ Deletes(d) \/ Places(d) \/ Releases(d) \/ Records(d)
             \/ FindsJob(d) \/ Withdraws(d) \/ RedisFails(d)
    <2>1. /\ steps' = steps
          /\ thread[d] # "clear"
          /\ \E stage \in Steps : /\ thread' = [thread EXCEPT ![d] = stage]
                                  /\ stage # "clear"
                                  /\ StageRank(stage) < StageRank(thread[d])
      BY <1>4 DEF TakesLock, LosesLock, Fetches, Deletes, Places, Releases,
                  Records, FindsJob, Withdraws, RedisFails, Locked, At, Go, Steps,
                  StageRank
    <2>2. PICK stage \in Steps :
              /\ thread' = [thread EXCEPT ![d] = stage]
              /\ stage # "clear" /\ StageRank(stage) < StageRank(thread[d])
      BY <2>1
    <2>3. thread'[d] = stage /\ \A x \in Dispatchers \ {d} : thread'[x] = thread[x]
      BY <1>0, <2>2
    <2>4. /\ \A x \in Dispatchers : /\ StageRank(thread'[x]) <= StageRank(thread[x])
                                    /\ thread'[x] = "clear" => thread[x] = "clear"
          /\ StageRank(thread'[d]) < StageRank(thread[d])
      <3>1. \A x \in Dispatchers : StageRank(thread[x]) \in Nat
        BY DEF StageRank
      <3>2. StageRank(stage) \in Nat
        BY DEF StageRank
      <3> HIDE DEF StageRank
      <3> QED BY <2>2, <2>3, <3>1, <3>2
    <2>5. FallsAt(3)
      BY <2>1, <2>4, StagesFall
    <2> QED BY <2>5
  <1> QED BY <1>1, <1>2, <1>3, <1>4 DEF Dispatch

\* A retry is used up, or the job has failed.
LEMMA RetryFalls ==
  ASSUME TypeOK, TypeOK', UNCHANGED <<steps, thread>>, TryAgain, retries > 0
  PROVE  FallsAt(4)
  <1>1. retries' < retries
    BY DispatchAssumption DEF TryAgain, TypeOK
  <1> QED BY <1>1, FirstThree DEF FallsAt, JobRank

\* Entries and the interval before the next one
LEMMA EntriesFall ==
  ASSUME TypeOK, TypeOK', UNCHANGED <<steps, thread, retries>>,
         2 * entries' + 3 * One(rq' = "scheduled")
             < 2 * entries + 3 * One(rq = "scheduled")
  PROVE  FallsAt(5)
  <1>1. retries' <= retries
    BY DispatchAssumption DEF TypeOK
  <1> QED BY <1>1, FirstThree DEF FallsAt, JobRank

\* What is left of a run: its stop command, its claim, its lock, its status
LEMMA RestFalls ==
  ASSUME TypeOK, TypeOK', UNCHANGED <<steps, thread, retries, entries, run>>,
         rq' = "scheduled" => rq = "scheduled",
         One(stop)' + One(rq = "started")' + One(claim = "orphaned")'
                 + One(lock # Nobody)'
             < One(stop) + One(rq = "started") + One(claim = "orphaned")
                 + One(lock # Nobody)
  PROVE  FallsAt(7)
  <1>1. retries' <= retries
    BY DispatchAssumption DEF TypeOK
  <1>2. 2 * entries' + 3 * One(rq' = "scheduled")
            <= 2 * entries + 3 * One(rq = "scheduled")
    BY DEF TypeOK, One
  <1>3. Cardinality(RunsLeft)' <= Cardinality(RunsLeft)
    <2>1. RunsLeft' = RunsLeft
      BY DEF RunsLeft
    <2>2. JobRank[6] \in Nat
      BY RanksAreNat
    <2> QED BY <2>1, <2>2 DEF JobRank
  <1> QED BY <1>1, <1>2, <1>3, FirstThree DEF FallsAt, JobRank

LEMMA RunNearsEnd ==
  ASSUME TypeOK, TypeOK', NEW w \in Workers, Run(w) \/ WorkerDies(w)
  PROVE  \E i \in 1..7 : FallsAt(i)
  <1>0. run \in [Workers -> Runs] /\ entries \in Nat
    BY DEF TypeOK
  <1>1. CASE Pops(w)
    <2>1. /\ UNCHANGED <<steps, thread, retries>>
          /\ entries > 0 /\ entries' = entries - 1 /\ rq' = "started"
      BY <1>1 DEF Pops, rowVars
    <2>2. 2 * entries' + 3 * One(rq' = "scheduled")
              < 2 * entries + 3 * One(rq = "scheduled")
      BY <1>0, <2>1 DEF One
    <2> QED BY <2>1, <2>2, EntriesFall
  <1>2. CASE \/ Claims(w) \/ Adopts(w) \/ StartRefused(w) \/ Converts(w)
             \/ Uploads(w) \/ Reports(w) \/ WorkerDies(w)
    <2>1. /\ UNCHANGED <<steps, thread, retries, entries>>
          /\ rq' = "scheduled" => rq = "scheduled"
          /\ \E stage \in Runs : /\ run' = [run EXCEPT ![w] = stage]
                                 /\ RunRank(stage) < RunRank(run[w])
      <3>1. run[w] \in Runs
        BY <1>0
      <3>2. CASE Claims(w) \/ Adopts(w) \/ StartRefused(w) \/ Converts(w)
        BY <3>2 DEF Claims, Adopts, StartRefused, Converts, Enter, rowVars,
                    rqVars, Runs, RunRank
      <3>3. CASE Uploads(w) \/ Reports(w)
        BY <3>3 DEF Uploads, Reports, Enter, rqVars, Runs, RunRank
      <3>4. CASE WorkerDies(w)
        BY <3>1, <3>4 DEF WorkerDies, Enter, rqVars, Runs, RunRank
      <3> QED BY <1>2, <3>2, <3>3, <3>4
    <2>2. PICK stage \in Runs : /\ run' = [run EXCEPT ![w] = stage]
                                /\ RunRank(stage) < RunRank(run[w])
      BY <2>1
    <2>3. FallsAt(6)
      BY <2>1, <2>2, RunsFall
    <2> QED BY <2>3
  <1>3. CASE Raises(w)
    <2>1. /\ UNCHANGED <<steps, thread, entries>> /\ TryAgain
          /\ run[w] = "raise" /\ run' = [run EXCEPT ![w] = "none"]
      BY <1>3 DEF Raises, Enter, rowVars
    <2>2. CASE retries > 0
      BY <2>1, <2>2, RetryFalls
    <2>3. CASE ~(retries > 0)
      <3>1. retries' = retries /\ rq' = "failed"
        BY <2>1, <2>3 DEF TryAgain
      <3>2. "none" \in Runs /\ RunRank("none") < RunRank(run[w])
        BY <2>1 DEF Runs, RunRank
      <3>3. FallsAt(6)
        BY <2>1, <3>1, <3>2, RunsFall
      <3> QED BY <3>3
    <2> QED BY <2>2, <2>3
  <1> QED BY <1>1, <1>2, <1>3 DEF Run

LEMMA SurroundingsNearEnd ==
  ASSUME TypeOK, TypeOK',
         \/ Reschedules \/ Stops \/ Abandoned \/ GrowsStale
         \/ LockExpires \/ ServerCrashes
  PROVE  \E i \in 1..7 : FallsAt(i)
  <1>1. CASE Reschedules
    <2>1. /\ UNCHANGED <<steps, thread, retries>>
          /\ rq = "scheduled" /\ rq' = "queued" /\ entries' = entries + 1
      BY <1>1 DEF Reschedules, rowVars
    <2>2. 2 * entries' + 3 * One(rq' = "scheduled")
              < 2 * entries + 3 * One(rq = "scheduled")
      BY <2>1 DEF One, TypeOK
    <2> QED BY <2>1, <2>2, EntriesFall
  <1>2. CASE Stops
    <2>1. UNCHANGED <<steps, thread, retries, entries, lock>>
      BY <1>2 DEF Stops
    <2>2. CASE UNCHANGED <<rq, run, claim>>
      <3>1. stop /\ ~stop'
        BY <1>2 DEF Stops
      <3>2. One(stop)' + One(rq = "started")' + One(claim = "orphaned")'
                    + One(lock # Nobody)'
                < One(stop) + One(rq = "started") + One(claim = "orphaned")
                    + One(lock # Nobody)
        BY <2>1, <2>2, <3>1 DEF One
      <3> QED BY <2>1, <2>2, <3>2, RestFalls
    <2>3. CASE ~UNCHANGED <<rq, run, claim>>
      <3>1. PICK w \in Workers : /\ run[w] # "none"
                                 /\ run' = [run EXCEPT ![w] = "none"]
                                 /\ rq' = "stopped"
        BY <1>2, <2>3 DEF Stops, Enter
      <3>2. "none" \in Runs /\ RunRank("none") < RunRank(run[w])
        BY <3>1 DEF Runs, RunRank, TypeOK
      <3>3. FallsAt(6)
        BY <2>1, <3>1, <3>2, RunsFall
      <3> QED BY <3>3
    <2> QED BY <2>2, <2>3
  <1>3. CASE Abandoned
    <2>1. /\ UNCHANGED <<steps, thread, entries, run, stop, claim, lock>>
          /\ rq = "started" /\ TryAgain
      BY <1>3 DEF Abandoned, rowVars
    <2>2. CASE retries > 0
      BY <2>1, <2>2, RetryFalls
    <2>3. CASE ~(retries > 0)
      <3>1. retries' = retries /\ rq' = "failed"
        BY <2>1, <2>3 DEF TryAgain
      <3>2. One(stop)' + One(rq = "started")' + One(claim = "orphaned")'
                    + One(lock # Nobody)'
                < One(stop) + One(rq = "started") + One(claim = "orphaned")
                    + One(lock # Nobody)
        BY <2>1, <3>1 DEF One
      <3> QED BY <2>1, <3>1, <3>2, RestFalls
    <2> QED BY <2>2, <2>3
  <1>4. CASE GrowsStale
    <2>1. /\ UNCHANGED <<steps, thread, retries, entries, run, rq, stop, lock>>
          /\ claim = "orphaned" /\ claim' = "stale"
      BY <1>4 DEF GrowsStale, rqVars
    <2>2. One(stop)' + One(rq = "started")' + One(claim = "orphaned")'
                  + One(lock # Nobody)'
              < One(stop) + One(rq = "started") + One(claim = "orphaned")
                  + One(lock # Nobody)
      BY <2>1 DEF One
    <2> QED BY <2>1, <2>2, RestFalls
  <1>5. CASE LockExpires
    <2>1. /\ UNCHANGED <<steps, thread, retries, entries, run, rq, stop, claim>>
          /\ lock # Nobody /\ lock' = Nobody
      BY <1>5 DEF LockExpires, rqVars, rowVars
    <2>2. One(stop)' + One(rq = "started")' + One(claim = "orphaned")'
                  + One(lock # Nobody)'
              < One(stop) + One(rq = "started") + One(claim = "orphaned")
                  + One(lock # Nobody)
      BY <2>1 DEF One
    <2> QED BY <2>1, <2>2, RestFalls
  <1>6. CASE ServerCrashes
    <2>1. /\ steps' = steps
          /\ \A x \in Dispatchers : thread'[x] = "idle"
          /\ \E d \in Dispatchers : thread[d] # "idle"
      BY <1>6 DEF ServerCrashes, At
    <2>2. PICK d \in Dispatchers : thread[d] # "idle"
      BY <2>1
    <2>3. StageRank(thread'[d]) < StageRank(thread[d])
      BY <2>1, <2>2 DEF StageRank, TypeOK, Steps
    <2>4. \A x \in Dispatchers : StageRank(thread'[x]) <= StageRank(thread[x])
      BY <2>1 DEF StageRank
    <2> HIDE DEF StageRank
    <2>5. FallsAt(3)
      BY <2>1, <2>3, <2>4, StagesFall
    <2> QED BY <2>5
  <1> QED BY <1>1, <1>2, <1>3, <1>4, <1>5, <1>6

\* A row that is not deferred becomes so by a retry of its user, or when a
\* retry clears the id.
LEMMA DeferredAgain ==
  ASSUME TypeOK, TypeOK', Next, ~Deferred, Deferred'
  PROVE  FallsAt(1) \/ FallsAt(2)
  <1>1. PICK d \in Dispatchers : Retries(d) \/ ClearsId(d)
    <2>1. ASSUME NEW w \in Workers, Run(w) \/ WorkerDies(w) PROVE FALSE
      BY <2>1 DEF Run, Pops, Claims, Adopts, StartRefused, Converts, Uploads,
                  Reports, Raises, WorkerDies, rowVars, Deferred
    <2>2. ASSUME \/ Reschedules \/ Stops \/ Abandoned \/ GrowsStale
                 \/ LockExpires \/ ServerCrashes
          PROVE  FALSE
      BY <2>2 DEF Reschedules, Stops, Abandoned, GrowsStale, LockExpires,
                  ServerCrashes, rowVars, Deferred
    <2>3. ASSUME NEW d \in Dispatchers,
                 \/ MaintenanceScans(d) \/ TakesLock(d) \/ LosesLock(d)
                 \/ Fetches(d) \/ Deletes(d) \/ Places(d) \/ Releases(d)
                 \/ Records(d) \/ FindsJob(d) \/ Withdraws(d) \/ Cancels(d)
                 \/ RedisFails(d)
          PROVE  FALSE
      BY <2>3 DEF MaintenanceScans, TakesLock, LosesLock, Fetches, Deletes,
                  Places, Releases, Records, FindsJob, Withdraws, Cancels,
                  RedisFails, rowVars, Deferred
    <2> QED BY <2>1, <2>2, <2>3 DEF Next, Dispatch
  <1>2. Retries(d) => FallsAt(1)
    BY UserStepFalls DEF Retries
  <1>3. ClearsId(d) => FallsAt(2)
    BY ClearedIdFalls
  <1> QED BY <1>1, <1>2, <1>3

LEMMA NextNearsEnd == IInv /\ [Next]_vars => [RunsNearEnd]_vars
  <1> SUFFICES ASSUME IInv, Next PROVE RunsNearEnd
    OBVIOUS
  <1>1. IInv'
    BY NextInv
  <1>2. TypeOK /\ TypeOK'
    BY <1>1 DEF IInv
  <1>3. \A i \in 1..7 : JobRank'[i] \in Nat
    <2>1. TypeOK' => (\A i \in 1..7 : JobRank[i] \in Nat)'
      BY JobRankIsNat, PTL
    <2> QED BY <1>2, <2>1
  <1>4. \/ \E i \in 1..7 : FallsAt(i)
        \/ /\ Deferred
           /\ \E d \in Dispatchers : MaintenanceScans(d)
           /\ \A i \in 1..7 \ {3} : JobRank'[i] = JobRank[i]
    <2>1. ASSUME NEW d \in Dispatchers,
                 Dispatch(d) \/ Retries(d) \/ Cancels(d) \/ RedisFails(d)
          PROVE  <1>4
      <3>1. MaintenanceScans(d) => Deferred
        BY DEF MaintenanceScans
      <3> QED BY <1>2, <2>1, <3>1, DispatcherNearsEnd
    <2>2. ASSUME NEW w \in Workers, Run(w) \/ WorkerDies(w)
          PROVE  \E i \in 1..7 : FallsAt(i)
      BY <1>2, <2>2, RunNearsEnd
    <2>3. ASSUME \/ Reschedules \/ Stops \/ Abandoned \/ GrowsStale
                 \/ LockExpires \/ ServerCrashes
          PROVE  \E i \in 1..7 : FallsAt(i)
      BY <1>2, <2>3, SurroundingsNearEnd
    <2> QED BY <2>1, <2>2, <2>3 DEF Next
  <1>5. ~Deferred /\ Deferred' => FallsAt(1) \/ FallsAt(2)
    BY <1>2, DeferredAgain
  <1> QED BY <1>3, <1>4, <1>5 DEF RunsNearEnd

\* RQ, workers, users and the API cannot keep a job going for ever: every step,
\* failures and crashes included, lowers JobRank, whose seven numbers are
\* ordered like words of a dictionary; a scan of maintenance alone raises its
\* third number, for a deferred row, and a row becomes deferred only with a fall
\* of the first two.  So a row that does not stay deferred for ever
\* (run_maintenance_cycle, DeferredIsDispatched) comes to rest (RunsEnd).
THEOREM RunsAreLimited == Spec => RunsComeToEnd
  BY NextNearsEnd, Invariance, PTL DEF Spec, RunsComeToEnd
=============================================================================
