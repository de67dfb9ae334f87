---------------------------- MODULE TrainingRun ----------------------------
(***************************************************************************)
(* One training run: the directory with its status record and checkpoints, *)
(* and the process that executes it with the torch backend.  The process   *)
(* may fail or be interrupted anywhere (the run is FAILED or INTERRUPTED   *)
(* and may be resumed) or be killed (its record stays RUNNING).            *)
(*                                                                         *)
(* One process executes the run at a time: nothing in the code enforces    *)
(* it.  The weights are represented by the number of optimizer steps they  *)
(* went through; a loss is a member of a small set.  metadata.json repeats *)
(* the status, metrics.jsonl and summary.json are left out.                *)
(***************************************************************************)
EXTENDS Integers, FiniteSets

CONSTANTS
    MaxStep,      \* training.max_steps
    SaveSteps,    \* checkpoint.save_steps
    Limits,       \* values of checkpoint.save_total_limit
    Losses,       \* values of metric_for_best
    MaxFaults     \* bound on failures, interruptions and kills

ASSUME TrainingAssumption ==
    /\ MaxStep \in Nat \ {0} /\ SaveSteps \in Nat \ {0}
    /\ Limits \subseteq Nat \ {0} /\ Losses \subseteq Nat /\ Losses # {}
    /\ MaxFaults \in Nat

Steps == 1..MaxStep
NoWeights == -1
NoLoss == -1

VARIABLES
    limit,       \* checkpoint.save_total_limit, of the run's configuration
    runStatus,   \* status.json
    folder,      \* of each step: "none", "whole" or "torn"
    loss,        \* the metric in a checkpoint's metadata
    stored,      \* the torch state its metadata names, NoWeights before
    place,       \* where the process is, "off" without one
    step,        \* the step it has done
    weights,     \* the steps its model has gone through
    faults,
    best,        \* the smallest loss of a checkpoint so far (history)
    top,         \* the largest step of a checkpoint so far (history)
    bare         \* resumed from a checkpoint without torch state (history)

checkpointVars == <<folder, loss, stored>>
processVars == <<place, step, weights>>
trainingVars == <<limit, runStatus, checkpointVars, processVars, faults,
                  best, top, bare>>

RunStatuses == {"CREATED", "RUNNING", "COMPLETED", "FAILED", "INTERRUPTED"}
RunPlaces == {"off", "restoring", "training", "publishing", "retaining",
              "loading", "storing"}

Saved == {s \in Steps : folder[s] # "none"}
Newest(S) == CHOOSE s \in S : \A r \in S : r <= s

-----------------------------------------------------------------------------
(* _mark_best_and_retain *)

\* Mutant: the best is not looked for among all.
LastSaved == Newest(Saved)

\* The smallest loss, and the earliest step among equals
BestSaved ==
    CHOOSE s \in Saved :
        \A r \in Saved : loss[s] < loss[r] \/ (loss[s] = loss[r] /\ s <= r)

\* The newest n of a set
NewestOf(S, n) == {s \in S : Cardinality({r \in S : r > s}) < n}

\* Mutant: the oldest slots are kept.
OldestOf(S, n) == {s \in S : Cardinality({r \in S : r < s}) < n}

KeptOldest(S) == OldestOf(S, limit - 1)

\* Mutant: the best does not count.
LimitBesidesBest(S) == NewestOf(S, limit)

\* The best counts inside the limit.
KeptSlots(S) == NewestOf(S, limit - 1)

Kept == {BestSaved} \cup KeptSlots(Saved \ {BestSaved})

-----------------------------------------------------------------------------
(* run_experiment and resume_run *)

StartsRun ==
    /\ runStatus = "CREATED" /\ place = "off"
    /\ runStatus' = "RUNNING" /\ place' = "training"
    /\ UNCHANGED <<checkpointVars, step, weights, faults, best, top, bare>>

Resumable ==
    /\ runStatus \in {"FAILED", "INTERRUPTED"}
    /\ Saved # {} /\ \A s \in Saved : folder[s] = "whole"

\* From the latest checkpoint
ResumesRun ==
    /\ Resumable /\ place = "off"
    /\ runStatus' = "RUNNING" /\ place' = "restoring"
    /\ step' = Newest(Saved)
    /\ UNCHANGED <<checkpointVars, weights, faults, best, top, bare>>

\* Mutant: one step more than it was saved with.
OneStepMore(s) == stored[s] + 1

\* The weights that the metadata's digest names
LoadedWeights(s) == stored[s]

\* _restore_from_latest_checkpoint: without a digest nothing is restored.
Restores ==
    /\ place = "restoring" /\ place' = "training"
    /\ IF stored[step] = NoWeights
         THEN weights' = 0 /\ bare' = TRUE
         ELSE weights' = LoadedWeights(step) /\ UNCHANGED bare
    /\ UNCHANGED <<runStatus, checkpointVars, step, faults, best, top>>

-----------------------------------------------------------------------------
(* train and save *)

TrainsStep ==
    /\ place = "training" /\ step < MaxStep
    /\ step' = step + 1 /\ weights' = weights + 1
    /\ place' = IF step' % SaveSteps = 0 THEN "publishing" ELSE "training"
    /\ UNCHANGED <<runStatus, checkpointVars, faults, best, top, bare>>

\* CheckpointManager.save, up to the rename of the staged directory.  A resume
\* starts from the newest checkpoint, so no step has one already.
Publishes ==
    /\ place = "publishing" /\ place' = "retaining"
    /\ \E l \in Losses :
          /\ loss' = [loss EXCEPT ![step] = l]
          /\ best' = IF best = NoLoss \/ l < best THEN l ELSE best
    /\ folder' = [folder EXCEPT ![step] = "whole"]
    /\ stored' = [stored EXCEPT ![step] = NoWeights]
    /\ top' = IF step > top THEN step ELSE top
    /\ UNCHANGED <<runStatus, step, weights, faults, bare>>

Removes(S, torn) ==
    /\ folder' = [s \in Steps |-> IF s \in torn THEN "torn"
                                  ELSE IF s \in S THEN "none" ELSE folder[s]]
    /\ loss' = [s \in Steps |-> IF s \in S THEN NoLoss ELSE loss[s]]
    /\ stored' = [s \in Steps |-> IF s \in S THEN NoWeights ELSE stored[s]]

Retains ==
    /\ place = "retaining" /\ place' = "loading"
    /\ Removes(Saved \ Kept, {})
    /\ UNCHANGED <<runStatus, step, weights, faults, best, top, bare>>

\* save returns the checkpoint it loads, and fails when it was not retained.
Loads ==
    /\ place = "loading" /\ folder[step] = "whole" /\ place' = "storing"
    /\ UNCHANGED <<runStatus, checkpointVars, step, weights, faults,
                   best, top, bare>>

\* _save_checkpoint: state.bin, then its digest in the metadata.
Stores ==
    /\ place = "storing" /\ place' = "training"
    /\ stored' = [stored EXCEPT ![step] = weights]
    /\ UNCHANGED <<runStatus, folder, loss, step, weights, faults,
                   best, top, bare>>

CompletesRun ==
    /\ place = "training" /\ step = MaxStep
    /\ place' = "off" /\ runStatus' = "COMPLETED"
    /\ UNCHANGED <<checkpointVars, step, weights, faults, best, top, bare>>

-----------------------------------------------------------------------------
(* Failures *)

Stops(status) ==
    /\ place # "off" /\ place' = "off" /\ runStatus' = status
    /\ step' = 0 /\ weights' = 0

\* The checkpoint just saved was the one retention removed.
LoadFails ==
    /\ place = "loading" /\ folder[step] # "whole"
    /\ Stops("FAILED")
    /\ UNCHANGED <<checkpointVars, faults, best, top, bare>>

\* An exception or KeyboardInterrupt, anywhere; or the end of the process,
\* which records nothing.
Breaks ==
    /\ faults < MaxFaults /\ faults' = faults + 1
    /\ \E status \in {"FAILED", "INTERRUPTED", "RUNNING"} : Stops(status)
    /\ UNCHANGED <<checkpointVars, best, top, bare>>

\* The same while directories are removed: some are gone, one is in pieces.
BreaksRetaining ==
    /\ place = "retaining" /\ Saved \ Kept # {}
    /\ faults < MaxFaults /\ faults' = faults + 1
    /\ \E status \in {"FAILED", "INTERRUPTED", "RUNNING"} : Stops(status)
    /\ \E gone \in SUBSET (Saved \ Kept) :
          \E torn \in gone : Removes(gone, {torn})
    /\ UNCHANGED <<best, top, bare>>

-----------------------------------------------------------------------------
TrainingInit ==
    /\ limit \in Limits
    /\ runStatus = "CREATED" /\ place = "off"
    /\ folder = [s \in Steps |-> "none"]
    /\ loss = [s \in Steps |-> NoLoss]
    /\ stored = [s \in Steps |-> NoWeights]
    /\ step = 0 /\ weights = 0 /\ faults = 0
    /\ best = NoLoss /\ top = 0 /\ bare = FALSE

Works == \/ StartsRun \/ ResumesRun \/ Restores \/ TrainsStep \/ Publishes
         \/ Retains \/ Loads \/ Stores \/ CompletesRun

TrainingNext ==
    /\ Works \/ LoadFails \/ Breaks \/ BreaksRetaining
    /\ UNCHANGED limit

\* A process goes on, and someone resumes the run while that is possible.
TrainingFairness == WF_trainingVars(Works /\ UNCHANGED limit)

TrainingSpec == TrainingInit /\ [][TrainingNext]_trainingVars
                /\ TrainingFairness

-----------------------------------------------------------------------------
(* Properties *)

\* The directory and the process hold what the code can put there; an executing
\* process has its run recorded as RUNNING.
TrainingTypeOK ==
    /\ limit \in Limits
    /\ runStatus \in RunStatuses
    /\ folder \in [Steps -> {"none", "whole", "torn"}]
    /\ loss \in [Steps -> Losses \cup {NoLoss}]
    /\ stored \in [Steps -> 0..MaxStep \cup {NoWeights}]
    /\ place \in RunPlaces
    /\ step \in 0..MaxStep /\ weights \in 0..MaxStep
    /\ faults \in 0..MaxFaults
    /\ best \in Losses \cup {NoLoss} /\ top \in 0..MaxStep
    /\ bare \in BOOLEAN
    /\ place # "off" => runStatus = "RUNNING"

\* The best checkpoint of the run is never lost: whatever was saved, retained,
\* resumed or broken off since, one with that loss is whole
\* (_mark_best_and_retain).
BestIsKept ==
    best # NoLoss => \E s \in Steps : folder[s] = "whole" /\ loss[s] = best

\* With room for two checkpoints the newest is never lost either, so no resume
\* goes back behind a step that was saved.
NewestIsKept == limit > 1 /\ top # 0 => folder[top] = "whole"

\* A save that went through leaves no more checkpoints than the limit, those
\* that broken saves left behind included.
LimitHolds == place \in {"loading", "storing"} => Cardinality(Saved) <= limit

\* The model has gone through exactly the steps the process has counted, and a
\* checkpoint with torch state holds the model of its step, unless a resume
\* found a checkpoint without torch state (README, section 6).
WeightsMatchStep ==
    ~bare =>
        /\ place \notin {"off", "restoring"} => weights = step
        /\ \A s \in Steps : stored[s] # NoWeights => stored[s] = s

\* What the checkpoints of a run promise, whatever was broken off
\* (CheckpointManager, _save_checkpoint).
CheckpointsHold ==
    BestIsKept /\ NewestIsKept /\ LimitHolds /\ WeightsMatchStep

\* What the documentation says of every resume: the model continues as if the
\* run had not been broken off ("interruption + resume with bit-identical
\* continuation", docs/training/REAL_TRAINING_RUNTIME.md:19).
ResumeIsExact == place \notin {"off", "restoring"} => weights = step

\* A run that has begun and is resumed whenever that is possible completes,
\* unless a kill left it RUNNING, it has no checkpoint, or one is in pieces.
Stuck ==
    /\ place = "off"
    /\ \/ runStatus = "RUNNING"
       \/ runStatus \in {"FAILED", "INTERRUPTED"} /\ ~Resumable

RunCompletes ==
    place # "off" /\ limit > 1 ~> runStatus = "COMPLETED" \/ Stuck
=============================================================================
