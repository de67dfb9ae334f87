------------------------------- MODULE MCParts -------------------------------
(***************************************************************************)
(* Six parts of the system that work for themselves: the pages of one      *)
(* conversion, the tasks of the dashboard, a training run, a bundle of     *)
(* results, a run of the data factory, and the workspace of a dataset.     *)
(* They share no state, so each behaviour is of one of them: subject says  *)
(* which.                                                                  *)
(***************************************************************************)
EXTENDS PageConversion, DashboardTasks, TrainingRun, ResultsStore,
        FactoryRun, DatasetWorkspace

VARIABLE subject

vars == <<subject, pagesVars, tasksVars, trainingVars, resultsVars,
          factoryVars, datasetVars>>

\* What an analysis finds: one page of each verdict and of each reason for it
MCEvidences == {{"blank"}, {"near blank"}, {}, {"text"}, {"missing"},
                {"text", "usable", "distributed"},
                {"text", "usable", "distributed", "damaged"},
                {"text", "usable", "distributed", "layout risk"}}

\* Three samples of three documents, in another order than their documents.
\* The last one to arrive has the record of one and the file of another; the
\* first two have one text under one policy.
MCCorpora ==
    {[group |-> <<3, 1, 2>>, record |-> <<1, 2, 1>>, file |-> <<1, 2, 2>>,
      text |-> [p \in Policies |-> IF p = 1 THEN <<1, 1, 2>> ELSE <<1, 2, 3>>]]}

\* Documents in splits of their own, other ones with other ratios
MCPlace == [x \in Seeds \X Ratios \X Groups |->
    LET n == (x[2] + x[3]) % 3
    IN IF n = 0 THEN "train" ELSE IF n = 1 THEN "test" ELSE "holdout"]

\* A part that is not looked at stands in one configuration.
Init ==
    /\ subject \in {"pages", "tasks", "training", "results", "factory",
                   "dataset"}
    /\ PagesInit
    /\ IF subject = "pages"
         THEN \A p \in Numbers : legible[p] \/ IsTrusted(evidence[p])
         ELSE local /\ \A p \in Numbers : evidence[p] = {} /\ legible[p]
    /\ TasksInit
    /\ TrainingInit
    /\ subject # "training" => limit = CHOOSE n \in Limits : TRUE
    /\ ResultsInit
    /\ subject # "results" => rows["pages"] = <<>>
    /\ FactoryInit
    /\ LET d == CHOOSE e \in Documents : TRUE
       IN /\ contentOf[CHOOSE r \in Sources : TRUE] = d
          /\ subject # "factory" => \A r \in Sources : contentOf[r] = d
    /\ DatasetInit
    /\ present = SampleIds \ {SampleCount} /\ spoiled = {}
    /\ subject # "dataset" => corpus = CHOOSE c \in Corpora : TRUE

Others(part) ==
    /\ subject' = subject
    /\ part # "pages" => UNCHANGED pagesVars
    /\ part # "tasks" => UNCHANGED tasksVars
    /\ part # "training" => UNCHANGED trainingVars
    /\ part # "results" => UNCHANGED resultsVars
    /\ part # "factory" => UNCHANGED factoryVars
    /\ part # "dataset" => UNCHANGED datasetVars

Of(part, Step) == subject = part /\ Step /\ Others(part)

Next ==
    \/ Of("pages", PagesNext)
    \/ Of("tasks", TasksNext)
    \/ Of("training", TrainingNext)
    \/ Of("results", ResultsNext)
    \/ Of("factory", FactoryNext)
    \/ Of("dataset", DatasetNext)

\* The fairness of TasksSpec and of TrainingSpec
Fairness ==
    /\ \A t \in Tasks : WF_vars(Of("tasks", Runs(t)))
    /\ WF_vars(Of("training", Works /\ UNCHANGED limit))

Spec == Init /\ [][Next]_vars /\ Fairness

\* Type invariant of the parts.
PartsTypeOK ==
    /\ PagesTypeOK /\ TasksTypeOK /\ TrainingTypeOK
    /\ ResultsTypeOK /\ FactoryTypeOK /\ DatasetTypeOK

\* A queued task ends, and ends once (_run, _recover_unfinished).  Nothing in
\* the steps, the fairness or the instance tells one task from another: what
\* one of them always comes to, each does (QueuedTaskEnds).
TasksEnd == EndIsFinal /\ TaskEnds(CHOOSE t \in Tasks : TRUE)
=============================================================================
