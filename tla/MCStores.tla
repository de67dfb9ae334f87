------------------------------ MODULE MCStores ------------------------------
(***************************************************************************)
(* Three parts of the system that work on files which other processes, or  *)
(* earlier ones, have left: the guest trial, a distortion run, and the     *)
(* loader of a training run.  They share no state, so each behaviour is of *)
(* one of them: subject says which.                                        *)
(***************************************************************************)
EXTENDS MCGuestTrial, DistortionRun, SampleLoader

VARIABLE subject

storesVars == <<subject, vars, distortionVars, loaderVars>>

\* A part that is not looked at stands in one configuration.
StoresInit ==
    /\ subject \in {"trial", "distortion", "loader"}
    /\ Init
    /\ DistortionInit
    /\ LoaderInit
    /\ subject # "loader" =>
         /\ \A e \in Epochs : visit[e] = visit[0] /\ lines[e] = lines[0]
         /\ owned = {} /\ dropLast /\ depth = 0

Of(part, Step) ==
    /\ subject = part /\ Step
    /\ subject' = subject
    /\ part # "trial" => UNCHANGED vars
    /\ part # "distortion" => UNCHANGED distortionVars
    /\ part # "loader" => UNCHANGED loaderVars

StoresNext ==
    \/ Of("trial", Next)
    \/ Of("distortion", DistortionNext)
    \/ Of("loader", LoaderNext)

StoresSpec == StoresInit /\ [][StoresNext]_storesVars

\* Type invariant of the stores.
StoresTypeOK == TypeOK /\ DistortionTypeOK /\ LoaderTypeOK
=============================================================================
