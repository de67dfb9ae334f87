----------------------------- MODULE MCKeyRouter -----------------------------
(***************************************************************************)
(* The key router for TLC: reservations and dispatches, circuits, and the  *)
(* switches of an account pool.  The code keeps the three in transactions  *)
(* and tables of their own and what one part leaves open (an endpoint that *)
(* is not eligible, an account that is not offered) is a choice in the     *)
(* others, so each behaviour is of one part: subject says which.           *)
(***************************************************************************)
EXTENDS MCRouterDispatch, Circuits, AccountSwitch

VARIABLE subject

MCProviderOf == [e \in Endpoints |-> CHOOSE p \in Providers : TRUE]

RouterInit ==
    /\ subject \in {"dispatch", "circuits", "switch"}
    /\ Init /\ CircuitsInit /\ SwitchInit
    /\ subject # "switch" => runtime.state = "DISABLED"

RouterNext ==
    \/ /\ subject = "dispatch" /\ Next
       /\ UNCHANGED <<subject, circuitsVars, switchVars>>
    \/ /\ subject = "circuits" /\ CircuitsNext
       /\ UNCHANGED <<subject, vars, switchVars>>
    \/ /\ subject = "switch" /\ SwitchNext
       /\ UNCHANGED <<subject, vars, circuitsVars>>

RouterSpec ==
    RouterInit /\ [][RouterNext]_<<subject, vars, circuitsVars, switchVars>>

\* Type invariant of the three parts.
RouterTypeOK == TypeOK /\ CircuitsTypeOK /\ SwitchTypeOK
=============================================================================
