---------------------------- MODULE ResultLease ----------------------------
(***************************************************************************)
(* What a conversion job promises its users: a lease on a result that is   *)
(* granted to one claim at a time, each with a token newer than all before *)
(* it, sealed with a verdict by its holder, and delivered once.            *)
(* ConversionJob is shown to implement this specification.                 *)
(***************************************************************************)
EXTENDS Naturals

CONSTANTS Outcomes    \* the verdicts a result can be delivered with

VARIABLES
    phase,     \* "open", "held", "sealed" or "delivered"
    holder,    \* the token of the claim that holds the lease, 0 when open
    issued,    \* the last token granted
    verdict    \* what the holder sealed, "none" before

leaseVars == <<phase, holder, issued, verdict>>

LeaseInit == phase = "open" /\ holder = 0 /\ issued = 0 /\ verdict = "none"

\* A claim is granted on a job nobody is working on; one that waits for its
\* finalization may be given to a new claim as well.
Grant ==
    /\ phase \in {"open", "sealed"}
    /\ phase' = "held"
    /\ issued' = issued + 1
    /\ holder' = issued + 1
    /\ verdict' = "none"

\* Failure, cancel and recovery end a claim.
Release ==
    /\ phase \in {"held", "sealed"}
    /\ phase' = "open"
    /\ holder' = 0
    /\ verdict' = "none"
    /\ UNCHANGED issued

SealVerdict ==
    /\ phase = "held"
    /\ phase' = "sealed"
    /\ verdict' \in Outcomes
    /\ UNCHANGED <<holder, issued>>

Unseal ==
    /\ phase = "sealed"
    /\ phase' = "held"
    /\ verdict' = "none"
    /\ UNCHANGED <<holder, issued>>

Deliver ==
    /\ phase = "sealed"
    /\ phase' = "delivered"
    /\ UNCHANGED <<holder, issued, verdict>>

LeaseNext == Grant \/ Release \/ SealVerdict \/ Unseal \/ Deliver

Spec == LeaseInit /\ [][LeaseNext]_leaseVars
=============================================================================
