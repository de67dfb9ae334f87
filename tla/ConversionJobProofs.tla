------------------------ MODULE ConversionJobProofs ------------------------
(***************************************************************************)
(* Proofs about ConversionJob for any number of workers, concurrent        *)
(* requests and claims.                                                    *)
(*                                                                         *)
(* The inductive invariant IInv adds to the invariants of the runs what    *)
(* the requests in progress know: which handler is at which point          *)
(* (CallOK), that a DOCX has been promoted before the row is completed     *)
(* (PromotedOK), and that an unchanged updated_at means an unchanged claim *)
(* (FreshOK).  LInv adds the history of a claim, from which the refinement *)
(* of ResultLease follows: it is uploaded, and so sealed, at most once.    *)
(***************************************************************************)
EXTENDS ConversionJob, TLAPS

\* Messages of workers carry their name; each point belongs to its handlers.
Fits(r) ==
    /\ r.op \in {"start", "heartbeat", "result", "failure"} => r.by \in Workers
    /\ r.at \in {"expire", "recheck", "claim", "answer"} => r.op = "start"
    /\ r.at = "beat" => r.op \in {"start", "heartbeat"}
    /\ r.at \in {"prepare", "replace", "rollback", "complete"} => r.op = "result"
    /\ r.at = "fail" => r.op = "failure"
    /\ r.op = "result" => r.want \in Outcomes
    /\ r.at \in {"look", "adopt"} => r.want \in Outcomes

CallOK == \A c \in Calls : Fits(call[c])

\* A call completes a finalization only after a DOCX is in place.
PromotedOK ==
    \A c \in Calls :
        /\ call[c].at \in {"replace", "rollback", "complete"} => call[c].tok # 0
        /\ call[c].at \in {"adopt", "complete"} => file # NoFile

\* While updated_at is the observed one, so are worker_name and claim_token.
Holding == {"look", "adopt", "abandon", "expire"}

FreshOK ==
    \A c \in fresh :
        call[c].at \in Holding => call[c].own = owner /\ call[c].seen = token

CallsOK == CallOK /\ PromotedOK /\ FreshOK

RowOK == /\ ActiveClaimIsNewest /\ FinalizingIsRecoverable
         /\ DeliveredResultExists /\ AckedUploadWon

IInv == TypeOK /\ RowOK /\ CallsOK

-----------------------------------------------------------------------------
(* How a step changes the requests and the workers. *)

\* What a worker does after a reply is one of its modes again (run_remote_job).
LEMMA AfterReplyType ==
    ASSUME NEW s \in WorkerStates, NEW ok \in BOOLEAN, NEW t \in 0..MaxClaims
    PROVE  AfterReply(s, ok, t) \in WorkerStates
  BY MaxClaimsAssumption DEF AfterReply, WorkerStates, Modes, Asleep

\* Ending a request keeps the types of requests and workers.
LEMMA ReplyType ==
    ASSUME TypeOK, NEW c \in Calls, NEW ok \in BOOLEAN, NEW t \in 0..MaxClaims,
           Reply(c, ok, t)
    PROVE  /\ call' \in [Calls -> Requests]
           /\ worker' \in [Workers -> WorkerStates]
  <1>1. Idle \in Requests
    BY MaxClaimsAssumption DEF Idle, Requests, Ops, Points
  <1>2. call' \in [Calls -> Requests]
    BY <1>1 DEF Reply, TypeOK
  <1>3. \A w \in Workers : AfterReply(worker[w], ok, t) \in WorkerStates
    BY AfterReplyType DEF TypeOK
  <1>4. worker' \in [Workers -> WorkerStates]
    BY <1>3 DEF Reply, TypeOK
  <1> QED BY <1>2, <1>4

\* Moving a request to another point keeps the types.
LEMMA GotoType ==
    ASSUME TypeOK, NEW c \in Calls, NEW p \in Points, Goto(c, p)
    PROVE  /\ call' \in [Calls -> Requests]
           /\ worker' \in [Workers -> WorkerStates]
  BY DEF Goto, TypeOK, Requests

\* So does keeping the row that was read.
LEMMA GotoWithRowType ==
    ASSUME TypeOK, NEW c \in Calls, NEW p \in Points, GotoWithRow(c, p)
    PROVE  /\ call' \in [Calls -> Requests]
           /\ worker' \in [Workers -> WorkerStates]
           /\ fresh' \subseteq Calls
  <1> DEFINE r == [op |-> call[c].op, at |-> p, by |-> call[c].by,
                   tok |-> call[c].tok, want |-> intended,
                   own |-> owner, seen |-> token]
  <1>1. call[c] \in Requests
    BY DEF TypeOK
  <1>2. r \in Requests
    BY <1>1 DEF TypeOK, Requests
  <1>3. call' = [call EXCEPT ![c] = r]
    BY DEF GotoWithRow
  <1>4. call' \in [Calls -> Requests]
    <2> HIDE DEF r
    <2> QED BY <1>2, <1>3 DEF TypeOK
  <1> QED BY <1>4 DEF GotoWithRow, TypeOK
\* A new message is a request.
LEMMA MessageType ==
    ASSUME NEW op \in Ops, NEW w \in Workers \cup {NoWorker},
           NEW t \in 0..MaxClaims, NEW want \in Outcomes \cup {"none"}
    PROVE  Message(op, w, t, want) \in Requests
  <1>1. "read" \in Points /\ 0 \in 0..MaxClaims /\ NoWorker \in Workers \cup {NoWorker}
    BY MaxClaimsAssumption DEF Points
  <1> QED BY <1>1 DEF Message, Requests

\* Sending a message keeps the types.
LEMMA SendType ==
    ASSUME TypeOK, NEW w \in Workers, NEW c \in Calls, NEW op \in Ops,
           NEW t \in 0..MaxClaims, NEW want \in Outcomes \cup {"none"},
           NEW mode \in Modes, Send(w, c, op, t, want, mode)
    PROVE  TypeOK'
  <1>1. call' \in [Calls -> Requests]
    BY MessageType DEF Send, TypeOK
  <1>2. worker' \in [Workers -> WorkerStates]
    BY DEF Send, TypeOK, WorkerStates
  <1> QED BY <1>1, <1>2 DEF Send, TypeOK, rowVars

-----------------------------------------------------------------------------
(* Type correctness, which needs CallOK and PromotedOK: the status a result  *)
(* call delivers is an outcome, and the token it writes the file under is    *)
(* one that was granted.                                                     *)

\* The branches of start_job on a row it has read keep the types.
LEMMA DispatchType ==
    ASSUME TypeOK, NEW c \in Calls, DispatchStart(c)
    PROVE  /\ call' \in [Calls -> Requests]
           /\ worker' \in [Workers -> WorkerStates]
           /\ fresh' \subseteq Calls
  <1>0. 0 \in 0..MaxClaims
    BY MaxClaimsAssumption
  <1>1. CASE Reply(c, FALSE, 0) /\ UNCHANGED fresh
    BY <1>0, <1>1, ReplyType DEF TypeOK
  <1>2. CASE \E p \in {"requeue", "claim", "beat"} : Goto(c, p) /\ UNCHANGED fresh
    BY <1>2, GotoType DEF TypeOK, Points
  <1>3. CASE GotoWithRow(c, "expire")
    BY <1>3, GotoWithRowType DEF Points
  <1> QED BY <1>1, <1>2, <1>3 DEF DispatchStart
-----------------------------------------------------------------------------
(* How a step changes what the requests know. *)

\* Observations of updated_at stay current only while the claim stays.
KeptFresh == \/ fresh' = {}
             \/ fresh' \subseteq fresh /\ owner' = owner /\ token' = token

\* An idle slot knows nothing.
LEMMA ReplyCalls ==
    ASSUME IInv, NEW c \in Calls, NEW ok, NEW t, Reply(c, ok, t),
           UNCHANGED file, KeptFresh
    PROVE  CallsOK'
  <1>1. call' = [call EXCEPT ![c] = Idle]
    BY DEF Reply
  <1>2. call'[c] = Idle /\ \A x \in Calls \ {c} : call'[x] = call[x]
    BY <1>1 DEF IInv, TypeOK
  <1>3. CallOK'
    BY <1>2 DEF IInv, CallsOK, CallOK, Fits, Idle
  <1>4. PromotedOK'
    BY <1>2 DEF IInv, CallsOK, PromotedOK, Idle
  <1>5. FreshOK'
    BY <1>2 DEF IInv, CallsOK, FreshOK, Idle, TypeOK, Holding, KeptFresh
  <1> QED BY <1>3, <1>4, <1>5 DEF CallsOK

\* What moving to point p asks of a request.
MayMove(c, p) ==
    /\ p \in {"expire", "recheck", "claim", "answer"} => call[c].op = "start"
    /\ p = "beat" => call[c].op \in {"start", "heartbeat"}
    /\ p \in {"prepare", "replace", "rollback", "complete"} => call[c].op = "result"
    /\ p = "fail" => call[c].op = "failure"
    /\ p \in {"look", "adopt"} => call[c].want \in Outcomes
    /\ p \in {"replace", "rollback", "complete"} => call[c].tok # 0
    /\ p \in {"adopt", "complete"} => file' # NoFile
    /\ p \in Holding => call[c].at \in Holding

\* A request that moves knows what its new point requires.
LEMMA GotoCalls ==
    ASSUME IInv, NEW c \in Calls, NEW p \in Points, Goto(c, p), MayMove(c, p),
           file # NoFile => file' # NoFile, KeptFresh
    PROVE  CallsOK'
  <1>1. /\ call'[c].at = p
        /\ call'[c].op = call[c].op /\ call'[c].by = call[c].by
        /\ call'[c].tok = call[c].tok /\ call'[c].want = call[c].want
        /\ call'[c].own = call[c].own /\ call'[c].seen = call[c].seen
        /\ \A x \in Calls \ {c} : call'[x] = call[x]
    BY DEF Goto, IInv, TypeOK, Requests
  <1>2. CallOK'
    BY <1>1 DEF IInv, CallsOK, CallOK, Fits, MayMove
  <1>3. PromotedOK'
    BY <1>1 DEF IInv, CallsOK, PromotedOK, MayMove
  <1>4. FreshOK'
    BY <1>1 DEF IInv, CallsOK, FreshOK, TypeOK, KeptFresh, MayMove
  <1> QED BY <1>2, <1>3, <1>4 DEF CallsOK

\* A request that keeps the row it read knows the row's claim.
LEMMA GotoWithRowCalls ==
    ASSUME IInv, NEW c \in Calls, NEW p \in {"look", "expire"},
           GotoWithRow(c, p), p = "expire" => call[c].op = "start",
           p = "look" => status = "finalizing",
           call[c].op # "result",
           UNCHANGED <<file, owner, token>>
    PROVE  CallsOK'
  <1>1. /\ call'[c].at = p
        /\ call'[c].op = call[c].op /\ call'[c].by = call[c].by
        /\ call'[c].tok = call[c].tok /\ call'[c].want = intended
        /\ call'[c].own = owner /\ call'[c].seen = token
        /\ \A x \in Calls \ {c} : call'[x] = call[x]
    BY DEF GotoWithRow, IInv, TypeOK
  <1>2. CallOK'
    BY <1>1 DEF IInv, RowOK, FinalizingIsRecoverable, CallsOK, CallOK, Fits
  <1>3. PromotedOK'
    BY <1>1 DEF IInv, CallsOK, PromotedOK
  <1>4. FreshOK'
    BY <1>1 DEF IInv, CallsOK, FreshOK, TypeOK, GotoWithRow
  <1> QED BY <1>2, <1>3, <1>4 DEF CallsOK

-----------------------------------------------------------------------------
(* Type correctness of the steps. *)

\* A step of a handler ends its request or moves it on.
Handled(c) ==
    \/ \E ok \in BOOLEAN, t \in 0..MaxClaims : Reply(c, ok, t)
    \/ \E p \in Points : Goto(c, p)

\* Either way requests and workers keep their types.
LEMMA HandledType ==
    ASSUME TypeOK, NEW c \in Calls, Handled(c)
    PROVE  /\ call' \in [Calls -> Requests]
           /\ worker' \in [Workers -> WorkerStates]
  BY ReplyType, GotoType DEF Handled

\* Every step of a request preserves the types: the outcome a request delivers
\* and the token it writes a DOCX under are those of a claim (server handlers).
LEMMA ServerType ==
    ASSUME IInv, NEW c \in Calls, ServerStep(c)
    PROVE  TypeOK'
  <1> USE MaxClaimsAssumption DEF IInv
  <1>0. call[c] \in Requests /\ 0 \in 0..MaxClaims /\ Fits(call[c])
    BY DEF TypeOK, CallsOK, CallOK
  <1>1. CASE StartReads(c)
    <2>1. /\ call' \in [Calls -> Requests]
          /\ worker' \in [Workers -> WorkerStates]
          /\ fresh' \subseteq Calls
      BY <1>0, <1>1, HandledType, DispatchType, GotoWithRowType
      DEF StartReads, Handled, Points, TypeOK
    <2> QED BY <1>1, <2>1 DEF StartReads, TypeOK, rowVars
  <1>2. CASE Expire(c)
    <2>1. Handled(c)
      BY <1>0, <1>2 DEF Expire, Handled, Points, TypeOK
    <2> QED BY <1>0, <1>2, <2>1, HandledType
            DEF Expire, rowVars, Touch, TypeOK, Statuses
  <1>3. CASE Recheck(c)
    <2>1. Handled(c)
      BY <1>0, <1>3 DEF Recheck, Handled, Points, TypeOK
    <2> QED BY <1>3, <2>1, HandledType DEF Recheck, rowVars, TypeOK
  <1>4. CASE Requeue(c)
    <2>1. Handled(c)
      BY <1>0, <1>4 DEF Requeue, Handled, Points, TypeOK
    <2> QED BY <1>4, <2>1, HandledType
            DEF Requeue, rowVars, Touch, MoveTo, TypeOK, Statuses
  <1>5. CASE Claim(c)
    <2>1. Handled(c)
      BY <1>0, <1>5 DEF Claim, Handled, Points, TypeOK
    <2>2. claims' \in 0..MaxClaims /\ token' \in 0..MaxClaims
      <3>1. claims < MaxClaims => claims + 1 \in 0..MaxClaims
        BY DEF TypeOK
      <3> QED BY <1>5, <3>1 DEF Claim, TypeOK, rowVars, GrantClaim
    <2>3. status' \in Statuses /\ owner' \in Workers \cup {NoWorker}
      BY <1>0, <1>5 DEF Claim, TypeOK, rowVars, GrantClaim, Statuses, Fits
    <2> QED BY <1>5, <2>1, <2>2, <2>3, HandledType
            DEF Claim, TypeOK, rowVars, Touch
  <1>6. CASE Answer(c)
    <2>1. Handled(c)
      BY <1>0, <1>6 DEF Answer, Handled, Points, TypeOK
    <2> QED BY <1>6, <2>1, HandledType DEF Answer, rowVars, TypeOK
  <1>7. CASE ViewReads(c)
    <2>1. /\ call' \in [Calls -> Requests]
          /\ worker' \in [Workers -> WorkerStates]
          /\ fresh' \subseteq Calls
      BY <1>0, <1>7, HandledType, GotoWithRowType
      DEF ViewReads, Handled, Points, TypeOK
    <2> QED BY <1>7, <2>1 DEF ViewReads, TypeOK, rowVars
  <1>8. CASE Look(c)
    <2>1. Handled(c)
      BY <1>0, <1>8 DEF Look, Handled, Points, TypeOK
    <2> QED BY <1>8, <2>1, HandledType DEF Look, rowVars, Forget, TypeOK
  <1>9. CASE Adopt(c)
    <2>1. Handled(c)
      BY <1>0, <1>9 DEF Adopt, Handled, Points, TypeOK
    <2> QED BY <1>0, <1>9, <2>1, HandledType
            DEF Adopt, rowVars, Touch, Deliver, TypeOK, Statuses, Outcomes,
                Fits
  <1>10. CASE Abandon(c)
    <2>1. Handled(c)
      BY <1>0, <1>10 DEF Abandon, Handled, Points, TypeOK
    <2> QED BY <1>0, <1>10, <2>1, HandledType
            DEF Abandon, rowVars, Touch, ClearResult, TypeOK, Statuses
  <1>11. CASE Reread(c)
    <2>1. /\ call' \in [Calls -> Requests]
          /\ worker' \in [Workers -> WorkerStates]
          /\ fresh' \subseteq Calls
      BY <1>0, <1>11, HandledType, DispatchType
      DEF Reread, Handled, Points, TypeOK
    <2> QED BY <1>11, <2>1 DEF Reread, TypeOK, rowVars
  <1>12. CASE HeartbeatReads(c)
    <2>1. Handled(c)
      BY <1>0, <1>12 DEF HeartbeatReads, Handled, Points, TypeOK
    <2> QED BY <1>12, <2>1, HandledType DEF HeartbeatReads, rowVars, TypeOK
  <1>13. CASE Beat(c)
    <2>1. Handled(c)
      BY <1>0, <1>13 DEF Beat, Handled, Points, TypeOK
    <2> QED BY <1>0, <1>13, <2>1, HandledType
            DEF Beat, rowVars, Touch, TypeOK, Statuses, Fits
  <1>14. CASE ResultReads(c)
    <2>1. Handled(c)
      BY <1>0, <1>14 DEF ResultReads, Handled, Points, TypeOK
    <2> QED BY <1>14, <2>1, HandledType DEF ResultReads, rowVars, TypeOK
  <1>15. CASE Prepare(c)
    <2>1. Handled(c)
      BY <1>0, <1>15 DEF Prepare, Handled, Points, TypeOK
    <2> QED BY <1>0, <1>15, <2>1, HandledType
            DEF Prepare, rowVars, Touch, Seal, TypeOK, Statuses, Fits, Requests
  <1>16. CASE Replace(c)
    <2>1. Handled(c)
      BY <1>0, <1>16 DEF Replace, Handled, Points, TypeOK
    <2> QED BY <1>0, <1>16, <2>1, HandledType
            DEF Replace, rowVars, TypeOK, Tokens, Requests, CallsOK, PromotedOK
  <1>17. CASE Rollback(c)
    <2>1. Handled(c)
      BY <1>0, <1>17 DEF Rollback, Handled, Points, TypeOK
    <2> QED BY <1>17, <2>1, HandledType
            DEF Rollback, rowVars, Touch, ClearResult, TypeOK, Statuses
  <1>18. CASE Complete(c)
    <2>1. Handled(c)
      BY <1>0, <1>18 DEF Complete, Handled, Points, TypeOK
    <2>2. call[c].tok \in Tokens /\ call[c].want \in Outcomes
      BY <1>0, <1>18 DEF Complete, CallsOK, PromotedOK, Requests, Tokens, Fits
    <2>3. acked' \subseteq Tokens
      BY <1>18, <2>2 DEF Complete, TypeOK
    <2> QED BY <1>18, <2>1, <2>2, <2>3, HandledType
            DEF Complete, TypeOK, rowVars, Deliver, Touch, Statuses
  <1>19. CASE FailReads(c)
    <2>1. Handled(c)
      <3>1. (status \in Outcomes \cup {"failed"}) \in BOOLEAN
        OBVIOUS
      <3> QED BY <1>0, <1>19, <3>1 DEF FailReads, Handled, Points, TypeOK
    <2> QED BY <1>19, <2>1, HandledType DEF FailReads, rowVars, TypeOK
  <1>20. CASE MarkFailed(c)
    <2>1. Handled(c)
      BY <1>0, <1>20 DEF MarkFailed, Handled, Points, TypeOK
    <2> QED BY <1>0, <1>20, <2>1, HandledType
            DEF MarkFailed, rowVars, Touch, TypeOK, Statuses, Fits
  <1>21. CASE RetryReads(c)
    <2>1. Handled(c)
      BY <1>0, <1>21 DEF RetryReads, Handled, Points, TypeOK
    <2> QED BY <1>21, <2>1, HandledType DEF RetryReads, rowVars, TypeOK
  <1> QED BY <1>1, <1>2, <1>3, <1>4, <1>5, <1>6, <1>7, <1>8, <1>9, <1>10,
             <1>11, <1>12, <1>13, <1>14, <1>15, <1>16, <1>17, <1>18, <1>19,
             <1>20, <1>21
          DEF ServerStep

-----------------------------------------------------------------------------
(* What the requests know is preserved. *)

Ends(c) ==
    /\ \E ok \in BOOLEAN, t \in 0..MaxClaims : Reply(c, ok, t)
    /\ UNCHANGED file
    /\ KeptFresh

Moves(c) ==
    /\ \E p \in Points : Goto(c, p) /\ MayMove(c, p)
    /\ file # NoFile => file' # NoFile
    /\ KeptFresh

Reads(c) ==
    /\ \E p \in {"look", "expire"} :
          /\ GotoWithRow(c, p)
          /\ p = "expire" => call[c].op = "start"
          /\ p = "look" => status = "finalizing"
    /\ call[c].op # "result"
    /\ UNCHANGED <<file, owner, token>>

\* Whatever a request does next, what the requests know stays true.
LEMMA CallsKept ==
    ASSUME IInv, NEW c \in Calls, Ends(c) \/ Moves(c) \/ Reads(c)
    PROVE  CallsOK'
  <1>1. CASE Ends(c)
    BY <1>1, ReplyCalls DEF Ends
  <1>2. CASE Moves(c)
    BY <1>2, GotoCalls DEF Moves
  <1>3. CASE Reads(c)
    BY <1>3, GotoWithRowCalls DEF Reads
  <1> QED BY <1>1, <1>2, <1>3

\* No handler's step breaks what any request in progress knows.
LEMMA ServerCalls ==
    ASSUME IInv, NEW c \in Calls, ServerStep(c)
    PROVE  CallsOK'
  <1>0. /\ call[c] \in Requests /\ 0 \in 0..MaxClaims /\ Fits(call[c])
        /\ token \in 0..MaxClaims
        /\ call[c].at \in {"replace", "rollback", "complete"} => call[c].tok # 0
        /\ call[c].at \in {"adopt", "complete"} => file # NoFile
        /\ status = "processing" => token # 0
    BY MaxClaimsAssumption DEF IInv, TypeOK, CallsOK, CallOK, PromotedOK,
                               RowOK, ActiveClaimIsNewest
  <1>1. CASE StartReads(c)
    <2>1. Ends(c) \/ Moves(c) \/ Reads(c)
      BY <1>0, <1>1
      DEF StartReads, rowVars, DispatchStart, Ends, Moves, Reads, KeptFresh,
          MayMove, Holding, Points, Fits, Requests
    <2> QED BY <2>1, CallsKept
  <1>2. CASE Expire(c)
    <2>1. Moves(c)
      BY <1>0, <1>2
      DEF Expire, rowVars, Touch, Moves, KeptFresh, MayMove, Holding, Points,
          Fits, Requests
    <2> QED BY <2>1, CallsKept
  <1>3. CASE Recheck(c)
    <2>1. Ends(c) \/ Moves(c)
      BY <1>0, <1>3
      DEF Recheck, rowVars, Ends, Moves, KeptFresh, MayMove, Holding, Points,
          Fits, Requests
    <2> QED BY <2>1, CallsKept
  <1>4. CASE Requeue(c)
    <2>1. Ends(c) \/ Moves(c)
      BY <1>0, <1>4
      DEF Requeue, rowVars, Touch, MoveTo, Ends, Moves, KeptFresh, MayMove,
          Holding, Points, Fits, Requests
    <2> QED BY <2>1, CallsKept
  <1>5. CASE Claim(c)
    <2>1. Ends(c) \/ Moves(c)
      BY <1>0, <1>5
      DEF Claim, rowVars, Touch, GrantClaim, Ends, Moves, KeptFresh, MayMove,
          Holding, Points, Fits, Requests
    <2> QED BY <2>1, CallsKept
  <1>6. CASE Answer(c)
    <2>1. Ends(c)
      BY <1>0, <1>6 DEF Answer, rowVars, Ends, KeptFresh
    <2> QED BY <2>1, CallsKept
  <1>7. CASE ViewReads(c)
    <2>1. Ends(c) \/ Reads(c)
      BY <1>0, <1>7 DEF ViewReads, rowVars, Ends, Reads, KeptFresh
    <2> QED BY <2>1, CallsKept
  <1>8. CASE Look(c)
    <2>0. HasResult => file # NoFile
      BY MaxClaimsAssumption DEF HasResult, Tokens, NoFile
    <2>1. Ends(c) \/ Moves(c)
      BY <1>0, <1>8, <2>0
      DEF Look, rowVars, Forget, Ends, Moves, KeptFresh, MayMove, Holding,
          Points, Fits, Requests
    <2> QED BY <2>1, CallsKept
  <1>9. CASE Adopt(c)
    <2>1. Ends(c) \/ Moves(c)
      BY <1>0, <1>9
      DEF Adopt, rowVars, Touch, Deliver, Ends, Moves, KeptFresh, MayMove,
          Holding, Points, Fits, Requests
    <2> QED BY <2>1, CallsKept
  <1>10. CASE Abandon(c)
    <2>1. Moves(c)
      BY <1>0, <1>10
      DEF Abandon, rowVars, Touch, ClearResult, Moves, KeptFresh, MayMove,
          Holding, Points, Fits, Requests
    <2> QED BY <2>1, CallsKept
  <1>11. CASE Reread(c)
    <2>1. Ends(c) \/ Moves(c) \/ Reads(c)
      BY <1>0, <1>11
      DEF Reread, rowVars, DispatchStart, Ends, Moves, Reads, KeptFresh,
          MayMove, Holding, Points, Fits, Requests
    <2> QED BY <2>1, CallsKept
  <1>12. CASE HeartbeatReads(c)
    <2>1. Ends(c) \/ Moves(c)
      BY <1>0, <1>12
      DEF HeartbeatReads, rowVars, Ends, Moves, KeptFresh, MayMove, Holding,
          Points, Fits, Requests
    <2> QED BY <2>1, CallsKept
  <1>13. CASE Beat(c)
    <2>1. Ends(c) \/ Moves(c)
      BY <1>0, <1>13
      DEF Beat, rowVars, Touch, Ends, Moves, KeptFresh, MayMove, Holding,
          Points, Fits, Requests
    <2> QED BY <2>1, CallsKept
  <1>14. CASE ResultReads(c)
    <2>1. Ends(c) \/ Moves(c)
      BY <1>0, <1>14
      DEF ResultReads, rowVars, Ends, Moves, KeptFresh, MayMove, Holding,
          Points, Fits, Requests
    <2> QED BY <2>1, CallsKept
  <1>15. CASE Prepare(c)
    <2>1. Ends(c) \/ Moves(c)
      BY <1>0, <1>15
      DEF Prepare, rowVars, Touch, Seal, Ends, Moves, KeptFresh, MayMove,
          Holding, Points, Fits, Requests, OwnsProcessing, Outcomes
    <2> QED BY <2>1, CallsKept
  <1>16. CASE Replace(c)
    <2>1. Moves(c)
      BY <1>0, <1>16
      DEF Replace, rowVars, Moves, KeptFresh, MayMove, Holding, Points, Fits,
          Requests, NoFile
    <2> QED BY <2>1, CallsKept
  <1>17. CASE Rollback(c)
    <2>1. Ends(c)
      BY <1>0, <1>17 DEF Rollback, rowVars, Touch, ClearResult, Ends, KeptFresh
    <2> QED BY <2>1, CallsKept
  <1>18. CASE Complete(c)
    <2>1. Ends(c)
      BY <1>0, <1>18 DEF Complete, rowVars, Touch, Deliver, Ends, KeptFresh
    <2> QED BY <2>1, CallsKept
  <1>19. CASE FailReads(c)
    <2>0. (status \in Outcomes \cup {"failed"}) \in BOOLEAN
      OBVIOUS
    <2>1. Ends(c) \/ Moves(c)
      BY <1>0, <1>19, <2>0
      DEF FailReads, rowVars, Ends, Moves, KeptFresh, MayMove, Holding, Points,
          Fits, Requests
    <2> QED BY <2>1, CallsKept
  <1>20. CASE MarkFailed(c)
    <2>1. Ends(c)
      BY <1>0, <1>20 DEF MarkFailed, rowVars, Touch, Ends, KeptFresh
    <2> QED BY <2>1, CallsKept
  <1>21. CASE RetryReads(c)
    <2>1. Ends(c) \/ Moves(c)
      BY <1>0, <1>21
      DEF RetryReads, rowVars, Ends, Moves, KeptFresh, MayMove, Holding,
          Points, Fits, Requests
    <2> QED BY <2>1, CallsKept
  <1> QED BY <1>1, <1>2, <1>3, <1>4, <1>5, <1>6, <1>7, <1>8, <1>9, <1>10,
             <1>11, <1>12, <1>13, <1>14, <1>15, <1>16, <1>17, <1>18, <1>19,
             <1>20, <1>21
          DEF ServerStep

-----------------------------------------------------------------------------
(* The invariants of the row are preserved. *)

\* A step that leaves the row alone and deletes no DOCX.
RowKept == /\ UNCHANGED <<rowVars, acked>>
           /\ file # NoFile => file' # NoFile

LEMMA RowStutter ==
    ASSUME RowOK, RowKept
    PROVE  RowOK'
  BY DEF RowOK, RowKept, rowVars, ActiveClaimIsNewest, FinalizingIsRecoverable,
         DeliveredResultExists, AckedUploadWon

\* No update of a handler leaves an active row without its newest claim, a
\* finalization that cannot be recovered, a delivery without its DOCX, or an
\* acknowledged upload that did not win (all of database.py's conversion calls).
LEMMA ServerRow ==
    ASSUME IInv, NEW c \in Calls, ServerStep(c)
    PROVE  RowOK'
  <1> USE MaxClaimsAssumption, NoWorkerAssumption
      DEF RowOK, ActiveClaimIsNewest, FinalizingIsRecoverable,
          DeliveredResultExists, AckedUploadWon
  <1>0. /\ RowOK /\ TypeOK /\ Fits(call[c]) /\ call[c] \in Requests
        /\ call[c].at \in {"replace", "rollback", "complete"} => call[c].tok # 0
        /\ call[c].at \in {"adopt", "complete"} => file # NoFile
    BY DEF IInv, TypeOK, CallsOK, CallOK, PromotedOK
  <1>1. CASE StartReads(c)
    BY <1>0, <1>1, RowStutter DEF RowKept, StartReads
  <1>2. CASE Expire(c)
    BY <1>0, <1>2 DEF Expire, rowVars, Touch, Outcomes, TypeOK, Fits
  <1>3. CASE Recheck(c)
    BY <1>0, <1>3, RowStutter DEF RowKept, Recheck
  <1>4. CASE Requeue(c)
    BY <1>0, <1>4
    DEF Requeue, rowVars, Touch, MoveTo, CanTransition, Allowed, Outcomes,
        TypeOK, Fits
  <1>5. CASE Claim(c)
    <2>1. call[c].by \in Workers
      BY <1>0, <1>5 DEF Claim, Fits
    <2>2. status \notin Outcomes \/ UNCHANGED rowVars
      BY <1>5 DEF Claim, CanTransition, Allowed, Outcomes
    <2>3. acked' = acked
      BY <1>5 DEF Claim
    <2>4. CASE /\ status # "processing" /\ CanTransition("processing")
               /\ GrantClaim(call[c].by) /\ UNCHANGED <<intended, scores>>
      <3>1. claims + 1 # 0 /\ status \notin Outcomes
        BY <1>0, <2>4 DEF TypeOK, CanTransition, Allowed, Outcomes
      <3> QED BY <1>0, <2>1, <2>3, <2>4, <3>1 DEF GrantClaim, Outcomes
    <2>5. CASE /\ status = "processing" /\ owner' = call[c].by
               /\ UNCHANGED <<status, token, claims, intended, scores>>
      BY <1>0, <2>1, <2>3, <2>5 DEF Outcomes
    <2>6. CASE UNCHANGED rowVars
      BY <1>0, <1>5, <2>6, RowStutter DEF RowKept, Claim
    <2> QED BY <1>5, <2>4, <2>5, <2>6 DEF Claim
  <1>6. CASE Answer(c)
    BY <1>0, <1>6, RowStutter DEF RowKept, Answer
  <1>7. CASE ViewReads(c)
    BY <1>0, <1>7, RowStutter DEF RowKept, ViewReads
  <1>8. CASE Look(c)
    BY <1>0, <1>8, RowStutter DEF RowKept, Look
  <1>9. CASE Adopt(c)
    BY <1>0, <1>9
    DEF Adopt, rowVars, Touch, Deliver, OwnsFinalization, Outcomes, TypeOK,
        Fits
  <1>10. CASE Abandon(c)
    BY <1>0, <1>10
    DEF Abandon, rowVars, Touch, ClearResult, Outcomes, TypeOK, Fits
  <1>11. CASE Reread(c)
    BY <1>0, <1>11, RowStutter DEF RowKept, Reread
  <1>12. CASE HeartbeatReads(c)
    BY <1>0, <1>12, RowStutter DEF RowKept, HeartbeatReads
  <1>13. CASE Beat(c)
    BY <1>0, <1>13 DEF Beat, rowVars, Touch, Outcomes, TypeOK, Fits
  <1>14. CASE ResultReads(c)
    BY <1>0, <1>14, RowStutter DEF RowKept, ResultReads
  <1>15. CASE Prepare(c)
    BY <1>0, <1>15
    DEF Prepare, rowVars, Touch, Seal, OwnsProcessing, Outcomes, TypeOK, Fits
  <1>16. CASE Replace(c)
    BY <1>0, <1>16, RowStutter DEF RowKept, Replace, NoFile
  <1>17. CASE Rollback(c)
    BY <1>0, <1>17
    DEF Rollback, rowVars, Touch, ClearResult, OwnsFinalization, Outcomes,
        TypeOK, Fits
  <1>18. CASE Complete(c)
    BY <1>0, <1>18
    DEF Complete, rowVars, Touch, Deliver, OwnsFinalization, Outcomes, TypeOK,
        Fits
  <1>19. CASE FailReads(c)
    BY <1>0, <1>19, RowStutter DEF RowKept, FailReads
  <1>20. CASE MarkFailed(c)
    BY <1>0, <1>20
    DEF MarkFailed, rowVars, Touch, CanTransition, Allowed, Outcomes, TypeOK,
        Fits
  <1>21. CASE RetryReads(c)
    BY <1>0, <1>21, RowStutter DEF RowKept, RetryReads
  <1> QED BY <1>1, <1>2, <1>3, <1>4, <1>5, <1>6, <1>7, <1>8, <1>9, <1>10,
             <1>11, <1>12, <1>13, <1>14, <1>15, <1>16, <1>17, <1>18, <1>19,
             <1>20, <1>21
          DEF ServerStep

-----------------------------------------------------------------------------
(* Workers, users and faults. *)

\* Only workers move: what the row and the requests know is not concerned.
LEMMA AsideStep ==
    ASSUME IInv, worker' \in [Workers -> WorkerStates],
           UNCHANGED <<rowVars, file, fresh, call, acked>>
    PROVE  IInv'
  BY DEF IInv, TypeOK, rowVars, RowOK, ActiveClaimIsNewest,
         FinalizingIsRecoverable, DeliveredResultExists, AckedUploadWon,
         CallsOK, CallOK, PromotedOK, FreshOK

\* A new request knows nothing yet but who sent it and what it announces.
LEMMA PostStep ==
    ASSUME IInv, NEW c \in Calls, NEW op \in Ops,
           NEW w \in Workers \cup {NoWorker}, NEW t \in 0..MaxClaims,
           NEW want \in Outcomes \cup {"none"},
           op \in {"start", "heartbeat", "result", "failure"} => w \in Workers,
           op = "result" => want \in Outcomes,
           call' = [call EXCEPT ![c] = Message(op, w, t, want)],
           worker' \in [Workers -> WorkerStates],
           UNCHANGED <<rowVars, file, fresh, acked>>
    PROVE  IInv'
  <1>1. Message(op, w, t, want) \in Requests
    BY MessageType
  <1>2. TypeOK'
    BY <1>1 DEF IInv, TypeOK, rowVars
  <1>3. RowOK'
    BY RowStutter DEF IInv, RowKept
  <1>4. /\ call'[c] = Message(op, w, t, want)
        /\ \A x \in Calls \ {c} : call'[x] = call[x]
    BY DEF IInv, TypeOK
  <1>5. CallOK'
    BY <1>4 DEF IInv, CallsOK, CallOK, Fits, Message
  <1>6. PromotedOK'
    BY <1>4 DEF IInv, CallsOK, PromotedOK, Message
  <1>7. FreshOK'
    BY <1>4 DEF IInv, CallsOK, FreshOK, Message, rowVars, TypeOK, Holding
  <1> QED BY <1>2, <1>3, <1>5, <1>6, <1>7 DEF IInv, CallsOK

\* A worker's message, for which it then waits.
LEMMA SendStep ==
    ASSUME IInv, NEW w \in Workers, NEW c \in Calls,
           NEW op \in {"start", "result", "failure"}, NEW t \in 0..MaxClaims,
           NEW want \in Outcomes \cup {"none"}, NEW mode \in Modes,
           op = "result" => want \in Outcomes,
           Send(w, c, op, t, want, mode)
    PROVE  IInv'
  <1>1. worker' \in [Workers -> WorkerStates]
    BY DEF Send, IInv, TypeOK, WorkerStates
  <1>2. op \in Ops
    BY DEF Ops
  <1> QED BY <1>1, <1>2, PostStep DEF Send

\* Sending, downloading, converting, timing out and dying keep the invariant.
LEMMA WorkerInv ==
    ASSUME IInv, NEW w \in Workers, WorkerStep(w)
    PROVE  IInv'
  <1>0. /\ worker[w] \in WorkerStates /\ worker \in [Workers -> WorkerStates]
        /\ worker[w].tok \in 0..MaxClaims /\ 0 \in 0..MaxClaims
    BY MaxClaimsAssumption DEF IInv, TypeOK, WorkerStates
  <1>1. ASSUME NEW c \in Calls, SendStart(w, c)
        PROVE  IInv'
    BY <1>0, <1>1, SendStep DEF SendStart, Modes
  <1>2. ASSUME NEW c \in Calls, SendRestart(w, c)
        PROVE  IInv'
    BY <1>0, <1>2, SendStep DEF SendRestart, Modes
  <1>3. ASSUME NEW c \in Calls, SendHeartbeat(w, c)
        PROVE  IInv'
    BY <1>0, <1>3, PostStep DEF SendHeartbeat, Ops
  <1>4. ASSUME NEW c \in Calls, SendResult(w, c)
        PROVE  IInv'
    BY <1>0, <1>4, SendStep DEF SendResult, Modes
  <1>5. ASSUME NEW c \in Calls, SendFailure(w, c)
        PROVE  IInv'
    BY <1>0, <1>5, SendStep DEF SendFailure, Modes
  <1>6. CASE Download(w) \/ ConversionFails(w)
    <2>1. \E mode \in Modes : worker' = [worker EXCEPT ![w].mode = mode]
      BY <1>6 DEF Download, ConversionFails, Modes
    <2>2. worker' \in [Workers -> WorkerStates]
      BY <1>0, <2>1 DEF WorkerStates
    <2> QED BY <1>6, <2>2, AsideStep DEF Download, ConversionFails
  <1>7. CASE RequestTimesOut(w)
    <2>1. AfterReply(worker[w], FALSE, 0) \in WorkerStates
      BY <1>0, AfterReplyType
    <2>2. worker' \in [Workers -> WorkerStates]
      BY <1>0, <1>7, <2>1 DEF RequestTimesOut
    <2> QED BY <1>7, <2>2, AsideStep DEF RequestTimesOut
  <1>8. CASE WorkerCrashes(w)
    <2>1. Asleep \in WorkerStates
      BY <1>0 DEF Asleep, WorkerStates, Modes
    <2>2. worker' \in [Workers -> WorkerStates]
      BY <1>0, <1>8, <2>1 DEF WorkerCrashes
    <2> QED BY <1>8, <2>2, AsideStep DEF WorkerCrashes
  <1> QED BY <1>1, <1>2, <1>3, <1>4, <1>5, <1>6, <1>7, <1>8 DEF WorkerStep

\* Views, retries and cancels keep the invariant.
LEMMA UserInv ==
    ASSUME IInv, UserStep
    PROVE  IInv'
  <1>0. worker \in [Workers -> WorkerStates] /\ 0 \in 0..MaxClaims
    BY MaxClaimsAssumption DEF IInv, TypeOK
  <1>1. ASSUME NEW c \in Calls, SendView(c) \/ SendRetry(c)
        PROVE  IInv'
    BY <1>0, <1>1, PostStep DEF SendView, SendRetry, Ops
  <1>2. CASE Cancel
    <2>1. TypeOK'
      BY <1>2 DEF IInv, TypeOK, Cancel, MoveTo, Statuses, Touch
    <2>2. RowOK'
      BY <1>2 DEF IInv, RowOK, ActiveClaimIsNewest, FinalizingIsRecoverable,
                  DeliveredResultExists, AckedUploadWon, Cancel, MoveTo,
                  CanTransition, Allowed, Outcomes
    <2>3. CallsOK'
      BY <1>2 DEF IInv, CallsOK, CallOK, PromotedOK, FreshOK, Cancel, MoveTo,
                  Touch
    <2> QED BY <2>1, <2>2, <2>3 DEF IInv
  <1> QED BY <1>1, <1>2 DEF UserStep

\* A transaction that fails, a server that dies and a damaged DOCX keep it too.
LEMMA FaultInv ==
    ASSUME IInv, Fault
    PROVE  IInv'
  <1>0. worker \in [Workers -> WorkerStates] /\ 0 \in 0..MaxClaims
    BY MaxClaimsAssumption DEF IInv, TypeOK
  <1>1. ASSUME NEW c \in Calls, DatabaseError(c)
        PROVE  IInv'
    <2>1. KeptFresh
      BY <1>1 DEF DatabaseError, Forget, KeptFresh, rowVars
    <2>2. CallsOK'
      BY <1>1, <2>1, ReplyCalls DEF DatabaseError
    <2>3. RowOK'
      BY <1>1, RowStutter DEF IInv, DatabaseError, RowKept
    <2>4. /\ call' \in [Calls -> Requests]
          /\ worker' \in [Workers -> WorkerStates]
      BY <1>0, <1>1, ReplyType DEF IInv, DatabaseError
    <2>5. TypeOK'
      BY <1>1, <2>4 DEF IInv, TypeOK, DatabaseError, rowVars, Forget
    <2> QED BY <2>2, <2>3, <2>5 DEF IInv
  <1>2. CASE ServerCrashes
    <2>1. Idle \in Requests
      BY MaxClaimsAssumption DEF Idle, Requests, Ops, Points
    <2>2. \A w \in Workers : AfterReply(worker[w], FALSE, 0) \in WorkerStates
      BY <1>0, AfterReplyType
    <2>3. /\ call' \in [Calls -> Requests]
          /\ worker' \in [Workers -> WorkerStates]
      BY <1>0, <1>2, <2>1, <2>2 DEF ServerCrashes
    <2>4. TypeOK'
      BY <1>2, <2>3 DEF IInv, TypeOK, ServerCrashes, rowVars
    <2>5. RowOK'
      BY <1>2, RowStutter DEF IInv, ServerCrashes, RowKept
    <2>6. \A c \in Calls : call'[c] = Idle
      BY <1>2 DEF ServerCrashes
    <2>7. CallsOK'
      BY <1>2, <2>6 DEF CallsOK, CallOK, Fits, PromotedOK, FreshOK, Idle,
                        ServerCrashes
    <2> QED BY <2>4, <2>5, <2>7 DEF IInv
  <1>3. CASE FileCorrupts
    <2>1. TypeOK'
      BY <1>3 DEF IInv, TypeOK, FileCorrupts, rowVars
    <2>2. file' # NoFile
      BY <1>3, MaxClaimsAssumption DEF FileCorrupts, NoFile, Corrupt
    <2>3. RowOK'
      BY <1>3, <2>2, RowStutter DEF IInv, FileCorrupts, RowKept
    <2>4. CallsOK'
      BY <1>3, <2>2 DEF IInv, CallsOK, CallOK, PromotedOK, FreshOK,
                        FileCorrupts, rowVars
    <2> QED BY <2>1, <2>3, <2>4 DEF IInv
  <1> QED BY <1>1, <1>2, <1>3 DEF Fault

-----------------------------------------------------------------------------
(* The theorems. *)

LEMMA InitInv == Init => IInv
  <1> SUFFICES ASSUME Init PROVE IInv
    OBVIOUS
  <1>1. Idle \in Requests /\ Asleep \in WorkerStates /\ 0 \in 0..MaxClaims
    BY MaxClaimsAssumption
       DEF Idle, Requests, Ops, Points, Asleep, WorkerStates, Modes
  <1>2. TypeOK
    BY <1>1 DEF Init, TypeOK, Statuses, Outcomes
  <1>3. RowOK
    BY DEF Init, RowOK, ActiveClaimIsNewest, FinalizingIsRecoverable,
           DeliveredResultExists, AckedUploadWon, Outcomes
  <1>4. CallsOK
    BY DEF Init, CallsOK, CallOK, Fits, PromotedOK, FreshOK, Idle
  <1> QED BY <1>2, <1>3, <1>4 DEF IInv

LEMMA NextInv == IInv /\ [Next]_vars => IInv'
  <1> SUFFICES ASSUME IInv, [Next]_vars PROVE IInv'
    OBVIOUS
  <1>1. ASSUME NEW c \in Calls, ServerStep(c)
        PROVE  IInv'
    BY <1>1, ServerType, ServerRow, ServerCalls DEF IInv
  <1>2. ASSUME NEW w \in Workers, WorkerStep(w)
        PROVE  IInv'
    BY <1>2, WorkerInv
  <1>3. CASE UserStep
    BY <1>3, UserInv
  <1>4. CASE Fault
    BY <1>4, FaultInv
  <1>5. CASE UNCHANGED vars
    BY <1>5, AsideStep DEF vars, rowVars, IInv, TypeOK
  <1> QED BY <1>1, <1>2, <1>3, <1>4, <1>5 DEF Next

\* The inductive invariant holds in every reachable state.
THEOREM Invariance == Spec => []IInv
  BY InitInv, NextInv, PTL DEF Spec

\* Every column, request and worker always holds one of its values.
THEOREM TypeCorrect == Spec => []TypeOK
  <1>1. IInv => TypeOK
    BY DEF IInv
  <1> QED BY <1>1, Invariance, PTL

\* Fencing: an active job is always held by a named worker under the newest
\* token transition_conversion issued.
THEOREM Fencing == Spec => []ActiveClaimIsNewest
  <1>1. IInv => ActiveClaimIsNewest
    BY DEF IInv, RowOK
  <1> QED BY <1>1, Invariance, PTL

\* A finalizing job can be finished by whoever finds it
\* (_recover_finalizing_result never meets a row without its outcome).
THEOREM Recoverability == Spec => []FinalizingIsRecoverable
  <1>1. IInv => FinalizingIsRecoverable
    BY DEF IInv, RowOK
  <1> QED BY <1>1, Invariance, PTL

\* A delivered job has its DOCX and the scores of the newest claim, also when
\* a recovery delivered it.
THEOREM Delivery == Spec => []DeliveredResultExists
  <1>1. IInv => DeliveredResultExists
    BY DEF IInv, RowOK
  <1> QED BY <1>1, Invariance, PTL

\* The upload that was answered with 200 is the one that was delivered.
THEOREM Acknowledgement == Spec => []AckedUploadWon
  <1>1. IInv => AckedUploadWon
    BY DEF IInv, RowOK
  <1> QED BY <1>1, Invariance, PTL

\* No handler writes the row of a delivered job.
LEMMA ServerFinal ==
    ASSUME NEW c \in Calls, ServerStep(c), status \in Outcomes
    PROVE  UNCHANGED rowVars
  <1>1. CASE StartReads(c)
    BY <1>1 DEF StartReads
  <1>2. CASE Expire(c)
    BY <1>2 DEF Expire, rowVars, Outcomes
  <1>3. CASE Recheck(c)
    BY <1>3 DEF Recheck
  <1>4. CASE Requeue(c)
    BY <1>4 DEF Requeue, rowVars, MoveTo, CanTransition, Allowed, Outcomes
  <1>5. CASE Claim(c)
    BY <1>5 DEF Claim, rowVars, CanTransition, Allowed, GrantClaim, Outcomes
  <1>6. CASE Answer(c)
    BY <1>6 DEF Answer
  <1>7. CASE ViewReads(c)
    BY <1>7 DEF ViewReads
  <1>8. CASE Look(c)
    BY <1>8 DEF Look
  <1>9. CASE Adopt(c)
    BY <1>9 DEF Adopt, rowVars, Deliver, OwnsFinalization, Outcomes
  <1>10. CASE Abandon(c)
    BY <1>10 DEF Abandon, rowVars, Outcomes
  <1>11. CASE Reread(c)
    BY <1>11 DEF Reread
  <1>12. CASE HeartbeatReads(c)
    BY <1>12 DEF HeartbeatReads
  <1>13. CASE Beat(c)
    BY <1>13 DEF Beat, rowVars, Outcomes
  <1>14. CASE ResultReads(c)
    BY <1>14 DEF ResultReads
  <1>15. CASE Prepare(c)
    BY <1>15 DEF Prepare, rowVars, OwnsProcessing, Outcomes
  <1>16. CASE Replace(c)
    BY <1>16 DEF Replace
  <1>17. CASE Rollback(c)
    BY <1>17 DEF Rollback, rowVars, OwnsFinalization, Outcomes
  <1>18. CASE Complete(c)
    BY <1>18 DEF Complete, rowVars, Deliver, OwnsFinalization, Outcomes
  <1>19. CASE FailReads(c)
    BY <1>19 DEF FailReads
  <1>20. CASE MarkFailed(c)
    BY <1>20 DEF MarkFailed, rowVars, CanTransition, Allowed, Outcomes
  <1>21. CASE RetryReads(c)
    BY <1>21 DEF RetryReads
  <1> QED BY <1>1, <1>2, <1>3, <1>4, <1>5, <1>6, <1>7, <1>8, <1>9, <1>10,
             <1>11, <1>12, <1>13, <1>14, <1>15, <1>16, <1>17, <1>18, <1>19,
             <1>20, <1>21
          DEF ServerStep

\* A delivered row is never written again: transition_conversion refuses every
\* way out and the finalization calls name the status they start from.
THEOREM Finality == Spec => DeliveredRowIsFinal
  <1>1. [Next]_vars => [(status \in Outcomes) => rowVars' = rowVars]_vars
    <2> SUFFICES ASSUME [Next]_vars, status \in Outcomes
                 PROVE  UNCHANGED rowVars
      OBVIOUS
    <2>1. ASSUME NEW c \in Calls, ServerStep(c)
          PROVE  UNCHANGED rowVars
      BY <2>1, ServerFinal
    <2>2. ASSUME NEW w \in Workers, WorkerStep(w)
          PROVE  UNCHANGED rowVars
      BY <2>2 DEF WorkerStep, SendStart, SendRestart, SendHeartbeat,
         SendResult,
                  SendFailure, Send, Download, ConversionFails,
                  RequestTimesOut, WorkerCrashes
    <2>3. CASE UserStep
      BY <2>3 DEF UserStep, SendView, SendRetry, Cancel, MoveTo, CanTransition,
                  Allowed, Outcomes
    <2>4. CASE Fault
      BY <2>4 DEF Fault, DatabaseError, ServerCrashes, FileCorrupts
    <2>5. CASE UNCHANGED vars
      BY <2>5 DEF vars, rowVars
    <2> QED BY <2>1, <2>2, <2>3, <2>4, <2>5 DEF Next
  <1> QED BY <1>1, PTL DEF Spec, DeliveredRowIsFinal

\* What a recovery read is still the row's when its conditional UPDATE passes.
LEMMA ServerRevokes ==
    ASSUME IInv, NEW c \in Calls, ServerStep(c), token # 0, token' = 0
    PROVE  /\ call[c].at \in {"expire", "abandon"}
           /\ call'[c] # call[c]
           /\ call[c].seen = token /\ call[c].own = owner
  <1>0. call \in [Calls -> Requests] /\ claims + 1 # 0
    BY MaxClaimsAssumption DEF IInv, TypeOK
  <1>1. CASE Expire(c) \/ Abandon(c)
    <2>1. c \in fresh /\ call[c].at \in {"expire", "abandon"}
      BY <1>1 DEF Expire, Abandon, StillAsRead, rowVars
    <2>2. call'[c].at \in {"recheck", "reread"}
      BY <1>0, <1>1 DEF Expire, Abandon, Goto, Requests
    <2> QED BY <2>1, <2>2 DEF IInv, CallsOK, FreshOK, Holding
  <1>2. CASE \/ StartReads(c) \/ Recheck(c) \/ Answer(c) \/ ViewReads(c)
             \/ Look(c) \/ Reread(c) \/ HeartbeatReads(c) \/ ResultReads(c)
             \/ Replace(c) \/ FailReads(c) \/ RetryReads(c)
    BY <1>2 DEF StartReads, Recheck, Answer, ViewReads, Look, Reread,
       HeartbeatReads, ResultReads, Replace, FailReads, RetryReads,
       DispatchStart, rowVars
  <1>3. CASE \/ Requeue(c) \/ Claim(c) \/ Adopt(c) \/ Beat(c)
             \/ Prepare(c) \/ Rollback(c) \/ Complete(c) \/ MarkFailed(c)
    BY <1>0, <1>3
    DEF Requeue, Claim, Adopt, Beat, Prepare, Rollback, Complete, MarkFailed,
        MoveTo, GrantClaim, Deliver, rowVars
  <1> QED BY <1>1, <1>2, <1>3 DEF ServerStep

\* A recovery revokes only the claim it judged silent: the observed updated_at
\* in the WHERE clause stands for the claim (abandon_stale_conversion,
\* abandon_conversion_finalization).
THEOREM Revocation == Spec => RecoveryRevokesWhatItSaw
  <1>1. IInv /\ [Next]_vars => [Revoked]_vars
    <2> SUFFICES ASSUME IInv, [Next]_vars, token # 0, token' = 0
                 PROVE  SawTheClaim
      BY DEF Revoked
    <2>1. ASSUME NEW c \in Calls, ServerStep(c)
          PROVE  SawTheClaim
      BY <2>1, ServerRevokes DEF SawTheClaim
    <2>2. ASSUME NEW w \in Workers, WorkerStep(w)
          PROVE  FALSE
      BY <2>2 DEF WorkerStep, SendStart, SendRestart, SendHeartbeat,
         SendResult,
                  SendFailure, Send, Download, ConversionFails,
                  RequestTimesOut, WorkerCrashes, rowVars
    <2>3. CASE UserStep
      BY <2>3 DEF UserStep, SendView, SendRetry, Cancel, MoveTo, rowVars
    <2>4. CASE Fault
      BY <2>4 DEF Fault, DatabaseError, ServerCrashes, FileCorrupts, rowVars
    <2>5. CASE UNCHANGED vars
      BY <2>5 DEF vars
    <2> QED BY <2>1, <2>2, <2>3, <2>4, <2>5 DEF Next
  <1> QED BY <1>1, Invariance, PTL DEF Spec, RecoveryRevokesWhatItSaw

-----------------------------------------------------------------------------
(* One upload per claim.  That a request delivers the announced status needs *)
(* the history of a claim: the worker that holds it uploads it at most once  *)
(* (a failed upload is reported, never repeated), so only one status is ever *)
(* sealed under it, and every request that may deliver it has read that one. *)

\* No request or worker carries a token that was not granted.
ToksOK ==
    /\ \A w \in Workers : worker[w].tok <= claims
    /\ \A c \in Calls : call[c].tok <= claims /\ call[c].seen <= claims

\* An idle worker has no token; one that starts waits for its own start.
WaitOK ==
    \A w \in Workers :
        /\ worker[w].mode = "idle" => worker[w].tok = 0
        /\ worker[w].mode = "starting" =>
              /\ worker[w].on \in Calls
              /\ call[worker[w].on].op = "start"
              /\ call[worker[w].on].tok = worker[w].tok

\* The worker has not uploaded under the row's claim and still may.
MayUpload(w) ==
    \/ /\ worker[w].mode \in {"starting", "fetching", "running"}
       /\ worker[w].tok = token
    \/ /\ worker[w].mode = "starting"
       /\ call[worker[w].on].at \in {"claim", "beat", "answer"}

\* An upload of the row's claim that has not sealed it yet.
Upload(c) ==
    /\ call[c].op = "result" /\ call[c].at \in {"read", "prepare"}
    /\ call[c].by = owner /\ call[c].tok = token

\* A request that may deliver the row, for its claim has been sealed.
Sealed(c) ==
    \/ /\ call[c].at \in {"look", "adopt"}
       /\ call[c].own = owner /\ call[c].seen = token
    \/ /\ call[c].at \in {"replace", "rollback", "complete"}
       /\ call[c].by = owner /\ call[c].tok = token

\* A claim is uploaded once at most ...
OneUpload ==
    status \in {"processing", "finalizing"} =>
        \A c \in Calls : Upload(c) =>
            /\ ~MayUpload(owner)
            /\ \A d \in Calls : Upload(d) => d = c

\* ... and never again once it has been sealed ...
NoUploadLeft ==
    (\/ status = "finalizing"
     \/ status = "processing" /\ \E c \in Calls : Sealed(c))
    => /\ ~MayUpload(owner)
       /\ \A c \in Calls : ~Upload(c)

\* ... so whoever delivers it delivers the status that was announced.
SameVerdict ==
    status = "finalizing" =>
        \A c \in Calls : Sealed(c) => call[c].want = intended

UploadsOK == OneUpload /\ NoUploadLeft /\ SameVerdict

LInv == IInv /\ ToksOK /\ WaitOK /\ UploadsOK

-----------------------------------------------------------------------------
(* What the steps of the handlers do to requests, workers and uploads. *)

\* The books after a request ended: its worker stops waiting for it.
LEMMA ReplyBooks ==
    ASSUME LInv, NEW c \in Calls, NEW ok \in BOOLEAN, NEW t \in 0..claims,
           Reply(c, ok, t), claims' \in Nat, claims <= claims'
    PROVE  ToksOK' /\ WaitOK'
  <1> USE MaxClaimsAssumption
  <1>0. /\ claims \in Nat /\ call \in [Calls -> Requests]
        /\ worker \in [Workers -> WorkerStates]
    BY DEF LInv, IInv, TypeOK
  <1>1. call'[c] = Idle /\ \A x \in Calls \ {c} : call'[x] = call[x]
    BY <1>0 DEF Reply
  <1>2. \A w \in Workers :
        \/ worker'[w] = worker[w] /\ worker[w].on # c
        \/ /\ worker'[w].mode \in {"idle", "fetching", "broken"}
           /\ worker'[w].tok <= claims
           /\ worker'[w].mode = "idle" => worker'[w].tok = 0
    <2> TAKE w \in Workers
    <2>1. worker'[w] = IF worker[w].on = c THEN AfterReply(worker[w], ok, t)
                                           ELSE worker[w]
      BY DEF Reply
    <2>2. worker[w].tok <= claims /\ worker[w].tok \in Nat
      BY <1>0 DEF LInv, ToksOK, WorkerStates
    <2>3. t <= claims /\ t \in Nat
      BY <1>0
    <2> QED BY <1>0, <2>1, <2>2, <2>3 DEF AfterReply, Asleep
  <1>3. ToksOK'
    <2>1. \A w \in Workers : worker'[w].tok \in Nat => worker'[w].tok <= claims'
      BY <1>0, <1>2 DEF LInv, ToksOK
    <2>2. \A w \in Workers : worker'[w].tok \in Nat
      <3>1. \A w \in Workers : AfterReply(worker[w], ok, t) \in WorkerStates
        <4>1. t \in 0..MaxClaims
          BY DEF LInv, IInv, TypeOK
        <4> QED BY <1>0, <4>1, AfterReplyType
      <3> QED BY <1>0, <3>1 DEF Reply, WorkerStates
    <2>3. \A x \in Calls : call'[x].tok <= claims' /\ call'[x].seen <= claims'
      BY <1>0, <1>1 DEF LInv, ToksOK, Idle, Requests
    <2> QED BY <2>1, <2>2, <2>3 DEF ToksOK
  <1>4. WaitOK'
    BY <1>1, <1>2 DEF LInv, WaitOK
  <1> QED BY <1>3, <1>4

\* A request that moves on or keeps the row it read carries no new token.
LEMMA MoveBooks ==
    ASSUME LInv, NEW c \in Calls, NEW p, Goto(c, p) \/ GotoWithRow(c, p),
           claims' \in Nat, claims <= claims'
    PROVE  ToksOK' /\ WaitOK'
  <1> USE MaxClaimsAssumption
  <1>0. /\ claims \in Nat /\ call \in [Calls -> Requests] /\ token \in Nat
        /\ worker \in [Workers -> WorkerStates] /\ worker' = worker
        /\ token <= claims
    BY DEF LInv, IInv, TypeOK, Goto, GotoWithRow, RowOK, ActiveClaimIsNewest
  <1>1. /\ call'[c].op = call[c].op /\ call'[c].tok = call[c].tok
        /\ call'[c].seen \in {call[c].seen, token}
        /\ \A x \in Calls \ {c} : call'[x] = call[x]
    BY <1>0 DEF Goto, GotoWithRow, Requests
  <1>2. \A w \in Workers : worker[w].tok \in Nat
    BY <1>0 DEF WorkerStates
  <1>3. \A x \in Calls : call[x].tok \in Nat /\ call[x].seen \in Nat
    BY <1>0 DEF Requests
  <1>4. \A n \in Nat : n <= claims => n <= claims'
    BY <1>0
  <1>5. ToksOK'
    BY <1>0, <1>1, <1>2, <1>3, <1>4 DEF LInv, ToksOK
  <1>6. WaitOK'
    BY <1>0, <1>1 DEF LInv, WaitOK
  <1> QED BY <1>5, <1>6

\* No handler lets a worker wait for a request that is not its start, or
\* carries a token that was not granted.
LEMMA ServerBooks ==
    ASSUME LInv, NEW c \in Calls, ServerStep(c)
    PROVE  ToksOK' /\ WaitOK'
  <1>0. claims \in Nat /\ 0 \in 0..claims /\ token \in 0..claims
    BY MaxClaimsAssumption DEF LInv, IInv, TypeOK, RowOK, ActiveClaimIsNewest
  <1>1. claims' \in Nat /\ claims <= claims'
    <2>1. ASSUME Claim(c) PROVE claims' \in {claims, claims + 1}
      BY <2>1 DEF Claim, rowVars, GrantClaim
    <2>2. ASSUME ~Claim(c) PROVE claims' = claims
      BY <2>2
      DEF ServerStep, StartReads, Expire, Recheck, Requeue, Answer, ViewReads,
          Look, Adopt, Abandon, Reread, HeartbeatReads, Beat, ResultReads,
          Prepare, Replace, Rollback, Complete, FailReads, MarkFailed,
          RetryReads, rowVars, MoveTo, Deliver
    <2> QED BY <1>0, <2>1, <2>2
  <1>2. \/ \E ok \in BOOLEAN, t \in 0..claims : Reply(c, ok, t)
        \/ \E p : Goto(c, p) \/ GotoWithRow(c, p)
    <2>1. CASE \/ StartReads(c) \/ Expire(c) \/ Recheck(c) \/ Requeue(c)
               \/ Claim(c) \/ Answer(c) \/ ViewReads(c) \/ Look(c)
      BY <1>0, <2>1 DEF StartReads, DispatchStart, Expire, Recheck, Requeue,
         Claim, Answer, ViewReads, Look
    <2>2. CASE \/ Adopt(c) \/ Abandon(c) \/ Reread(c) \/ HeartbeatReads(c)
               \/ Beat(c) \/ ResultReads(c) \/ Prepare(c) \/ Replace(c)
      BY <1>0, <2>2 DEF Adopt, Abandon, Reread, DispatchStart, HeartbeatReads,
         Beat, ResultReads, Prepare, Replace
    <2>3. CASE \/ Rollback(c) \/ Complete(c) \/ FailReads(c) \/ MarkFailed(c)
               \/ RetryReads(c)
      <3>1. (status \in Outcomes \cup {"failed"}) \in BOOLEAN
        OBVIOUS
      <3> QED BY <1>0, <2>3, <3>1 DEF Rollback, Complete, FailReads,
                 MarkFailed, RetryReads
    <2> QED BY <2>1, <2>2, <2>3 DEF ServerStep
  <1> QED BY <1>1, <1>2, ReplyBooks, MoveBooks

\* The columns a finalization is about stay.
SameClaim == UNCHANGED <<status, owner, token, intended>>

Active == status \in {"processing", "finalizing"}

\* A step that opens no way to a second upload or delivery.
LEMMA UploadsFrame ==
    ASSUME UploadsOK, Active => SameClaim \/ ~Active', ~Active => ~Active',
           Active' => (MayUpload(owner)' => MayUpload(owner)),
           Active' => \A x \in Calls :
              /\ Upload(x)' => Upload(x)
              /\ Sealed(x)' => Sealed(x) /\ call'[x].want = call[x].want
    PROVE  UploadsOK'
  <1>1. CASE ~Active'
    BY <1>1 DEF UploadsOK, OneUpload, NoUploadLeft, SameVerdict, Active
  <1>2. CASE Active'
    <2>1. SameClaim
      BY <1>2
    <2>2. OneUpload'
      BY <1>2, <2>1 DEF UploadsOK, OneUpload, Active, SameClaim
    <2>3. NoUploadLeft'
      BY <1>2, <2>1 DEF UploadsOK, NoUploadLeft, Active, SameClaim
    <2>4. SameVerdict'
      BY <1>2, <2>1 DEF UploadsOK, SameVerdict, Active, SameClaim
    <2> QED BY <2>2, <2>3, <2>4 DEF UploadsOK
  <1> QED BY <1>1, <1>2

\* An answer hands a claim to nobody but a start that has it.
LEMMA ReplyUploads ==
    ASSUME LInv, NEW c \in Calls, NEW ok \in BOOLEAN, NEW t,
           Reply(c, ok, t), Active' => SameClaim,
           ok /\ call[c].op = "start" => call[c].at = "answer" /\ t = token
    PROVE  UploadsOK'
  <1>0. /\ call \in [Calls -> Requests] /\ worker \in [Workers -> WorkerStates]
        /\ Active => token # 0 /\ owner \in Workers
    BY DEF LInv, IInv, TypeOK, RowOK, ActiveClaimIsNewest, Active
  <1>1. call'[c] = Idle /\ \A x \in Calls \ {c} : call'[x] = call[x]
    BY <1>0 DEF Reply
  <1> SUFFICES ASSUME Active' PROVE UploadsOK'
    BY DEF UploadsOK, OneUpload, NoUploadLeft, SameVerdict, Active
  <1>2. SameClaim /\ Active
    BY DEF SameClaim, Active
  <1>3. ASSUME MayUpload(owner)' PROVE MayUpload(owner)
    <2>1. worker'[owner] = IF worker[owner].on = c
                             THEN AfterReply(worker[owner], ok, t)
                             ELSE worker[owner]
      BY <1>0, <1>2 DEF Reply
    <2>2. CASE worker[owner].on = c
      <3>1. worker[owner].mode = "starting" /\ ok
        BY <1>2, <1>3, <2>1, <2>2 DEF MayUpload, AfterReply, Asleep, SameClaim
      <3>2. call[c].op = "start"
        BY <1>0, <1>2, <2>2, <3>1 DEF LInv, WaitOK
      <3> QED BY <2>2, <3>1, <3>2 DEF MayUpload
    <2>3. CASE worker[owner].on # c
      <3>1. worker'[owner] = worker[owner]
        BY <2>1, <2>3
      <3>2. worker[owner].mode = "starting" =>
               call'[worker[owner].on] = call[worker[owner].on]
        BY <1>0, <1>1, <1>2, <2>3 DEF LInv, WaitOK
      <3> QED BY <1>2, <1>3, <3>1, <3>2 DEF MayUpload, SameClaim
    <2> QED BY <2>2, <2>3
  <1>4. \A x \in Calls : /\ Upload(x)' => Upload(x)
                         /\ Sealed(x)' => Sealed(x) /\ call'[x].want = call[x].want
    BY <1>1, <1>2 DEF Upload, Sealed, SameClaim, Idle
  <1> QED BY <1>2, <1>3, <1>4, UploadsFrame DEF LInv

\* What moving to point p asks of a request, as far as uploads go.
MayReach(c, p) ==
    /\ p # "read"
    /\ p = "prepare" => call[c].at = "read"
    /\ p \in {"look", "adopt"} => call[c].at \in {"look", "adopt"}
    /\ p \in {"replace", "rollback", "complete"} =>
          call[c].at \in {"replace", "rollback", "complete"}
    /\ p \in {"claim", "beat", "answer"} /\ call[c].op = "start" =>
          call[c].at \in {"claim", "beat", "answer"} \/ call[c].tok = token

LEMMA GotoUploads ==
    ASSUME LInv, NEW c \in Calls, NEW p, Goto(c, p), Active' => SameClaim,
           Active' => MayReach(c, p)
    PROVE  UploadsOK'
  <1>0. /\ call \in [Calls -> Requests]
        /\ Active => token # 0 /\ owner \in Workers
    BY DEF LInv, IInv, TypeOK, RowOK, ActiveClaimIsNewest, Active
  <1>1. /\ call'[c].at = p /\ call'[c].op = call[c].op /\ call'[c].by = call[c].by
        /\ call'[c].tok = call[c].tok /\ call'[c].want = call[c].want
        /\ call'[c].own = call[c].own /\ call'[c].seen = call[c].seen
        /\ \A x \in Calls \ {c} : call'[x] = call[x]
        /\ worker' = worker
    BY <1>0 DEF Goto, Requests
  <1> SUFFICES ASSUME Active' PROVE UploadsOK'
    BY DEF UploadsOK, OneUpload, NoUploadLeft, SameVerdict, Active
  <1>2. SameClaim /\ Active /\ MayReach(c, p)
    BY DEF SameClaim, Active
  <1>3. ASSUME MayUpload(owner)' PROVE MayUpload(owner)
    <2>1. worker[owner].mode = "starting" =>
             /\ worker[owner].on \in Calls
             /\ call[worker[owner].on].op = "start"
             /\ call[worker[owner].on].tok = worker[owner].tok
      BY <1>0, <1>2 DEF LInv, WaitOK
    <2> QED BY <1>1, <1>2, <1>3, <2>1 DEF MayUpload, MayReach, SameClaim
  <1>4. \A x \in Calls : /\ Upload(x)' => Upload(x)
                         /\ Sealed(x)' => Sealed(x) /\ call'[x].want = call[x].want
    BY <1>1, <1>2 DEF Upload, Sealed, SameClaim, MayReach
  <1> QED BY <1>2, <1>3, <1>4, UploadsFrame DEF LInv

\* A recovery that reads a finalizing row reads the announced status.
LEMMA ReadUploads ==
    ASSUME LInv, NEW c \in Calls, NEW p \in {"look", "expire"},
           GotoWithRow(c, p), p = "look" => status = "finalizing", SameClaim
    PROVE  UploadsOK'
  <1>0. /\ call \in [Calls -> Requests]
        /\ Active => token # 0 /\ owner \in Workers
    BY DEF LInv, IInv, TypeOK, RowOK, ActiveClaimIsNewest, Active
  <1>1. /\ call'[c].at = p /\ call'[c].want = intended
        /\ \A x \in Calls \ {c} : call'[x] = call[x]
        /\ worker' = worker
    BY <1>0 DEF GotoWithRow
  <1>3. ASSUME MayUpload(owner)', Active PROVE MayUpload(owner)
    <2>1. worker[owner].mode = "starting" => worker[owner].on \in Calls
      BY <1>0, <1>3 DEF LInv, WaitOK
    <2> QED BY <1>1, <1>3, <2>1 DEF MayUpload, SameClaim
  <1>4. \A x \in Calls : Upload(x)' => Upload(x)
    BY <1>1 DEF Upload, SameClaim
  <1>5. \A x \in Calls : Sealed(x)' =>
           \/ Sealed(x) /\ call'[x].want = call[x].want
           \/ status = "finalizing" /\ call'[x].want = intended
    BY <1>1 DEF Sealed, SameClaim
  <1>6. OneUpload'
    BY <1>3, <1>4 DEF LInv, UploadsOK, OneUpload, SameClaim, Active
  <1>7. NoUploadLeft'
    BY <1>3, <1>4, <1>5 DEF LInv, UploadsOK, NoUploadLeft, SameClaim, Active
  <1>8. SameVerdict'
    BY <1>5 DEF LInv, UploadsOK, SameVerdict, SameClaim
  <1> QED BY <1>6, <1>7, <1>8 DEF UploadsOK

\* A new claim has neither been uploaded nor sealed.
LEMMA GrantUploads ==
    ASSUME LInv, NEW c \in Calls, Goto(c, "answer"), GrantClaim(call[c].by)
    PROVE  UploadsOK'
  <1>0. call \in [Calls -> Requests] /\ claims \in Nat
    BY MaxClaimsAssumption DEF LInv, IInv, TypeOK
  <1>1. /\ call'[c].at = "answer" /\ call'[c].tok = call[c].tok
        /\ \A x \in Calls \ {c} : call'[x] = call[x]
    BY <1>0 DEF Goto, Requests
  <1>2. \A x \in Calls : /\ call[x].tok \in Nat /\ call[x].tok <= claims
                         /\ call[x].seen \in Nat /\ call[x].seen <= claims
    BY <1>0, MaxClaimsAssumption DEF LInv, ToksOK, Requests
  <1>3. \A x \in Calls : call[x].tok # claims + 1 /\ call[x].seen # claims + 1
    BY <1>0, <1>2
  <1>4. \A x \in Calls : ~Upload(x)' /\ ~Sealed(x)'
    BY <1>1, <1>3 DEF Upload, Sealed, GrantClaim
  <1>5. status' = "processing"
    BY DEF GrantClaim
  <1> QED BY <1>4, <1>5 DEF UploadsOK, OneUpload, NoUploadLeft, SameVerdict

\* The upload that seals a claim was its only one.
LEMMA PrepareUploads ==
    ASSUME LInv, NEW c \in Calls, Goto(c, "replace"),
           call[c].op = "result", call[c].at = "prepare",
           OwnsProcessing(call[c].by, call[c].tok),
           Seal(call[c].tok, call[c].want), UNCHANGED <<owner, token>>
    PROVE  UploadsOK'
  <1>0. call \in [Calls -> Requests] /\ owner \in Workers
    BY DEF LInv, IInv, TypeOK, RowOK, ActiveClaimIsNewest, OwnsProcessing
  <1>1. /\ call'[c].at = "replace" /\ call'[c].want = call[c].want
        /\ \A x \in Calls \ {c} : call'[x] = call[x]
        /\ worker' = worker
    BY <1>0 DEF Goto, Requests
  <1>2. Upload(c) /\ status = "processing"
    BY DEF Upload, OwnsProcessing
  <1>3. /\ ~MayUpload(owner) /\ \A d \in Calls : Upload(d) => d = c
        /\ \A d \in Calls : ~Sealed(d)
    BY <1>2 DEF LInv, UploadsOK, OneUpload, NoUploadLeft
  <1>4. ~MayUpload(owner)'
    <2>1. worker[owner].mode = "starting" => worker[owner].on \in Calls
      BY <1>0 DEF LInv, WaitOK
    <2> QED BY <1>1, <1>3, <2>1 DEF MayUpload
  <1>5. \A x \in Calls : ~Upload(x)' /\ (Sealed(x)' => x = c)
    BY <1>1, <1>3 DEF Upload, Sealed
  <1>6. status' = "finalizing" /\ intended' = call[c].want
    BY DEF Seal
  <1> QED BY <1>1, <1>4, <1>5, <1>6
          DEF UploadsOK, OneUpload, NoUploadLeft, SameVerdict

\* A sealed claim that is rolled back stays without an upload.
LEMMA RollbackUploads ==
    ASSUME LInv, NEW c \in Calls, Reply(c, FALSE, 0),
           status = "finalizing", status' = "processing",
           UNCHANGED <<owner, token>>
    PROVE  UploadsOK'
  <1>0. /\ call \in [Calls -> Requests] /\ worker \in [Workers -> WorkerStates]
        /\ owner \in Workers
    BY DEF LInv, IInv, TypeOK, RowOK, ActiveClaimIsNewest
  <1>1. call'[c] = Idle /\ \A x \in Calls \ {c} : call'[x] = call[x]
    BY <1>0 DEF Reply
  <1>2. ~MayUpload(owner) /\ \A x \in Calls : ~Upload(x)
    BY DEF LInv, UploadsOK, NoUploadLeft
  <1>3. ~MayUpload(owner)'
    <2>1. worker'[owner] = IF worker[owner].on = c
                             THEN AfterReply(worker[owner], FALSE, 0)
                             ELSE worker[owner]
      BY <1>0 DEF Reply
    <2>2. worker[owner].mode = "starting" => worker[owner].on \in Calls
      BY <1>0 DEF LInv, WaitOK
    <2>3. worker[owner].on = c => worker'[owner].mode \in {"idle", "broken"}
      BY <2>1 DEF AfterReply, Asleep
    <2> QED BY <1>1, <1>2, <2>1, <2>2, <2>3 DEF MayUpload
  <1>4. \A x \in Calls : ~Upload(x)'
    BY <1>1, <1>2 DEF Upload, Idle
  <1> QED BY <1>3, <1>4 DEF UploadsOK, OneUpload, NoUploadLeft, SameVerdict

\* The branches of start_job after its read.
LEMMA DispatchUploads ==
    ASSUME LInv, NEW c \in Calls, call[c].op = "start", DispatchStart(c),
           UNCHANGED rowVars
    PROVE  UploadsOK'
  <1>0. SameClaim /\ (Active => token # 0)
    BY DEF rowVars, SameClaim, LInv, IInv, RowOK, ActiveClaimIsNewest, Active
  <1>1. CASE Reply(c, FALSE, 0)
    BY <1>0, <1>1, ReplyUploads
  <1>2. CASE status = "failed" /\ Goto(c, "requeue")
    BY <1>0, <1>2, GotoUploads DEF MayReach
  <1>3. CASE status = "pending" /\ Goto(c, "claim")
    BY <1>0, <1>3, GotoUploads DEF MayReach, Active, SameClaim
  <1>4. CASE /\ status = "processing" /\ ClaimMatches(call[c].by, call[c].tok)
             /\ Goto(c, "beat")
    <2>1. MayReach(c, "beat")
      BY <1>0, <1>4 DEF MayReach, ClaimMatches, Active
    <2> QED BY <1>0, <1>4, <2>1, GotoUploads
  <1>5. CASE GotoWithRow(c, "expire")
    BY <1>0, <1>5, ReadUploads
  <1> QED BY <1>1, <1>2, <1>3, <1>4, <1>5 DEF DispatchStart

\* No handler opens a way to a second upload of a claim, or to the delivery of
\* a status that was not announced.
LEMMA ServerUploads ==
    ASSUME LInv, NEW c \in Calls, ServerStep(c)
    PROVE  UploadsOK'
  <1>0. /\ Fits(call[c]) /\ call[c] \in Requests
        /\ Active => token # 0 /\ owner \in Workers
    BY DEF LInv, IInv, TypeOK, RowOK, ActiveClaimIsNewest, Active, CallsOK,
           CallOK
  <1>a. owner \in Workers => owner # NoWorker
    BY NoWorkerAssumption
  <1>1. CASE StartReads(c)
    <2>1. CASE status = "finalizing"
      BY <1>1, <2>1, ReadUploads DEF StartReads, rowVars, SameClaim
    <2>2. CASE status # "finalizing"
      BY <1>1, <2>2, DispatchUploads DEF StartReads
    <2> QED BY <2>1, <2>2
  <1>2. CASE Expire(c)
    <2>1. (Active' => SameClaim) /\ Goto(c, "recheck")
      BY <1>2 DEF Expire, Active, SameClaim, rowVars
    <2> QED BY <2>1, GotoUploads DEF MayReach
  <1>3. CASE Recheck(c)
    <2>1. SameClaim
      BY <1>3 DEF Recheck, SameClaim, rowVars
    <2> QED BY <1>3, <2>1, GotoUploads, ReplyUploads
            DEF Recheck, MayReach, Active, SameClaim
  <1>4. CASE Requeue(c)
    <2>1. CASE MoveTo("pending")
      <3>1. ~Active'
        BY <2>1 DEF MoveTo, Active
      <3> QED BY <3>1 DEF UploadsOK, OneUpload, NoUploadLeft, SameVerdict, Active
    <2>2. CASE Reply(c, FALSE, 0) /\ UNCHANGED rowVars
      BY <2>2, ReplyUploads DEF SameClaim, rowVars
    <2> QED BY <1>4, <2>1, <2>2 DEF Requeue, rowVars
  <1>5. CASE Claim(c)
    <2>1. CASE Goto(c, "answer") /\ GrantClaim(call[c].by)
      BY <2>1, GrantUploads
    <2>2. CASE /\ status = "processing" /\ owner \in {NoWorker, call[c].by}
               /\ owner' = call[c].by /\ Goto(c, "answer")
               /\ UNCHANGED <<status, token, intended>>
      <3>1. SameClaim
        BY <1>0, <1>a, <2>2 DEF SameClaim, Active
      <3> QED BY <1>5, <2>2, <3>1, GotoUploads DEF MayReach, Claim
    <2>3. CASE Reply(c, FALSE, 0) /\ UNCHANGED rowVars
      BY <2>3, ReplyUploads DEF SameClaim, rowVars
    <2> QED BY <1>5, <2>1, <2>2, <2>3 DEF Claim, rowVars
  <1>6. CASE Answer(c)
    BY <1>6, ReplyUploads DEF Answer, SameClaim, rowVars
  <1>7. CASE ViewReads(c)
    <2>1. SameClaim
      BY <1>7 DEF ViewReads, SameClaim, rowVars
    <2> QED BY <1>7, <2>1, ReadUploads, ReplyUploads DEF ViewReads
  <1>8. CASE Look(c)
    <2>1. SameClaim
      BY <1>8 DEF Look, SameClaim, rowVars
    <2> QED BY <1>8, <2>1, GotoUploads, ReplyUploads DEF Look, MayReach
  <1>9. CASE Adopt(c)
    <2>1. CASE Deliver(call[c].want)
      <3>1. ~Active'
        BY <1>0, <1>9, <2>1 DEF Adopt, Fits, Deliver, Active, Outcomes
      <3> QED BY <3>1 DEF UploadsOK, OneUpload, NoUploadLeft, SameVerdict, Active
    <2>2. CASE Goto(c, "reread") /\ UNCHANGED rowVars
      BY <2>2, GotoUploads DEF MayReach, SameClaim, rowVars
    <2> QED BY <1>9, <2>1, <2>2 DEF Adopt, rowVars
  <1>10. CASE Abandon(c)
    <2>1. (Active' => SameClaim) /\ Goto(c, "reread")
      BY <1>10 DEF Abandon, Active, SameClaim, rowVars
    <2> QED BY <2>1, GotoUploads DEF MayReach
  <1>11. CASE Reread(c)
    <2>1. CASE call[c].op = "start"
      BY <1>11, <2>1, DispatchUploads DEF Reread
    <2>2. CASE call[c].op # "start"
      BY <1>11, <2>2, ReplyUploads DEF Reread, SameClaim, rowVars
    <2> QED BY <2>1, <2>2
  <1>12. CASE HeartbeatReads(c)
    <2>1. SameClaim
      BY <1>12 DEF HeartbeatReads, SameClaim, rowVars
    <2> QED BY <1>12, <2>1, GotoUploads, ReplyUploads
            DEF HeartbeatReads, MayReach
  <1>13. CASE Beat(c)
    <2>1. Active' => SameClaim
      BY <1>0, <1>a, <1>13 DEF Beat, SameClaim, Active, rowVars
    <2>2. \/ Goto(c, "answer") \/ Reply(c, FALSE, 0)
          \/ call[c].op # "start" /\ Reply(c, TRUE, 0)
      BY <1>13 DEF Beat
    <2> QED BY <1>13, <2>1, <2>2, GotoUploads, ReplyUploads DEF Beat, MayReach
  <1>14. CASE ResultReads(c)
    <2>1. SameClaim
      BY <1>14 DEF ResultReads, SameClaim, rowVars
    <2> QED BY <1>14, <2>1, GotoUploads, ReplyUploads DEF ResultReads, MayReach
  <1>15. CASE Prepare(c)
    <2>1. call[c].op = "result" /\ call[c].at = "prepare"
      BY <1>0, <1>15 DEF Prepare, Fits
    <2>2. CASE Reply(c, FALSE, 0) /\ UNCHANGED rowVars
      BY <2>2, ReplyUploads DEF SameClaim, rowVars
    <2> QED BY <1>15, <2>1, <2>2, PrepareUploads DEF Prepare, rowVars
  <1>16. CASE Replace(c)
    <2>1. SameClaim
      BY <1>16 DEF Replace, SameClaim, rowVars
    <2> QED BY <1>16, <2>1, GotoUploads DEF Replace, MayReach
  <1>17. CASE Rollback(c)
    <2>1. CASE OwnsFinalization(call[c].by, call[c].tok)
      BY <1>17, <2>1, RollbackUploads DEF Rollback, OwnsFinalization
    <2>2. CASE ~OwnsFinalization(call[c].by, call[c].tok)
      BY <1>17, <2>2, ReplyUploads DEF Rollback, SameClaim, rowVars
    <2> QED BY <2>1, <2>2
  <1>18. CASE Complete(c)
    <2>1. CASE Deliver(call[c].want)
      <3>1. ~Active'
        BY <1>0, <1>18, <2>1 DEF Complete, Fits, Deliver, Active, Outcomes
      <3> QED BY <3>1 DEF UploadsOK, OneUpload, NoUploadLeft, SameVerdict, Active
    <2>2. CASE Reply(c, FALSE, 0) /\ UNCHANGED rowVars
      BY <2>2, ReplyUploads DEF SameClaim, rowVars
    <2> QED BY <1>18, <2>1, <2>2 DEF Complete, rowVars
  <1>19. CASE FailReads(c)
    <2>0. (status \in Outcomes \cup {"failed"}) \in BOOLEAN
      OBVIOUS
    <2>1. SameClaim /\ call[c].op # "start"
      BY <1>19 DEF FailReads, SameClaim, rowVars
    <2> QED BY <1>19, <2>0, <2>1, GotoUploads, ReplyUploads
            DEF FailReads, MayReach
  <1>20. CASE MarkFailed(c)
    <2>1. (Active' => SameClaim) /\ call[c].op # "start"
      BY <1>0, <1>20 DEF MarkFailed, Active, SameClaim, rowVars, Fits
    <2> QED BY <1>20, <2>1, ReplyUploads DEF MarkFailed
  <1>21. CASE RetryReads(c)
    <2>1. SameClaim
      BY <1>21 DEF RetryReads, SameClaim, rowVars
    <2> QED BY <1>21, <2>1, GotoUploads, ReplyUploads DEF RetryReads, MayReach
  <1> QED BY <1>1, <1>2, <1>3, <1>4, <1>5, <1>6, <1>7, <1>8, <1>9, <1>10,
             <1>11, <1>12, <1>13, <1>14, <1>15, <1>16, <1>17, <1>18, <1>19,
             <1>20, <1>21
          DEF ServerStep

-----------------------------------------------------------------------------
(* Workers, users and faults again. *)

\* A new message: its slot was free, so no start waits for it, and it carries
\* the token of the worker that sends it.
LEMMA PostUploads ==
    ASSUME LInv, NEW w \in Workers, NEW c \in Calls, NEW op, NEW t, NEW want,
           call[c] = Idle, UNCHANGED rowVars,
           call' = [call EXCEPT ![c] = Message(op, w, t, want)],
           t \in {0, worker[w].tok}, op # "result",
           \/ worker' = worker
           \/ \E mode \in Modes \ {"idle"} :
                 /\ worker' = [worker EXCEPT ![w] =
                                 [mode |-> mode, tok |-> worker[w].tok, on |-> c]]
                 /\ mode = "starting" =>
                       /\ op = "start" /\ t = worker[w].tok
                       /\ worker[w].mode \in {"idle", "fetching", "running"}
                 /\ mode \notin {"fetching", "running"}
    PROVE  ToksOK' /\ WaitOK' /\ UploadsOK'
  <1>0. /\ call \in [Calls -> Requests] /\ worker \in [Workers -> WorkerStates]
        /\ Active => token # 0 /\ owner \in Workers
        /\ claims \in Nat
    BY MaxClaimsAssumption
    DEF LInv, IInv, TypeOK, RowOK, ActiveClaimIsNewest, Active
  <1>1. /\ call'[c].op = op /\ call'[c].at = "read" /\ call'[c].tok = t
        /\ call'[c].seen = 0
        /\ \A x \in Calls \ {c} : call'[x] = call[x]
        /\ claims' = claims /\ SameClaim
    BY <1>0 DEF Message, rowVars, SameClaim
  <1>2. \A x \in Workers : worker[x].mode = "starting" =>
           worker[x].on \in Calls \ {c}
    BY DEF LInv, WaitOK, Idle
  <1>3. \A x \in Workers :
           \/ worker'[x] = worker[x]
           \/ /\ x = w /\ worker'[w].tok = worker[w].tok /\ worker'[w].on = c
              /\ worker'[w].mode \notin {"idle", "fetching", "running"}
              /\ worker'[w].mode = "starting" =>
                       /\ op = "start" /\ t = worker[w].tok
                       /\ worker[w].mode \in {"idle", "fetching", "running"}
    BY <1>0
  <1>4. ToksOK'
    <2>1. t <= claims
      BY <1>0 DEF LInv, ToksOK
    <2> QED BY <1>0, <1>1, <1>3, <2>1 DEF LInv, ToksOK
  <1>5. WaitOK'
    BY <1>1, <1>2, <1>3 DEF LInv, WaitOK
  <1>6. ASSUME MayUpload(owner)', Active PROVE MayUpload(owner)
    <2>1. CASE worker'[owner] = worker[owner]
      BY <1>0, <1>1, <1>2, <1>6, <2>1 DEF MayUpload, SameClaim
    <2>2. CASE worker'[owner] # worker[owner]
      <3>1. /\ owner = w /\ worker'[w].tok = worker[w].tok
            /\ worker'[w].on = c /\ worker'[w].mode = "starting"
            /\ worker[w].mode \in {"idle", "fetching", "running"}
        BY <1>0, <1>1, <1>3, <1>6, <2>2 DEF MayUpload, SameClaim
      <3>2. worker[w].tok = token
        BY <1>1, <1>6, <3>1 DEF MayUpload, SameClaim
      <3>3. worker[w].mode # "idle"
        BY <1>0, <1>6, <3>2 DEF LInv, WaitOK
      <3> QED BY <3>1, <3>2, <3>3 DEF MayUpload
    <2> QED BY <2>1, <2>2
  <1>7. \A x \in Calls : /\ Upload(x)' => Upload(x)
                         /\ Sealed(x)' => Sealed(x) /\ call'[x].want = call[x].want
    BY <1>1 DEF Upload, Sealed, SameClaim
  <1>8. UploadsOK'
    BY <1>1, <1>6, <1>7, UploadsFrame DEF LInv, SameClaim, Active
  <1> QED BY <1>4, <1>5, <1>8

\* The upload of a claim takes the place of the worker that may upload it.
LEMMA ResultUploads ==
    ASSUME LInv, NEW w \in Workers, NEW c \in Calls, SendResult(w, c)
    PROVE  ToksOK' /\ WaitOK' /\ UploadsOK'
  <1>0. /\ call \in [Calls -> Requests] /\ worker \in [Workers -> WorkerStates]
        /\ Active => token # 0 /\ owner \in Workers
        /\ claims \in Nat
    BY MaxClaimsAssumption
    DEF LInv, IInv, TypeOK, RowOK, ActiveClaimIsNewest, Active
  <1>1. /\ call[c] = Idle /\ worker[w].mode = "running"
        /\ call'[c].op = "result" /\ call'[c].at = "read" /\ call'[c].by = w
        /\ call'[c].tok = worker[w].tok /\ call'[c].seen = 0
        /\ \A x \in Calls \ {c} : call'[x] = call[x]
        /\ worker'[w] = [mode |-> "uploading", tok |-> worker[w].tok, on |-> c]
        /\ \A x \in Workers \ {w} : worker'[x] = worker[x]
        /\ claims' = claims /\ SameClaim
    BY <1>0 DEF SendResult, Send, Message, rowVars, SameClaim
  <1>2. \A x \in Workers : worker[x].mode = "starting" =>
           worker[x].on \in Calls \ {c}
    BY <1>1 DEF LInv, WaitOK, Idle
  <1>3. ToksOK'
    BY <1>0, <1>1 DEF LInv, ToksOK
  <1>4. WaitOK'
    BY <1>1, <1>2 DEF LInv, WaitOK
  <1> SUFFICES ASSUME Active PROVE UploadsOK'
    BY <1>1, <1>3, <1>4
    DEF UploadsOK, OneUpload, NoUploadLeft, SameVerdict, Active, SameClaim
  <1>5. MayUpload(owner)' => MayUpload(owner) /\ owner # w
    BY <1>0, <1>1, <1>2 DEF MayUpload, SameClaim
  <1>6. \A x \in Calls : Upload(x)' =>
           Upload(x) \/ (x = c /\ owner = w /\ MayUpload(owner))
    <2> SUFFICES ASSUME NEW x \in Calls, Upload(x)'
                 PROVE  Upload(x) \/ (x = c /\ owner = w /\ MayUpload(owner))
      OBVIOUS
    <2>1. CASE x = c
      <3>1. w = owner /\ worker[owner].tok = token
        BY <1>1, <2>1 DEF Upload, SameClaim
      <3> QED BY <1>1, <2>1, <3>1 DEF MayUpload
    <2>2. CASE x # c
      BY <1>1, <2>2 DEF Upload, SameClaim
    <2> QED BY <2>1, <2>2
  <1>7. \A x \in Calls : Sealed(x)' => Sealed(x) /\ call'[x].want = call[x].want
    BY <1>1 DEF Sealed, SameClaim
  <1>8. OneUpload'
    BY <1>1, <1>5, <1>6 DEF LInv, UploadsOK, OneUpload, Active, SameClaim
  <1>9. NoUploadLeft'
    BY <1>1, <1>5, <1>6, <1>7 DEF LInv, UploadsOK, NoUploadLeft, SameClaim
  <1>10. SameVerdict'
    BY <1>1, <1>7 DEF LInv, UploadsOK, SameVerdict, SameClaim
  <1> QED BY <1>8, <1>9, <1>10 DEF UploadsOK

\* Workers that go on, or give up, without a message.
LEMMA QuietUploads ==
    ASSUME LInv, NEW w \in Workers, UNCHANGED <<rowVars, call>>,
           NEW s \in WorkerStates, worker' = [worker EXCEPT ![w] = s],
           s.tok \in {0, worker[w].tok}, s.mode = "idle" => s.tok = 0,
           s.mode \in {"idle", "running", "broken"},
           s.mode = "running" =>
              worker[w].mode = "fetching" /\ s.tok = worker[w].tok
    PROVE  ToksOK' /\ WaitOK' /\ UploadsOK'
  <1>0. /\ worker \in [Workers -> WorkerStates]
        /\ Active => token # 0 /\ owner \in Workers
        /\ claims \in Nat
    BY MaxClaimsAssumption
    DEF LInv, IInv, TypeOK, RowOK, ActiveClaimIsNewest, Active
  <1>1. /\ worker'[w] = s
        /\ \A x \in Workers \ {w} : worker'[x] = worker[x]
        /\ call' = call /\ claims' = claims /\ SameClaim
    BY <1>0 DEF rowVars, SameClaim
  <1>2. ToksOK'
    BY <1>0, <1>1 DEF LInv, ToksOK
  <1>3. WaitOK'
    BY <1>1 DEF LInv, WaitOK
  <1>4. Active => (MayUpload(owner)' => MayUpload(owner))
    BY <1>0, <1>1 DEF MayUpload, SameClaim
  <1>5. \A x \in Calls : /\ Upload(x)' => Upload(x)
                         /\ Sealed(x)' => Sealed(x) /\ call'[x].want = call[x].want
    BY <1>1 DEF Upload, Sealed, SameClaim
  <1>6. UploadsOK'
    BY <1>1, <1>4, <1>5, UploadsFrame DEF LInv, SameClaim, Active
  <1> QED BY <1>2, <1>3, <1>6

\* No step of a worker uploads a claim a second time.
LEMMA WorkerUploads ==
    ASSUME LInv, NEW w \in Workers, WorkerStep(w)
    PROVE  ToksOK' /\ WaitOK' /\ UploadsOK'
  <1>0. /\ worker[w] \in WorkerStates
        /\ worker \in [Workers -> WorkerStates]
        /\ worker[w].mode = "idle" => worker[w].tok = 0
    BY DEF LInv, IInv, TypeOK, WaitOK
  <1>1. ASSUME NEW c \in Calls, SendStart(w, c) \/ SendRestart(w, c)
        PROVE  ToksOK' /\ WaitOK' /\ UploadsOK'
    <2>1. /\ Send(w, c, "start", worker[w].tok, "none", "starting")
          /\ worker[w].mode \in {"idle", "fetching", "running"}
      BY <1>0, <1>1 DEF SendStart, SendRestart
    <2>2. /\ call[c] = Idle /\ UNCHANGED rowVars
          /\ call' = [call EXCEPT ![c] =
                         Message("start", w, worker[w].tok, "none")]
          /\ worker' = [worker EXCEPT ![w] =
                 [mode |-> "starting", tok |-> worker[w].tok, on |-> c]]
      BY <2>1 DEF Send, rowVars
    <2>3. "starting" \in Modes \ {"idle"}
      BY DEF Modes
    <2> QED BY <2>1, <2>2, <2>3, PostUploads
  <1>2. ASSUME NEW c \in Calls, SendHeartbeat(w, c)
        PROVE  ToksOK' /\ WaitOK' /\ UploadsOK'
    BY <1>2, PostUploads DEF SendHeartbeat, rowVars
  <1>3. ASSUME NEW c \in Calls, SendFailure(w, c)
        PROVE  ToksOK' /\ WaitOK' /\ UploadsOK'
    <2>1. /\ Send(w, c, "failure", worker[w].tok, "none", "failing")
          /\ "failing" \in Modes \ {"idle"}
      BY <1>3 DEF SendFailure, Modes
    <2>2. /\ call[c] = Idle /\ UNCHANGED rowVars
          /\ call' = [call EXCEPT ![c] =
                         Message("failure", w, worker[w].tok, "none")]
          /\ worker' = [worker EXCEPT ![w] =
                 [mode |-> "failing", tok |-> worker[w].tok, on |-> c]]
      BY <2>1 DEF Send, rowVars
    <2> QED BY <2>1, <2>2, PostUploads
  <1>4. ASSUME NEW c \in Calls, SendResult(w, c)
        PROVE  ToksOK' /\ WaitOK' /\ UploadsOK'
    BY <1>4, ResultUploads
  <1>5. CASE Download(w) \/ ConversionFails(w)
    <2>1. PICK mode \in {"running", "broken"} :
             /\ worker' = [worker EXCEPT ![w].mode = mode]
             /\ mode = "running" => worker[w].mode = "fetching"
      BY <1>5 DEF Download, ConversionFails
    <2> DEFINE s == [worker[w] EXCEPT !.mode = mode]
    <2>2. s \in WorkerStates /\ s.mode = mode /\ s.tok = worker[w].tok
      BY <1>0 DEF WorkerStates, Modes
    <2>3. worker' = [worker EXCEPT ![w] = s]
      BY <1>0, <2>1
    <2>4. UNCHANGED <<rowVars, call>>
      BY <1>5 DEF Download, ConversionFails, rowVars
    <2> HIDE DEF s
    <2> QED BY <2>1, <2>2, <2>3, <2>4, QuietUploads
  <1>6. CASE RequestTimesOut(w)
    <2> DEFINE s == AfterReply(worker[w], FALSE, 0)
    <2>0. 0 \in 0..MaxClaims
      BY MaxClaimsAssumption
    <2>1. s \in WorkerStates
      BY <1>0, <2>0, AfterReplyType
    <2>2. /\ s.mode \in {"idle", "broken"} /\ s.tok \in {0, worker[w].tok}
          /\ s.mode = "idle" => s.tok = 0
      BY DEF AfterReply, Asleep
    <2>3. worker' = [worker EXCEPT ![w] = s] /\ UNCHANGED <<rowVars, call>>
      BY <1>6 DEF RequestTimesOut, rowVars
    <2> HIDE DEF s
    <2> QED BY <2>1, <2>2, <2>3, QuietUploads
  <1>7. CASE WorkerCrashes(w)
    <2>1. Asleep \in WorkerStates
      BY MaxClaimsAssumption DEF Asleep, WorkerStates, Modes
    <2> QED BY <1>7, <2>1, QuietUploads DEF WorkerCrashes, Asleep, rowVars
  <1> QED BY <1>1, <1>2, <1>3, <1>4, <1>5, <1>6, <1>7 DEF WorkerStep

\* Nor does a user or a fault.
LEMMA OtherUploads ==
    ASSUME LInv, UserStep \/ Fault
    PROVE  ToksOK' /\ WaitOK' /\ UploadsOK'
  <1> USE MaxClaimsAssumption
  <1>0. /\ call \in [Calls -> Requests] /\ worker \in [Workers -> WorkerStates]
        /\ Active => token # 0 /\ owner \in Workers
        /\ claims \in Nat /\ 0 \in 0..claims
    BY DEF LInv, IInv, TypeOK, RowOK, ActiveClaimIsNewest, Active
  <1>1. ASSUME NEW c \in Calls, SendView(c) \/ SendRetry(c)
        PROVE  ToksOK' /\ WaitOK' /\ UploadsOK'
    <2>1. /\ call[c] = Idle
          /\ call'[c].op \in {"view", "retry"} /\ call'[c].at = "read"
          /\ call'[c].tok = 0 /\ call'[c].seen = 0
          /\ \A x \in Calls \ {c} : call'[x] = call[x]
          /\ worker' = worker /\ claims' = claims /\ SameClaim
      BY <1>0, <1>1 DEF SendView, SendRetry, Message, rowVars, SameClaim
    <2>2. \A x \in Workers : worker[x].mode = "starting" =>
             worker[x].on \in Calls \ {c}
      BY <2>1 DEF LInv, WaitOK, Idle
    <2>3. ToksOK'
      BY <1>0, <2>1 DEF LInv, ToksOK
    <2>4. WaitOK'
      BY <2>1, <2>2 DEF LInv, WaitOK
    <2>5. Active => (MayUpload(owner)' => MayUpload(owner))
      BY <1>0, <2>1, <2>2 DEF MayUpload, SameClaim
    <2>6. \A x \in Calls :
             /\ Upload(x)' => Upload(x)
             /\ Sealed(x)' => Sealed(x) /\ call'[x].want = call[x].want
      BY <2>1 DEF Upload, Sealed, SameClaim
    <2>7. UploadsOK'
      BY <2>1, <2>5, <2>6, UploadsFrame DEF LInv, SameClaim, Active
    <2> QED BY <2>3, <2>4, <2>7
  <1>2. CASE Cancel
    <2>1. /\ status' = "cancelled" /\ claims' = claims
          /\ call' = call /\ worker' = worker
      BY <1>2 DEF Cancel, MoveTo
    <2>2. UploadsOK'
      BY <2>1 DEF UploadsOK, OneUpload, NoUploadLeft, SameVerdict
    <2> QED BY <2>1, <2>2 DEF LInv, ToksOK, WaitOK
  <1>3. ASSUME NEW c \in Calls, DatabaseError(c)
        PROVE  ToksOK' /\ WaitOK' /\ UploadsOK'
    <2>1. Reply(c, FALSE, 0) /\ SameClaim /\ claims' = claims
      BY <1>3 DEF DatabaseError, SameClaim, rowVars
    <2>2. ToksOK' /\ WaitOK'
      <3>1. claims' \in Nat /\ claims <= claims' /\ FALSE \in BOOLEAN
        BY <1>0, <2>1
      <3> QED BY <1>0, <2>1, <3>1, ReplyBooks
    <2> QED BY <2>1, <2>2, ReplyUploads
  <1>4. CASE ServerCrashes
    <2>1. /\ \A c \in Calls : call'[c] = Idle
          /\ SameClaim /\ claims' = claims
          /\ \A w \in Workers :
                worker'[w] = IF worker[w].on = NoCall THEN worker[w]
                             ELSE AfterReply(worker[w], FALSE, 0)
      BY <1>4 DEF ServerCrashes, SameClaim, rowVars
    <2>2. \A w \in Workers :
             \/ worker'[w] = worker[w] /\ worker[w].mode # "starting"
             \/ /\ worker'[w].mode \in {"idle", "broken"}
                /\ worker'[w].tok \in {0, worker[w].tok}
                /\ worker'[w].mode = "idle" => worker'[w].tok = 0
      <3> TAKE w \in Workers
      <3>1. CASE worker[w].on = NoCall
        BY <2>1, <3>1, NoCallAssumption DEF LInv, WaitOK
      <3>2. CASE worker[w].on # NoCall
        <4>1. worker'[w] = AfterReply(worker[w], FALSE, 0)
          BY <2>1, <3>2
        <4> QED BY <4>1 DEF AfterReply, Asleep
      <3> QED BY <3>1, <3>2
    <2>3. ToksOK'
      BY <1>0, <2>1, <2>2 DEF LInv, ToksOK, Idle
    <2>4. WaitOK'
      BY <2>2 DEF LInv, WaitOK
    <2>5. Active => (MayUpload(owner)' => MayUpload(owner))
      BY <1>0, <2>1, <2>2 DEF MayUpload, SameClaim
    <2>6. \A x \in Calls : ~Upload(x)' /\ ~Sealed(x)'
      BY <2>1 DEF Upload, Sealed, Idle
    <2>7. UploadsOK'
      BY <2>1, <2>5, <2>6, UploadsFrame DEF LInv, SameClaim, Active
    <2> QED BY <2>3, <2>4, <2>7
  <1>5. CASE FileCorrupts
    BY <1>5 DEF FileCorrupts, rowVars, LInv, ToksOK, WaitOK, UploadsOK,
       OneUpload, NoUploadLeft, SameVerdict, MayUpload, Upload, Sealed
  <1> QED BY <1>1, <1>2, <1>3, <1>4, <1>5 DEF UserStep, Fault

LEMMA InitUploads == Init => LInv
  <1>1. Init => ToksOK /\ WaitOK /\ UploadsOK
    BY DEF Init, ToksOK, WaitOK, UploadsOK, OneUpload, NoUploadLeft,
           SameVerdict, Idle, Asleep
  <1> QED BY <1>1, InitInv DEF LInv

LEMMA NextUploads == LInv /\ [Next]_vars => LInv'
  <1> SUFFICES ASSUME LInv, [Next]_vars PROVE LInv'
    OBVIOUS
  <1>0. IInv'
    BY NextInv DEF LInv
  <1>1. ASSUME NEW c \in Calls, ServerStep(c)
        PROVE  LInv'
    BY <1>0, <1>1, ServerBooks, ServerUploads DEF LInv
  <1>2. ASSUME NEW w \in Workers, WorkerStep(w)
        PROVE  LInv'
    BY <1>0, <1>2, WorkerUploads DEF LInv
  <1>3. CASE UserStep \/ Fault
    BY <1>0, <1>3, OtherUploads DEF LInv
  <1>4. CASE UNCHANGED vars
    BY <1>0, <1>4 DEF vars, LInv, ToksOK, WaitOK, UploadsOK, OneUpload,
       NoUploadLeft, SameVerdict, MayUpload, Upload, Sealed
  <1> QED BY <1>1, <1>2, <1>3, <1>4 DEF Next

\* A claim is uploaded at most once, and who completes or recovers a finalizing
\* row was told the status its upload announced (upload_result,
\* _recover_finalizing_result).
THEOREM OneUploadPerClaim == Spec => [](OneUpload /\ NoUploadLeft /\ SameVerdict)
  <1>1. Spec => []LInv
    BY InitUploads, NextUploads, PTL DEF Spec
  <1>2. LInv => OneUpload /\ NoUploadLeft /\ SameVerdict
    BY DEF LInv, UploadsOK
  <1> QED BY <1>1, <1>2, PTL

-----------------------------------------------------------------------------
(* The refinement of ResultLease. *)

\* A step that does not change the columns the lease is made of.
LEMMA LeaseStutter ==
    ASSUME UNCHANGED <<status, token, claims, intended>>
    PROVE  UNCHANGED Lease!leaseVars
  BY DEF Lease!leaseVars, LeasePhase

\* A step that ends a claim, or happens on an open job.
LEMMA LeaseRelease ==
    ASSUME status \notin Outcomes, status' \notin Outcomes,
           ~Active', claims' = claims
    PROVE  [Lease!LeaseNext]_(Lease!leaseVars)
  <1>1. CASE Active
    BY <1>1 DEF Lease!LeaseNext, Lease!Release, LeasePhase, Active, Outcomes
  <1>2. CASE ~Active
    BY <1>2 DEF Lease!leaseVars, LeasePhase, Active
  <1> QED BY <1>1, <1>2

\* A completed finalization delivers what was sealed.
LEMMA LeaseDeliver ==
    ASSUME status = "finalizing", intended \in Outcomes, status' = intended,
           UNCHANGED <<token, claims>>
    PROVE  [Lease!LeaseNext]_(Lease!leaseVars)
  BY DEF Lease!LeaseNext, Lease!Deliver, LeasePhase, Outcomes

\* Every step of a handler is a step of the lease or leaves it alone.
LEMMA ServerLease ==
    ASSUME LInv, NEW c \in Calls, ServerStep(c)
    PROVE  [Lease!LeaseNext]_(Lease!leaseVars)
  <1>0. /\ Fits(call[c]) /\ call[c] \in Requests
        /\ Active => token # 0 /\ owner \in Workers
        /\ status = "finalizing" => intended \in Outcomes
        /\ status \in Statuses
    BY DEF LInv, IInv, TypeOK, RowOK, ActiveClaimIsNewest,
           FinalizingIsRecoverable, Active, CallsOK, CallOK
  <1>1. CASE \/ StartReads(c) \/ Recheck(c) \/ Answer(c) \/ ViewReads(c)
             \/ Look(c) \/ Reread(c) \/ HeartbeatReads(c) \/ ResultReads(c)
             \/ Replace(c) \/ FailReads(c) \/ RetryReads(c)
    <2>1. UNCHANGED <<status, token, claims, intended>>
      BY <1>1 DEF StartReads, Recheck, Answer, ViewReads, Look, Reread,
         HeartbeatReads, ResultReads, Replace, FailReads, RetryReads, rowVars
    <2> QED BY <2>1, LeaseStutter
  <1>2. CASE Expire(c) \/ Abandon(c)
    <2>1. CASE UNCHANGED rowVars
      BY <2>1, LeaseStutter DEF rowVars
    <2>2. CASE /\ status \in {"processing", "finalizing"}
               /\ status' = "pending" /\ claims' = claims
      BY <2>2, LeaseRelease DEF Active, Outcomes
    <2> QED BY <1>2, <2>1, <2>2 DEF Expire, Abandon, rowVars
  <1>3. CASE Requeue(c)
    <2>1. CASE UNCHANGED rowVars
      BY <2>1, LeaseStutter DEF rowVars
    <2>2. CASE MoveTo("pending")
      BY <2>2, LeaseRelease DEF MoveTo, CanTransition, Allowed, Active, Outcomes
    <2> QED BY <1>3, <2>1, <2>2 DEF Requeue, rowVars
  <1>4. CASE Claim(c)
    <2>1. CASE /\ status # "processing" /\ CanTransition("processing")
               /\ GrantClaim(call[c].by)
      <3>1. LeasePhase \in {"open", "sealed"} /\ LeasePhase' = "held"
        BY <2>1 DEF LeasePhase, GrantClaim, CanTransition, Allowed, Outcomes
      <3> QED BY <2>1, <3>1 DEF Lease!LeaseNext, Lease!Grant, GrantClaim
    <2>2. CASE UNCHANGED <<status, token, claims, intended>>
      BY <2>2, LeaseStutter
    <2> QED BY <1>4, <2>1, <2>2 DEF Claim, rowVars
  <1>5. CASE Beat(c)
    <2>1. UNCHANGED <<status, token, claims, intended>>
      BY <1>5 DEF Beat, rowVars
    <2> QED BY <2>1, LeaseStutter
  <1>6. CASE Adopt(c)
    <2>1. CASE /\ OwnsFinalization(call[c].own, call[c].seen)
               /\ Deliver(call[c].want)
      <3>1. Sealed(c)
        BY <1>6, <2>1 DEF Adopt, Sealed, OwnsFinalization
      <3>2. call[c].want = intended
        BY <2>1, <3>1 DEF LInv, UploadsOK, SameVerdict, OwnsFinalization
      <3> QED BY <1>0, <2>1, <3>2, LeaseDeliver DEF OwnsFinalization, Deliver
    <2>2. CASE UNCHANGED rowVars
      BY <2>2, LeaseStutter DEF rowVars
    <2> QED BY <1>6, <2>1, <2>2 DEF Adopt, rowVars
  <1>7. CASE Prepare(c)
    <2>1. CASE /\ OwnsProcessing(call[c].by, call[c].tok)
               /\ Seal(call[c].tok, call[c].want)
               /\ UNCHANGED <<token, claims>>
      <3>1. call[c].want \in Outcomes
        BY <1>0, <1>7 DEF Prepare, Fits
      <3>2. LeasePhase = "held" /\ LeasePhase' = "sealed"
        BY <2>1 DEF LeasePhase, OwnsProcessing, Seal
      <3> QED BY <2>1, <3>1, <3>2
              DEF Lease!LeaseNext, Lease!SealVerdict, Seal
    <2>2. CASE UNCHANGED rowVars
      BY <2>2, LeaseStutter DEF rowVars
    <2> QED BY <1>7, <2>1, <2>2 DEF Prepare, rowVars
  <1>8. CASE Rollback(c)
    <2>1. CASE /\ OwnsFinalization(call[c].by, call[c].tok)
               /\ status' = "processing" /\ UNCHANGED <<token, claims>>
      <3>1. LeasePhase = "sealed" /\ LeasePhase' = "held"
        BY <2>1 DEF LeasePhase, OwnsFinalization
      <3> QED BY <2>1, <3>1 DEF Lease!LeaseNext, Lease!Unseal
    <2>2. CASE UNCHANGED rowVars
      BY <2>2, LeaseStutter DEF rowVars
    <2> QED BY <1>8, <2>1, <2>2 DEF Rollback, rowVars
  <1>9. CASE Complete(c)
    <2>1. CASE /\ OwnsFinalization(call[c].by, call[c].tok)
               /\ Deliver(call[c].want)
      <3>1. Sealed(c)
        BY <1>9, <2>1 DEF Complete, Sealed, OwnsFinalization
      <3>2. call[c].want = intended
        BY <2>1, <3>1 DEF LInv, UploadsOK, SameVerdict, OwnsFinalization
      <3> QED BY <1>0, <2>1, <3>2, LeaseDeliver DEF OwnsFinalization, Deliver
    <2>2. CASE UNCHANGED rowVars
      BY <2>2, LeaseStutter DEF rowVars
    <2> QED BY <1>9, <2>1, <2>2 DEF Complete, rowVars
  <1>10. CASE MarkFailed(c)
    <2>1. CASE UNCHANGED rowVars
      BY <2>1, LeaseStutter DEF rowVars
    <2>2. CASE CanTransition("failed") /\ status' = "failed" /\ claims' = claims
      BY <2>2, LeaseRelease DEF CanTransition, Allowed, Active, Outcomes
    <2> QED BY <1>10, <2>1, <2>2 DEF MarkFailed, rowVars
  <1> QED BY <1>1, <1>2, <1>3, <1>4, <1>5, <1>6, <1>7, <1>8, <1>9, <1>10
          DEF ServerStep

\* The job is a lease on its result: claims are granted in order, one at a
\* time, and whoever delivers it delivers the verdict the current claim sealed
\* (transition_conversion and the finalization calls of database.py).
THEOREM LeaseRefined == Spec => ImplementsLease
  <1>1. Init => Lease!LeaseInit
    BY DEF Init, Lease!LeaseInit, LeasePhase, Outcomes
  <1>2. LInv /\ [Next]_vars => [Lease!LeaseNext]_(Lease!leaseVars)
    <2> SUFFICES ASSUME LInv, [Next]_vars
                 PROVE  [Lease!LeaseNext]_(Lease!leaseVars)
      OBVIOUS
    <2>1. ASSUME NEW c \in Calls, ServerStep(c)
          PROVE  [Lease!LeaseNext]_(Lease!leaseVars)
      BY <2>1, ServerLease
    <2>2. ASSUME NEW w \in Workers, WorkerStep(w)
          PROVE  UNCHANGED Lease!leaseVars
      <3>1. UNCHANGED <<status, token, claims, intended>>
        BY <2>2 DEF WorkerStep, SendStart, SendRestart, SendHeartbeat,
           SendResult, SendFailure, Send, Download, ConversionFails,
           RequestTimesOut, WorkerCrashes, rowVars
      <3> QED BY <3>1, LeaseStutter
    <2>3. ASSUME NEW c \in Calls, SendView(c) \/ SendRetry(c)
          PROVE  UNCHANGED Lease!leaseVars
      BY <2>3, LeaseStutter DEF SendView, SendRetry, rowVars
    <2>4. CASE Cancel
      BY <2>4, LeaseRelease
      DEF Cancel, MoveTo, CanTransition, Allowed, Active, Outcomes
    <2>5. CASE Fault
      BY <2>5, LeaseStutter
      DEF Fault, DatabaseError, ServerCrashes, FileCorrupts, rowVars
    <2>6. CASE UNCHANGED vars
      BY <2>6, LeaseStutter DEF vars, rowVars
    <2> QED BY <2>1, <2>2, <2>3, <2>4, <2>5, <2>6 DEF Next, UserStep
  <1>3. Spec => []LInv
    BY InitUploads, NextUploads, PTL DEF Spec
  <1> QED BY <1>1, <1>2, <1>3, PTL DEF Spec, ImplementsLease, Lease!Spec
=============================================================================
