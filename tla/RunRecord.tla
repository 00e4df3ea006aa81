------------------------------ MODULE RunRecord ------------------------------
(***************************************************************************)
(* One row of the table scheduled_agent_runs and the UPDATE statements of  *)
(* db/services/scheduled-agent-jobs.ts over it.  Every operator below is a *)
(* function from the row before the statement to the row after it: where   *)
(* the WHERE clause does not match, the row is returned as it was.         *)
(*                                                                         *)
(* Abstractions.  A timestamp column is "null", "ahead" of now or "past".  *)
(* A lease token is a fresh UUID per claim and a claim adds one to         *)
(* attempts, so the token of a claim is named by its attempt number.  A    *)
(* worker session is named by the attempt whose message created it.  A     *)
(* pending question is its number, a report token the number of its claim. *)
(* NoValue stands for a null column.                                       *)
(***************************************************************************)
EXTENDS Naturals

CONSTANT MaxAttempts   \* dispatch attempts before a run is abandoned, 3 in the code

ASSUME MaxAttemptsAssumption == MaxAttempts \in Nat \ {0}

NoValue == 0
Attempt == 1 .. MaxAttempts

RunStatus == {"queued", "running", "waiting_for_input", "completed", "dead_letter"}
Terminal == {"completed", "dead_letter"}
Reportable == Terminal \union {"waiting_for_input"}

\* The kinds of ScheduledRunOutcome; "exhausted" is exhaustedRunOutcome.
Outcome == {"null", "result", "nothing_to_report", "exhausted"}

\* The report states an Eve or Linq conversation can reach.
ReportStatus == {"not_ready", "not_needed", "pending", "queued", "delivered", "suppressed"}

Timestamp == {"null", "ahead", "past"}

Row == [status : RunStatus, attempts : 0 .. MaxAttempts, retryAt : Timestamp,
        lease : 0 .. MaxAttempts, leaseExpires : Timestamp,
        session : 0 .. MaxAttempts, deferred : Nat, pending : Nat,
        outcome : Outcome, report : ReportStatus, sequence : Nat,
        reportLease : Nat, reportExpires : Timestamp]

\* The row materializeDueScheduledAgentRuns inserts: every column at its default.
NewRow == [status |-> "queued", attempts |-> 0, retryAt |-> "null",
           lease |-> NoValue, leaseExpires |-> "null", session |-> NoValue,
           deferred |-> NoValue, pending |-> NoValue, outcome |-> "null",
           report |-> "not_ready", sequence |-> 0,
           reportLease |-> NoValue, reportExpires |-> "null"]

-----------------------------------------------------------------------------
\* Claiming work.

\* Mutant: a claim whose dispatcher died is never picked up again.
ReadyToClaimQueuedOnly(r) == r.status = "queued" /\ r.retryAt # "ahead"

\* The WHERE clause of claimReadyScheduledAgentRuns.
ReadyToClaim(r) ==
    /\ \/ r.status = "queued"
       \/ /\ r.status = "running"
          /\ r.session = NoValue
          /\ r.leaseExpires = "past"
    /\ r.retryAt # "ahead"

\* A ready run that still has an attempt left is leased to this tick.
ClaimedRow(r) ==
    [r EXCEPT !.status = "running", !.attempts = @ + 1, !.lease = r.attempts + 1,
              !.leaseExpires = "ahead", !.retryAt = "null", !.deferred = NoValue]

\* Mutant: the abandoned run is left without its outcome.
ExhaustedRowSilently(r) ==
    [r EXCEPT !.status = "dead_letter", !.report = "pending", !.sequence = @ + 1,
              !.lease = NoValue, !.leaseExpires = "null", !.retryAt = "null"]

\* A ready run whose attempts are used up is abandoned, and that is reported.
ExhaustedRow(r) ==
    [r EXCEPT !.status = "dead_letter", !.outcome = "exhausted",
              !.report = "pending", !.sequence = @ + 1,
              !.lease = NoValue, !.leaseExpires = "null", !.retryAt = "null"]

-----------------------------------------------------------------------------
\* Updates of the dispatcher and of the worker, all fenced by the lease token.

\* Mutant: the token is left out of the WHERE clause.
HoldsAnyLease(r, lease) == r.status = "running"

HoldsLease(r, lease) == r.status = "running" /\ r.lease = lease

\* isScheduledAgentRunLeaseActive.
LeaseActive(r, lease) == HoldsLease(r, lease) /\ r.leaseExpires = "ahead"

SetSession(r, lease, session) ==
    IF HoldsLease(r, lease) THEN [r EXCEPT !.session = session] ELSE r

MarkStarted(r, lease, session) ==
    IF HoldsLease(r, lease)
    THEN [r EXCEPT !.session = session, !.leaseExpires = "ahead"]
    ELSE r

\* Mutant: a report that is already open is kept for the new question.
WaitForInputKeepingReport(r, lease, question) ==
    IF HoldsLease(r, lease)
    THEN [r EXCEPT !.status = "waiting_for_input", !.pending = question,
                   !.leaseExpires = "null", !.sequence = @ + 1,
                   !.report = IF @ = "queued" THEN @ ELSE "pending"]
    ELSE r

WaitForInput(r, lease, question) ==
    IF HoldsLease(r, lease)
    THEN [r EXCEPT !.status = "waiting_for_input", !.pending = question,
                   !.leaseExpires = "null",
                   !.report = "pending", !.sequence = @ + 1]
    ELSE r

DeferCompletion(r, lease, turn) ==
    IF HoldsLease(r, lease) THEN [r EXCEPT !.deferred = turn] ELSE r

\* Whether completeScheduledAgentRun accepts this outcome from this turn: a turn
\* that delegated background work does not finish the run, and silence never
\* finishes a run with a deferral.
MayComplete(r, lease, turn, kind) ==
    /\ HoldsLease(r, lease)
    /\ \/ r.deferred = NoValue
       \/ kind # "nothing_to_report" /\ r.deferred # turn

CompleteRun(r, lease, turn, kind) ==
    IF MayComplete(r, lease, turn, kind)
    THEN [r EXCEPT !.status = "completed", !.outcome = kind,
                   !.report = IF kind = "nothing_to_report" THEN "not_needed" ELSE "pending",
                   !.sequence = IF kind = "nothing_to_report" THEN @ ELSE @ + 1,
                   !.lease = NoValue, !.leaseExpires = "null",
                   !.deferred = NoValue, !.pending = NoValue]
    ELSE r

\* Mutant: the attempt about to be made is counted as used.
ReleaseRunEarly(r, lease) ==
    IF r.lease # lease THEN r
    ELSE IF r.attempts + 1 >= MaxAttempts
         THEN [ExhaustedRow(r) EXCEPT !.deferred = NoValue]
         ELSE [r EXCEPT !.status = "queued", !.retryAt = "ahead", !.deferred = NoValue,
                        !.lease = NoValue, !.leaseExpires = "null"]

\* Mutant: the token is left out of the WHERE clause.
ReleaseRunUnfenced(r, lease) ==
    IF r.attempts >= MaxAttempts
    THEN [ExhaustedRow(r) EXCEPT !.deferred = NoValue]
    ELSE [r EXCEPT !.status = "queued", !.retryAt = "ahead", !.deferred = NoValue,
                   !.lease = NoValue, !.leaseExpires = "null"]

\* releaseScheduledAgentRun.  Its SELECT and its UPDATE name the lease but no
\* status.  They are one step here: the lease fences attempts and outcome, and the
\* report status, which the UPDATE writes back as the SELECT saw it, is overwritten
\* before any statement reads it in a queued or running row.
ReleaseRun(r, lease) ==
    IF r.lease # lease THEN r
    ELSE IF r.attempts >= MaxAttempts
         THEN [ExhaustedRow(r) EXCEPT !.deferred = NoValue]
         ELSE [r EXCEPT !.status = "queued", !.retryAt = "ahead", !.deferred = NoValue,
                        !.lease = NoValue, !.leaseExpires = "null"]

-----------------------------------------------------------------------------
\* Updates of the route that hands the user's answer to the worker.

ClaimInput(r, lease) ==
    IF r.status = "waiting_for_input" /\ r.lease = lease
    THEN [r EXCEPT !.status = "running", !.leaseExpires = "ahead"]
    ELSE r

RestoreInput(r, lease) ==
    IF HoldsLease(r, lease)
    THEN [r EXCEPT !.status = "waiting_for_input", !.deferred = NoValue,
                   !.leaseExpires = "null"]
    ELSE r

FinishInput(r, lease) ==
    IF HoldsLease(r, lease)
    THEN [r EXCEPT !.deferred = NoValue, !.pending = NoValue, !.report = "not_ready",
                   !.reportLease = NoValue, !.reportExpires = "null"]
    ELSE r

-----------------------------------------------------------------------------
\* Updates of the report delivery to an Eve or Linq conversation.

ReportClaimable(r) == r.status \in Reportable /\ r.report = "pending"

ClaimReport(r, token) ==
    [r EXCEPT !.report = "queued", !.reportLease = token, !.reportExpires = "ahead"]

\* Mutant: queued reports are never looked at again.
ReportNeverStale(r) == FALSE

\* The stale reports listRecoverableScheduledReports hands out again.
ReportStale(r) ==
    /\ r.status \in Reportable
    /\ r.report = "queued"
    /\ r.reportExpires = "past"

ReopenedReport(r) ==
    [r EXCEPT !.report = "pending", !.reportLease = NoValue, !.reportExpires = "null"]

\* Fenced by the report token alone: neither the run status nor the report status
\* appears in the WHERE clause.
ReleaseReport(r, token) == IF r.reportLease = token THEN ReopenedReport(r) ELSE r

\* Mutant: the report is settled without looking at its token.
MayFinalizeAnyToken(r, token, verdict) ==
    /\ r.report = "queued"
    /\ r.status \in (IF verdict = "suppressed" THEN Terminal ELSE Reportable)

MayFinalize(r, token, verdict) ==
    /\ r.reportLease = token
    /\ r.report = "queued"
    /\ r.status \in (IF verdict = "suppressed" THEN Terminal ELSE Reportable)

FinalizeReport(r, token, verdict) ==
    IF MayFinalize(r, token, verdict)
    THEN [r EXCEPT !.report = verdict, !.reportLease = NoValue, !.reportExpires = "null"]
    ELSE r
=============================================================================
