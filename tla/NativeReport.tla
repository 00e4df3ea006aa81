------------------------------ MODULE NativeReport ------------------------------
(***************************************************************************)
(* The reports of one scheduled run to a Telegram or Kapso conversation    *)
(* (server/schedules/native-report.ts), composed with the outbound lane    *)
(* they go through: the report of a question or an outcome is enqueued as  *)
(* chunks bound to it, and its status is reconciled with the receipts of   *)
(* the chunks.                                                             *)
(*                                                                         *)
(* dispatchNativeScheduledReport is one transaction that locks the run.    *)
(* deliverNativeScheduledReport calls it, drains the lane and calls it     *)
(* again, and so does every tick; the order of the calls is left open, so  *)
(* a delivery that dies between two of them is an ordinary behaviour.  The *)
(* run is reduced to what its reports depend on, which is every statement  *)
(* that writes its status, report status or report sequence: it is claimed,*)
(* asks, is answered, completes, and is released to be retried or given    *)
(* up, also while it waits.  Leases and attempts are in ScheduledRuns; here*)
(* a release may end either way, and whatever ends a lease takes the calls *)
(* fenced by it along.                                                     *)
(***************************************************************************)
EXTENDS Outbox

CONSTANT MaxReports   \* bound: reports of the run, the last one being the outcome's

ASSUME NativeReportAssumption == MaxReports \in Nat \ {0} /\ MaxReports <= MaxMessages

VARIABLES
    run,     \* the row of scheduled_agent_runs; under its lease, whether a call found its
             \* question answerable, the answers that claimed it and have not ended, and
             \* the report's status as a release has read it
    bound    \* scheduled_agent_report_outputs: the report_sequence of each bound row, or 0

nativeVars == <<vars, run, bound>>

ReportStatus == {"not_ready", "not_needed", "pending", "queued",
                 "delivered", "failed", "cancelled", "uncertain"}

RunStatus == {"queued", "running", "waiting_for_input", "completed", "dead_letter", "gone"}
HasLease == {"running", "waiting_for_input"}
Ended == {"completed", "dead_letter", "gone"}

\* A run in another status may have a report's status that a release wrote back.
Reported == run.status \in {"completed", "dead_letter", "waiting_for_input"}

\* Rows are bound as they are enqueued; a queued report has bound rows.
NativeTypeOK ==
    /\ TypeOK
    /\ run \in [status : RunStatus, report : ReportStatus, sequence : 0 .. MaxReports,
                found : BOOLEAN, answers : Nat, read : ReportStatus \union {"none"}]
    /\ bound \in [Message -> 0 .. run.sequence]
    /\ \A m \in Message : outbox[m].report <=> bound[m] # 0
    /\ Reported /\ run.report = "queued" => \E m \in Message : bound[m] = run.sequence

NativeInit ==
    /\ Init
    /\ run = [status |-> "queued", report |-> "not_ready", sequence |-> 0,
              found |-> FALSE, answers |-> 0, read |-> "none"]
    /\ bound = [m \in Message |-> 0]

\* The bound on messages leaves one to every report to come.
Absent == {m \in Message : outbox[m].status = "absent"}
RoomAfter(last, reports) == Cardinality({m \in Absent : m > last}) >= reports
Later == IF run.status \in Ended THEN 0 ELSE MaxReports - run.sequence

-----------------------------------------------------------------------------
\* The run, as far as its reports go.

RunStep == UNCHANGED <<vars, bound>>

\* A step that clears or replaces the lease: calls that hold it match no row any more.
WithoutLease(r) == [r EXCEPT !.found = FALSE, !.answers = 0, !.read = "none"]

NewReport(r, status) ==
    [r EXCEPT !.status = status, !.report = "pending", !.sequence = @ + 1]

\* claimReadyScheduledAgentRuns of a run with an attempt left; it keeps the report.
ClaimsRun ==
    /\ run.status = "queued"
    /\ run' = WithoutLease([run EXCEPT !.status = "running"])
    /\ RunStep

\* waitForScheduledAgentRunInput.
Asks ==
    /\ run.status = "running"
    /\ run.sequence < MaxReports - 1
    /\ run' = NewReport(run, "waiting_for_input")
    /\ RunStep

\* getScheduledAgentRunInput: a question is answerable when its report was delivered.
FindsInput ==
    /\ run.status = "waiting_for_input" /\ run.report = "delivered"
    /\ run' = [run EXCEPT !.found = TRUE]
    /\ RunStep

\* claimScheduledAgentRunInput looks at the status and the lease alone: the question may
\* be another one by now.
ClaimsInput ==
    /\ run.found /\ run.status = "waiting_for_input"
    /\ run' = [run EXCEPT !.status = "running", !.answers = @ + 1]
    /\ RunStep

\* finishScheduledAgentRunInput, restoreScheduledAgentRunInput, each of a running row
\* only, or the death of the route.
AnswerEnds ==
    /\ run.answers > 0
    /\ \/ run' = [run EXCEPT !.answers = @ - 1]
       \/ /\ run.status = "running"
          /\ \/ run' = [run EXCEPT !.answers = @ - 1, !.report = "not_ready"]
             \/ run' = [run EXCEPT !.answers = @ - 1, !.status = "waiting_for_input"]
    /\ RunStep

\* completeScheduledAgentRun, with something to report or nothing.
Completes ==
    /\ run.status = "running"
    /\ \/ run.sequence < MaxReports /\ run' = WithoutLease(NewReport(run, "completed"))
       \/ run' = WithoutLease([run EXCEPT !.status = "completed", !.report = "not_needed"])
    /\ RunStep

\* releaseScheduledAgentRun reads the row and writes in a second statement, a retry the
\* report's status that it read.
ReadsForRelease ==
    /\ run.status \in HasLease
    /\ run' = [run EXCEPT !.read = run.report]
    /\ RunStep

\* It names the lease and no status.  Giving up, as when the claim finds no attempt left,
\* reports the exhaustion, whatever became of the question's report.
Releases ==
    /\ run.status \in HasLease
    /\ \/ /\ run.read # "none"
          /\ run' = WithoutLease([run EXCEPT !.status = "queued", !.report = run.read])
       \/ run.sequence < MaxReports /\ run' = WithoutLease(NewReport(run, "dead_letter"))
    /\ RunStep

Run == ClaimsRun \/ Asks \/ FindsInput \/ ClaimsInput \/ AnswerEnds \/ Completes
       \/ ReadsForRelease \/ Releases

-----------------------------------------------------------------------------
\* dispatchNativeScheduledReport.

\* The bindings of the current report; the rows with its delivery keys are the same,
\* both being inserted in one transaction and protected by a foreign key.
Chunks == {m \in Message : bound[m] = run.sequence /\ run.sequence # 0}

\* Mutant: a cancelled chunk is not decided.
ReceiptIgnoresCancelled(statuses) ==
    CASE "uncertain" \in statuses -> "uncertain"
      [] statuses \intersect {"dispatching", "queued", "cancelled"} # {} -> "queued"
      [] "failed" \in statuses    -> "failed"
      [] OTHER                    -> "delivered"

\* nativeReportReceiptStatus.
Receipt(statuses) ==
    IF "uncertain" \in statuses THEN "uncertain"
    ELSE IF statuses \intersect {"dispatching", "queued"} # {} THEN "queued"
    ELSE IF "failed" \in statuses THEN "failed"
    ELSE IF "cancelled" \in statuses THEN "cancelled"
    ELSE "delivered"

Dispatchable ==
    /\ Reported
    /\ run.report \in {"pending", "queued"}

\* Mutant: the prefix of the delivery keys leaves out the report's number.
ReconcilesEveryReport ==
    /\ Dispatchable
    /\ run.report = "queued" \/ Chunks # {}
    /\ run' = [run EXCEPT !.report =
           IF run.report = "queued" /\ Chunks # {}
           THEN Receipt({outbox[m].status : m \in {n \in Message : bound[n] # 0}}) ELSE "uncertain"]
    /\ UNCHANGED <<vars, bound>>

\* "Queued is the commit seal": chunks without it are a report of unknown fate.
Reconcile ==
    /\ Dispatchable
    /\ run.report = "queued" \/ Chunks # {}
    /\ run' = [run EXCEPT !.report =
           IF run.report = "queued" /\ Chunks # {}
           THEN Receipt({outbox[m].status : m \in Chunks}) ELSE "uncertain"]
    /\ UNCHANGED <<vars, bound>>

\* requireScheduledChannelOwner fails; of a removed member nothing is left to read.
CancelReport ==
    /\ Dispatchable /\ run.report = "pending" /\ Chunks = {}
    /\ ~active
    /\ run' = [run EXCEPT !.report = "cancelled"]
    /\ UNCHANGED <<vars, bound>>

\* Mutant: only the first chunk is bound.
FirstBound(last) ==
    [m \in Message |-> IF m \in Absent /\ m <= last /\ \A n \in Absent : m <= n
                       THEN run.sequence ELSE bound[m]]

Bound(last) ==
    [m \in Message |-> IF m \in Absent /\ m <= last THEN run.sequence ELSE bound[m]]

EnqueueReport(last) ==
    /\ Dispatchable /\ run.report = "pending" /\ Chunks = {}
    /\ RoomAfter(last, Later)
    /\ Enqueue(last, TRUE)
    /\ bound' = Bound(last)
    /\ run' = [run EXCEPT !.report = "queued"]

DispatchReport == Reconcile \/ CancelReport \/ \E last \in Message : EnqueueReport(last)

-----------------------------------------------------------------------------
\* removeWorkspaceMember: the run and its bindings cascade from the membership, and
\* what was queued or in flight is cancelled.
MemberRemoved ==
    /\ run.status # "gone"
    /\ outbox' = [m \in Message |-> [Cancelled(PendingReports)[m] EXCEPT !.report = FALSE]]
    /\ run' = WithoutLease([run EXCEPT !.status = "gone", !.report = "not_ready"])
    /\ bound' = [m \in Message |-> 0]
    /\ UNCHANGED <<active, drain, audit, provider>>

\* The lane goes on as it does without the run.
Lane ==
    /\ \/ \E last \in Message :
              /\ RoomAfter(last, IF run.report = "pending" THEN Later + 1 ELSE Later)
              /\ Enqueue(last, FALSE)
       \/ \E d \in Drainer : Claim(d) \/ Send(d) \/ Record(d) \/ Crash(d)
       \/ \E m \in Message : ExpiryPasses(m) \/ StrayLands(m) \/ Resolve(m)
       \/ RevokeIdentity \/ ArchiveAccount
    /\ UNCHANGED <<run, bound>>

NativeNext ==
    \/ Run
    \/ DispatchReport
    \/ MemberRemoved
    \/ Lane

NativeSpec == NativeInit /\ [][NativeNext]_nativeVars

\* Outbox's fairness, and the tick dispatches every report it finds pending or queued.
NativeFairSpec == NativeSpec /\ Fairness /\ WF_nativeVars(DispatchReport)

-----------------------------------------------------------------------------
Verdict ==
    CASE run.report = "delivered" ->
             Chunks # {} /\ \A m \in Chunks : copies[m] > 0 \/ m \in vouched
      [] run.report = "failed" ->
             /\ \E m \in Chunks : outbox[m].status = "failed"
             /\ \A m \in Chunks : outbox[m].status \in Settled
      [] run.report = "cancelled" -> \A m \in Chunks : outbox[m].status \in Settled
      [] run.report = "uncertain" -> Chunks # {}
      [] OTHER -> TRUE

\* What the report's status says of the conversation is true, and says it of the
\* current report and of all its chunks, whoever cancels, fails or reconciles them, and
\* whatever a release left of an earlier one: "Recovery compares every durable chunk,
\* never a subset" (native-report.ts).
VerdictIsTrue == Reported => Verdict

\* A report gets its verdict without anybody's help, unless the lane waits for the
\* operator to reconcile a message ahead of it.
ReportSettles ==
    Dispatchable ~>
        \/ ~Dispatchable
        \/ \E m \in Message : outbox[m].status = "uncertain" /\ m \notin Chunks
================================================================================
