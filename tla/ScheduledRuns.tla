---------------------------- MODULE ScheduledRuns ----------------------------
(***************************************************************************)
(* One scheduled run of an Eve or Linq conversation, from the queued row   *)
(* to its report.  The actors only meet in the row:                        *)
(*   disp    the cron tick that claimed attempt l (agent/schedules/        *)
(*           dynamic.ts), one per claim, still running when later ticks do *)
(*   turn    the worker turn that attempt's message starts, seen through   *)
(*           the hook agent/hooks/scheduled-run-completion.ts              *)
(*   answer  requests to /internal/scheduled-run/respond                   *)
(*   rep     report turns, one per report token (agent/lib/schedules)      *)
(* Each action is one SQL statement, or one call to Eve, of one actor.     *)
(*                                                                         *)
(* Runs share no state but the tick's batch, so one row is enough.  Eve is *)
(* external: it may start a turn late, end it at any point, deliver hook   *)
(* events of a session already reset, and fail a call it carried out.      *)
(***************************************************************************)
EXTENDS RunRecord

CONSTANTS
    Answerer,      \* concurrent requests to the respond route
    MaxQuestions,  \* bound: questions the worker asks
    MaxFaults      \* bound: crashes, failed calls and overdue leases

ASSUME BoundsAssumption == MaxQuestions \in Nat /\ MaxFaults \in Nat

VARIABLES row, disp, turn, source, answer, rep, asked, faults

actors == <<disp, turn, answer, rep>>
vars == <<row, source, asked, faults, actors>>

\* Bound: report tokens, one per sequence number and one more per fault.
Token == 1 .. MaxQuestions + 1 + MaxFaults

Dispatcher == [pc : {"idle", "claimed", "reset", "sent", "failed", "done"},
               restart : BOOLEAN, session : 0 .. MaxAttempts]
\* number: 1 for the turn a message starts, 2 for the turn background work wakes
\* (bound: one wake).
\* lease: what scheduledRunIdentity returns in the hook for this turn.
\* pc: "started" before a model step, "running" in one, "failing" when it was refused.
Turn == [pc : {"none", "queued", "started", "running", "asking", "failing", "parked", "done"},
         session : 0 .. MaxAttempts, lease : 0 .. MaxAttempts, number : 1 .. 2,
         background : BOOLEAN, question : Nat]
Answer == [pc : {"idle", "found", "claimed", "accepted"}, lease : 0 .. MaxAttempts,
           question : Nat, session : 0 .. MaxAttempts]
\* says: what scheduledReportPrompt puts in the prompt of the report turn.
Report == [pc : {"none", "claimed", "running", "done"}, sequence : Nat,
           says : {"question"} \union Outcome, posted : BOOLEAN]

\* Every column and every actor stays within the states its code can put it in; in
\* particular a run is never claimed more often than MaxAttempts.
TypeOK ==
    /\ row \in Row
    /\ disp \in [Attempt -> Dispatcher]
    /\ turn \in [Attempt -> Turn]
    /\ source \in 0 .. MaxAttempts
    /\ answer \in [Answerer -> Answer]
    /\ rep \in [Token -> Report]
    /\ asked \in 0 .. MaxQuestions
    /\ faults \in 0 .. MaxFaults

NoDispatcher == [pc |-> "idle", restart |-> FALSE, session |-> NoValue]
NoTurn == [pc |-> "none", session |-> NoValue, lease |-> NoValue, number |-> 1,
           background |-> FALSE, question |-> NoValue]
NoAnswer == [pc |-> "idle", lease |-> NoValue, question |-> NoValue, session |-> NoValue]
NoReport == [pc |-> "none", sequence |-> 0, says |-> "null", posted |-> FALSE]

\* An actor that is done keeps nothing but, for a report turn, what it posted.
DispatcherDone == [NoDispatcher EXCEPT !.pc = "done"]
TurnDone == [NoTurn EXCEPT !.pc = "done"]
ReportDone(k) == IF rep[k].posted THEN [rep[k] EXCEPT !.pc = "done"]
                 ELSE [NoReport EXCEPT !.pc = "done"]

Init ==
    /\ row = NewRow
    /\ disp = [l \in Attempt |-> NoDispatcher]
    /\ turn = [l \in Attempt |-> NoTurn]
    /\ source = NoValue
    /\ answer = [a \in Answerer |-> NoAnswer]
    /\ rep = [k \in Token |-> NoReport]
    /\ asked = 0
    /\ faults = 0

Fault == faults < MaxFaults /\ faults' = faults + 1

-----------------------------------------------------------------------------
\* Time: a timestamp that was ahead of now falls behind it.

\* Five minutes without a worker, or six hours with one.
LeaseRunsOut ==
    /\ row.status = "running" /\ row.leaseExpires = "ahead"
    /\ row' = [row EXCEPT !.leaseExpires = "past"]
    /\ UNCHANGED <<actors, source, asked, faults>>

RetryComesDue ==
    /\ row.retryAt = "ahead"
    /\ row' = [row EXCEPT !.retryAt = "past"]
    /\ UNCHANGED <<actors, source, asked, faults>>

\* A report lease that outlives its report turn runs out for free; one that runs
\* out under a live turn is a fault, as the turn will race its replacement.
ReportLeaseRunsOut ==
    /\ row.reportExpires = "ahead"
    /\ row' = [row EXCEPT !.reportExpires = "past"]
    /\ IF rep[row.reportLease].pc = "done" THEN UNCHANGED faults ELSE Fault
    /\ UNCHANGED <<actors, source, asked>>

-----------------------------------------------------------------------------
\* The tick: claim, then reset and send through the scheduled-run channel, then
\* record the session; on an error release the run.

\* Mutant: a ready run is claimed however often it was tried before.
ClaimUnbounded ==
    /\ ReadyToClaim(row)
    /\ row' = ClaimedRow(row)
    /\ disp' = [disp EXCEPT ![row'.lease].pc = "claimed",
                            ![row'.lease].restart = row.session # NoValue]
    /\ UNCHANGED <<turn, answer, rep, source, asked, faults>>

Claim ==
    /\ ReadyToClaim(row)
    /\ row.attempts < MaxAttempts
    /\ row' = ClaimedRow(row)
    /\ disp' = [disp EXCEPT ![row'.lease].pc = "claimed",
                            ![row'.lease].restart = row.session # NoValue]
    /\ UNCHANGED <<turn, answer, rep, source, asked, faults>>

Exhaust ==
    /\ ReadyToClaim(row)
    /\ row.attempts >= MaxAttempts
    /\ row' = ExhaustedRow(row)
    /\ UNCHANGED <<actors, source, asked, faults>>

ResetSource(l) ==
    /\ disp[l].pc = "claimed" /\ disp[l].restart
    /\ source' = NoValue
    /\ disp' = [disp EXCEPT ![l].pc = "reset"]
    /\ UNCHANGED <<row, turn, answer, rep, asked, faults>>

\* Eve accepts the message: it continues the source's session or creates one,
\* and the turn carries the claim's lease in auth.current.
Send(l) ==
    LET session == IF source = NoValue THEN l ELSE source IN
    /\ disp[l].pc = (IF disp[l].restart THEN "reset" ELSE "claimed")
    /\ disp' = [disp EXCEPT ![l].pc = "sent", ![l].session = session]
    /\ turn' = [turn EXCEPT ![l].pc = "queued", ![l].session = session, ![l].lease = l]
    /\ source' = session
    /\ UNCHANGED <<row, answer, rep, asked, faults>>

\* setScheduledRunSession: a missed lease still counts when the row already names
\* this session; otherwise the dispatcher throws into its own catch block.
RecordSession(l) ==
    LET session == disp[l].session
        persisted == HoldsLease(row, l) \/ row.session = session IN
    /\ disp[l].pc = "sent"
    /\ row' = SetSession(row, l, session)
    /\ disp' = [disp EXCEPT ![l] = IF persisted THEN DispatcherDone
                                    ELSE [NoDispatcher EXCEPT !.pc = "failed"]]
    /\ UNCHANGED <<turn, answer, rep, source, asked, faults>>

\* The owner check, the reset, the send or the update throws, whatever it did.
DispatchThrows(l) ==
    /\ disp[l].pc \in {"claimed", "reset", "sent"}
    /\ Fault
    /\ disp' = [disp EXCEPT ![l] = [NoDispatcher EXCEPT !.pc = "failed"]]
    /\ UNCHANGED <<row, turn, answer, rep, source, asked>>

\* The dispatcher's catch block.
DispatchReleases(l) ==
    /\ disp[l].pc = "failed"
    /\ row' = ReleaseRun(row, l)
    /\ disp' = [disp EXCEPT ![l] = DispatcherDone]
    /\ UNCHANGED <<turn, answer, rep, source, asked, faults>>

\* The process dies between two statements of the dispatcher.
DispatchCrashes(l) ==
    /\ disp[l].pc \in {"claimed", "reset", "sent", "failed"}
    /\ Fault
    /\ disp' = [disp EXCEPT ![l] = DispatcherDone]
    /\ UNCHANGED <<row, turn, answer, rep, source, asked>>

-----------------------------------------------------------------------------
\* The worker, through the hook.

TurnStarts(l) ==
    /\ turn[l].pc = "queued"
    /\ row' = MarkStarted(row, turn[l].lease, turn[l].session)
    /\ turn' = [turn EXCEPT ![l].pc = "started"]
    /\ UNCHANGED <<disp, answer, rep, source, asked, faults>>

\* step.started of agent/agent.ts: no model step without a live lease.
StepStarts(l) ==
    /\ turn[l].pc = "started"
    /\ turn' = [turn EXCEPT ![l].pc = IF LeaseActive(row, turn[l].lease) THEN "running"
                                       ELSE "failing"]
    /\ UNCHANGED <<row, disp, answer, rep, source, asked, faults>>

\* input.requested: the session waits for the answer whether or not the row took it.
InputRequested(l) ==
    /\ turn[l].pc = "running"
    /\ asked < MaxQuestions
    /\ asked' = asked + 1
    /\ row' = WaitForInput(row, turn[l].lease, asked')
    /\ turn' = [turn EXCEPT ![l].pc = "asking", ![l].question = asked']
    /\ UNCHANGED <<disp, answer, rep, source, faults>>

\* subagent.completed with a background task still working; the next step follows.
BackgroundDelegated(l) ==
    /\ turn[l].pc = "running" /\ turn[l].number = 1
    /\ row' = DeferCompletion(row, turn[l].lease, turn[l].number)
    /\ turn' = [turn EXCEPT ![l].background = TRUE, ![l].pc = "started"]
    /\ UNCHANGED <<disp, answer, rep, source, asked, faults>>

\* message.completed with finish reason "stop"; the session then waits for the
\* background work, if any is left.
MessageCompleted(l, kind) ==
    /\ turn[l].pc = "running"
    /\ row' = CompleteRun(row, turn[l].lease, turn[l].number, kind)
    /\ turn' = [turn EXCEPT ![l] = IF turn[l].background THEN [@ EXCEPT !.pc = "parked"]
                                    ELSE TurnDone]
    /\ UNCHANGED <<disp, answer, rep, source, asked, faults>>

\* The background work ends and wakes a later turn of the session, which no caller
\* sent: its identity is the session's initiator.
TurnWakes(l) ==
    /\ turn[l].pc = "parked"
    /\ turn' = [turn EXCEPT ![l].pc = "queued", ![l].number = 2,
                            ![l].background = FALSE, ![l].lease = turn[l].session]
    /\ UNCHANGED <<row, disp, answer, rep, source, asked, faults>>

\* turn.failed, turn.cancelled, session.failed or another finish reason.
TurnFails(l) ==
    /\ turn[l].pc \notin {"none", "done"}
    /\ row' = ReleaseRun(row, turn[l].lease)
    /\ turn' = [turn EXCEPT ![l] = TurnDone]
    /\ UNCHANGED <<disp, answer, rep, source, asked, faults>>

-----------------------------------------------------------------------------
\* An answer: the schedules-answer tool finds the waiting run and posts the answer
\* to the respond route, which claims the run, hands the answer over and settles.

\* getScheduledAgentRunInput after the question was delivered, or
\* getScheduledAgentRunInputForReport inside the report turn that holds the report.
FindInput(a) ==
    /\ answer[a].pc = "idle"
    /\ row.status = "waiting_for_input"
    /\ \/ row.report = "delivered"
       \/ \E k \in Token : /\ rep[k].pc = "running"
                           /\ row.report = "queued" /\ row.reportLease = k
    /\ NoValue \notin {row.lease, row.pending, row.session}
    /\ answer' = [answer EXCEPT ![a] = [NoAnswer EXCEPT !.pc = "found", !.lease = row.lease]]
    /\ UNCHANGED <<row, disp, turn, rep, source, asked, faults>>

\* claimScheduledAgentRunInput: 409 unless it claimed a run with a question and a
\* session; a run claimed without them is left running.
AnswerClaims(a) ==
    LET claimed == row.status = "waiting_for_input" /\ row.lease = answer[a].lease
        usable == claimed /\ NoValue \notin {row.pending, row.session} IN
    /\ answer[a].pc = "found"
    /\ row' = ClaimInput(row, answer[a].lease)
    /\ answer' = [answer EXCEPT ![a] =
           IF usable THEN [@ EXCEPT !.pc = "claimed", !.question = row.pending,
                                    !.session = row.session]
           ELSE NoAnswer]
    /\ UNCHANGED <<disp, turn, rep, source, asked, faults>>

\* The turn this answer would resume: it waits in the live session for this question.
Awaiting(a, l) ==
    /\ turn[l].pc = "asking"
    /\ turn[l].question = answer[a].question
    /\ turn[l].session = answer[a].session
    /\ turn[l].session = source

\* Eve accepts the response.  auth.current is now "scheduled-input", so the hook
\* falls back to the initiator, the worker message that created the session.
AnswerAccepted(a, l) ==
    /\ answer[a].pc = "claimed"
    /\ Awaiting(a, l)
    /\ turn' = [turn EXCEPT ![l].pc = "started", ![l].lease = turn[l].session,
                            ![l].question = NoValue]
    /\ answer' = [answer EXCEPT ![a].pc = "accepted"]
    /\ UNCHANGED <<row, disp, rep, source, asked, faults>>

AnswerFinishes(a) ==
    /\ answer[a].pc = "accepted"
    /\ row' = FinishInput(row, answer[a].lease)
    /\ answer' = [answer EXCEPT ![a] = NoAnswer]
    /\ UNCHANGED <<disp, turn, rep, source, asked, faults>>

\* The text matches no option, or the session no longer waits for it.
AnswerRejected(a) ==
    /\ answer[a].pc = "claimed"
    /\ row' = RestoreInput(row, answer[a].lease)
    /\ answer' = [answer EXCEPT ![a] = NoAnswer]
    /\ UNCHANGED <<disp, turn, rep, source, asked, faults>>

\* The route's catch block: respond or the finishing update threw, after the
\* session accepted the answer or before.
AnswerThrows(a) ==
    /\ answer[a].pc \in {"claimed", "accepted"}
    /\ Fault
    /\ row' = RestoreInput(row, answer[a].lease)
    /\ answer' = [answer EXCEPT ![a] = NoAnswer]
    /\ UNCHANGED <<disp, turn, rep, source, asked>>

AnswerCrashes(a) ==
    /\ answer[a].pc \in {"found", "claimed", "accepted"}
    /\ Fault
    /\ answer' = [answer EXCEPT ![a] = NoAnswer]
    /\ UNCHANGED <<row, disp, turn, rep, source, asked>>

-----------------------------------------------------------------------------
\* The report: dispatchScheduledReport claims it and sends a report turn into the
\* conversation; the channel's event handlers finalize or release it.

FreshToken(k) == rep[k].pc = "none" /\ \A j \in 1 .. k - 1 : rep[j].pc # "none"

ReportClaims(k) ==
    /\ ReportClaimable(row)
    /\ FreshToken(k)
    /\ row' = ClaimReport(row, k)
    /\ rep' = [rep EXCEPT ![k] = [pc |-> "claimed", sequence |-> row.sequence, posted |-> FALSE,
                   says |-> IF row.pending # NoValue THEN "question" ELSE row.outcome]]
    /\ UNCHANGED <<disp, turn, answer, source, asked, faults>>

\* The tick's listRecoverableScheduledReports.
StaleReportReopens ==
    /\ ReportStale(row)
    /\ row' = ReopenedReport(row)
    /\ UNCHANGED <<actors, source, asked, faults>>

ReportTurnStarts(k) ==
    /\ rep[k].pc = "claimed" /\ rep[k].says # "null"
    /\ rep' = [rep EXCEPT ![k].pc = "running"]
    /\ UNCHANGED <<row, disp, turn, answer, source, asked, faults>>

\* Eve answers session_not_active: the conversation is gone.
ReportUnwanted(k) ==
    /\ rep[k].pc = "claimed" /\ rep[k].says # "null"
    /\ row' = FinalizeReport(row, k, "suppressed")
    /\ rep' = [rep EXCEPT ![k] = ReportDone(k)]
    /\ UNCHANGED <<disp, turn, answer, source, asked, faults>>

\* The catch block of dispatchScheduledReport: there is nothing to put in the
\* prompt, or the send threw, possibly after Eve had accepted the turn.
ReportDispatchThrows(k) ==
    /\ rep[k].pc = "claimed"
    /\ IF rep[k].says = "null" THEN UNCHANGED faults ELSE Fault
    /\ row' = ReleaseReport(row, k)
    /\ \/ rep[k].says # "null" /\ rep' = [rep EXCEPT ![k].pc = "running"]
       \/ rep' = [rep EXCEPT ![k] = ReportDone(k)]
    /\ UNCHANGED <<disp, turn, answer, source, asked>>

\* action.result of send_message: the user has the report.
ReportPosts(k) ==
    /\ rep[k].pc = "running" /\ ~rep[k].posted
    /\ row' = FinalizeReport(row, k, "delivered")
    /\ rep' = [rep EXCEPT ![k].posted = TRUE]
    /\ UNCHANGED <<disp, turn, answer, source, asked, faults>>

\* message.completed or session.completed.
ReportTurnCompletes(k) ==
    /\ rep[k].pc = "running"
    /\ row' = FinalizeReport(row, k, "suppressed")
    /\ rep' = [rep EXCEPT ![k] = ReportDone(k)]
    /\ UNCHANGED <<disp, turn, answer, source, asked, faults>>

\* turn.cancelled or turn.failed.
ReportTurnFails(k) ==
    /\ rep[k].pc = "running"
    /\ Fault
    /\ row' = ReleaseReport(row, k)
    /\ rep' = [rep EXCEPT ![k] = ReportDone(k)]
    /\ UNCHANGED <<disp, turn, answer, source, asked>>

ReportCrashes(k) ==
    /\ rep[k].pc = "claimed"
    /\ Fault
    /\ rep' = [rep EXCEPT ![k] = ReportDone(k)]
    /\ UNCHANGED <<row, disp, turn, answer, source, asked>>

-----------------------------------------------------------------------------
Clock == LeaseRunsOut \/ RetryComesDue \/ ReportLeaseRunsOut

Tick == Claim \/ Exhaust \/ StaleReportReopens

Dispatch(l) ==
    \/ ResetSource(l) \/ Send(l) \/ RecordSession(l) \/ DispatchThrows(l)
    \/ DispatchReleases(l) \/ DispatchCrashes(l)

Work(l) ==
    \/ TurnStarts(l) \/ StepStarts(l) \/ InputRequested(l) \/ BackgroundDelegated(l)
    \/ \E kind \in {"result", "nothing_to_report"} : MessageCompleted(l, kind)
    \/ TurnWakes(l) \/ TurnFails(l)

Respond(a) ==
    \/ FindInput(a) \/ AnswerClaims(a) \/ (\E l \in Attempt : AnswerAccepted(a, l))
    \/ AnswerFinishes(a) \/ AnswerRejected(a) \/ AnswerThrows(a) \/ AnswerCrashes(a)

Deliver(k) ==
    \/ ReportClaims(k) \/ ReportTurnStarts(k) \/ ReportUnwanted(k) \/ ReportDispatchThrows(k)
    \/ ReportPosts(k) \/ ReportTurnCompletes(k) \/ ReportTurnFails(k) \/ ReportCrashes(k)

Next ==
    \/ Clock
    \/ Tick
    \/ \E l \in Attempt : Dispatch(l) \/ Work(l)
    \/ \E a \in Answerer : Respond(a)
    \/ \E k \in Token : Deliver(k)

Spec == Init /\ [][Next]_vars

\* Time passes, the cron tick comes every minute, and neither a live process nor Eve
\* stops for ever; a fault is never owed.
Fairness ==
    /\ WF_vars(LeaseRunsOut) /\ WF_vars(RetryComesDue)
    /\ WF_vars(ReportLeaseRunsOut /\ UNCHANGED faults)
    /\ WF_vars(Claim) /\ WF_vars(Exhaust) /\ WF_vars(StaleReportReopens)
    /\ \A l \in Attempt :
           /\ WF_vars(Dispatch(l) /\ UNCHANGED faults)
           /\ WF_vars(Work(l))
    /\ \A k \in Token : WF_vars(Deliver(k) /\ UNCHANGED faults)

FairSpec == Spec /\ Fairness

-----------------------------------------------------------------------------
\* Properties.

\* A run is leased exactly while it runs or waits, under the token of its newest
\* attempt; it has an outcome exactly when it ended; and it is abandoned only when
\* every attempt was used, as exhaustedRunOutcome tells the user.
AttemptsAccounted ==
    /\ row.lease = (IF row.status \in {"running", "waiting_for_input"}
                    THEN row.attempts ELSE NoValue)
    /\ row.status \in {"running", "waiting_for_input"} => row.attempts # 0
    /\ row.outcome # "null" <=> row.status \in Terminal
    /\ row.status = "dead_letter" => row.attempts = MaxAttempts

\* finalizeScheduledReport: the report token in an open report belongs to the report
\* turn that was told the present sequence number, so a turn sent for an earlier
\* question or attempt cannot settle the report of a later one.
OpenReportIsCurrent ==
    row.status \in Reportable /\ row.report = "queued" =>
        /\ row.reportLease \in Token
        /\ rep[row.reportLease].pc \in {"claimed", "running"} =>
               rep[row.reportLease].sequence = row.sequence

\* A report marked delivered was posted into the conversation by a turn told the
\* present sequence number, and for a completed run told that very outcome.
DeliveredReportPosted ==
    row.status \in Reportable /\ row.report = "delivered" =>
        \E k \in Token : /\ rep[k].posted
                         /\ rep[k].sequence = row.sequence
                         /\ row.status = "completed" => rep[k].says = row.outcome

\* The assertion of agent/lib/schedules/report.ts, "A completed scheduled run requires
\* an outcome.", never fires: a claimed report has a question or an outcome to tell.
ReportHasContent == \A k \in Token : rep[k].pc = "claimed" => rep[k].says # "null"

\* Once a run ended, no late hook event, dispatcher error or answer reopens it,
\* changes its outcome or renumbers its report.
OutcomeIsFinal ==
    [][row.status \in Terminal =>
           <<row.status, row.outcome, row.sequence>>' = <<row.status, row.outcome, row.sequence>>]_vars

\* A worker superseded by a retry cannot complete the run: whoever completes it
\* carries the token of the newest attempt.
OnlyNewestAttemptCompletes ==
    [][row.status # "completed" /\ row'.status = "completed" =>
           \E l \in Attempt : turn[l].pc = "running" /\ turn[l].lease = row.attempts]_vars

\* The outcome of a run that ended is reported: its report does not stay open.
EveryOutcomeReported ==
    row.status \in Terminal /\ row.report \in {"pending", "queued"}
        ~> row.report \in {"delivered", "suppressed"}

\* A claimed run whose worker was never accepted is claimed again or abandoned.
UnacceptedDispatchRetried ==
    row.status = "running" /\ row.session = NoValue
        ~> row.status # "running" \/ row.session # NoValue

\* The same for any claim whose dispatcher is gone before the worker had a message,
\* "a clean restart for a reclaimed interrupted worker" included.
InterruptedDispatchRetried ==
    (\E l \in Attempt : /\ HoldsLease(row, l)
                        /\ disp[l].pc = "done" /\ turn[l].pc = "none")
        ~> row.status # "running"

\* The report of an abandoned run says that the run was abandoned, not that it
\* waits for the user.
DeadLetterReportsExhaustion ==
    row.status = "dead_letter" =>
        \A k \in Token : rep[k].pc \in {"claimed", "running"} /\ rep[k].sequence = row.sequence
                             => rep[k].says = "exhausted"

\* "defers an interim outcome until background work wakes a later turn": the turn
\* that completes a run leaves no background work of its session behind.
InterimOutcomeDeferred ==
    [][row.status # "completed" /\ row'.status = "completed" =>
           \A l \in Attempt : turn'[l].pc = "parked" => turn[l].pc = "parked"]_vars
=============================================================================
