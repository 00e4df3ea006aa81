------------------------- MODULE ScheduledRunsProofs -------------------------
(***************************************************************************)
(* Proofs about ScheduledRuns for every number of attempts, questions,     *)
(* faults and concurrent answers.                                          *)
(***************************************************************************)
EXTENDS ScheduledRuns, TLAPS

-----------------------------------------------------------------------------
\* Every statement keeps the row well typed.

LEMMA ColumnValues ==
    /\ \A s \in {"queued", "running", "waiting_for_input", "completed", "dead_letter"} :
           s \in RunStatus
    /\ \A t \in {"null", "ahead", "past"} : t \in Timestamp
    /\ \A o \in {"null", "result", "nothing_to_report", "exhausted"} : o \in Outcome
    /\ \A s \in {"not_ready", "not_needed", "pending", "queued", "delivered", "suppressed"} :
           s \in ReportStatus
    /\ NoValue \in Nat /\ NoValue \in 0 .. MaxAttempts
  BY MaxAttemptsAssumption DEF RunStatus, Timestamp, Outcome, ReportStatus, NoValue

LEMMA NextSequence == ASSUME NEW r \in Row PROVE r.sequence + 1 \in Nat
  BY DEF Row

LEMMA ClaimedRowType ==
    ASSUME NEW r \in Row, r.attempts < MaxAttempts
    PROVE  /\ ClaimedRow(r) \in Row
           /\ ClaimedRow(r).lease = r.attempts + 1
           /\ ClaimedRow(r).lease \in Attempt
<1>1. /\ r.attempts + 1 \in Attempt
      /\ r.attempts + 1 \in 0 .. MaxAttempts
  BY MaxAttemptsAssumption DEF Row, Attempt
<1>2. ClaimedRow(r) \in Row
  BY <1>1, ColumnValues DEF ClaimedRow, Row
<1>3. ClaimedRow(r).lease = r.attempts + 1
  BY DEF ClaimedRow, Row
<1>4. QED
  BY <1>1, <1>2, <1>3

LEMMA ExhaustedRowType ==
    ASSUME NEW r \in Row
    PROVE  ExhaustedRow(r) \in Row
  BY NextSequence, ColumnValues DEF ExhaustedRow, Row

LEMMA WorkerRowType ==
    ASSUME NEW r \in Row, NEW lease \in 0 .. MaxAttempts, NEW session \in 0 .. MaxAttempts,
           NEW number \in Nat, NEW kind \in {"result", "nothing_to_report"}
    PROVE  /\ SetSession(r, lease, session) \in Row
           /\ MarkStarted(r, lease, session) \in Row
           /\ WaitForInput(r, lease, number) \in Row
           /\ DeferCompletion(r, lease, number) \in Row
           /\ CompleteRun(r, lease, number, kind) \in Row
           /\ ReleaseRun(r, lease) \in Row
<1> USE ColumnValues, NextSequence
<1>1. SetSession(r, lease, session) \in Row
  BY DEF SetSession, Row
<1>2. MarkStarted(r, lease, session) \in Row
  BY DEF MarkStarted, Row
<1>3. WaitForInput(r, lease, number) \in Row
  BY DEF WaitForInput, Row
<1>4. DeferCompletion(r, lease, number) \in Row
  BY DEF DeferCompletion, Row
<1>5. CompleteRun(r, lease, number, kind) \in Row
  BY DEF CompleteRun, Row
<1>6. ReleaseRun(r, lease) \in Row
  <2>1. [ExhaustedRow(r) EXCEPT !.deferred = NoValue] \in Row
    BY ExhaustedRowType DEF Row
  <2>2. [r EXCEPT !.status = "queued", !.retryAt = "ahead", !.deferred = NoValue,
                  !.lease = NoValue, !.leaseExpires = "null"] \in Row
    BY DEF Row
  <2>3. QED
    BY <2>1, <2>2 DEF ReleaseRun
<1>7. QED
  BY <1>1, <1>2, <1>3, <1>4, <1>5, <1>6

LEMMA AnswerRowType ==
    ASSUME NEW r \in Row, NEW lease \in 0 .. MaxAttempts
    PROVE  /\ ClaimInput(r, lease) \in Row
           /\ RestoreInput(r, lease) \in Row
           /\ FinishInput(r, lease) \in Row
<1>1. ClaimInput(r, lease) \in Row
  BY ColumnValues DEF ClaimInput, Row
<1>2. RestoreInput(r, lease) \in Row
  BY ColumnValues DEF RestoreInput, Row
<1>3. FinishInput(r, lease) \in Row
  BY ColumnValues DEF FinishInput, Row
<1>4. QED
  BY <1>1, <1>2, <1>3

LEMMA ReportRowType ==
    ASSUME NEW r \in Row, NEW token \in Nat, NEW verdict \in {"delivered", "suppressed"}
    PROVE  /\ ClaimReport(r, token) \in Row
           /\ ReopenedReport(r) \in Row
           /\ ReleaseReport(r, token) \in Row
           /\ FinalizeReport(r, token, verdict) \in Row
<1>1. ClaimReport(r, token) \in Row
  BY ColumnValues DEF ClaimReport, Row
<1>2. ReopenedReport(r) \in Row
  BY ColumnValues DEF ReopenedReport, Row
<1>3. ReleaseReport(r, token) \in Row
  BY <1>2 DEF ReleaseReport
<1>4. FinalizeReport(r, token, verdict) \in Row
  BY ColumnValues DEF FinalizeReport, Row
<1>5. QED
  BY <1>1, <1>2, <1>3, <1>4

-----------------------------------------------------------------------------
\* Type correctness: every variable keeps the type that the columns and the program
\* counters of the actors have.

LEMMA ActorValues ==
    /\ NoDispatcher \in Dispatcher /\ DispatcherDone \in Dispatcher
    /\ [NoDispatcher EXCEPT !.pc = "failed"] \in Dispatcher
    /\ NoTurn \in Turn /\ TurnDone \in Turn
    /\ NoAnswer \in Answer
    /\ NoReport \in Report /\ [NoReport EXCEPT !.pc = "done"] \in Report
<1> USE ColumnValues
<1>1. /\ NoDispatcher \in Dispatcher /\ DispatcherDone \in Dispatcher
      /\ [NoDispatcher EXCEPT !.pc = "failed"] \in Dispatcher
  BY DEF NoDispatcher, DispatcherDone, Dispatcher
<1>2. NoTurn \in Turn /\ TurnDone \in Turn
  <2>1. 1 \in 1 .. 2 /\ FALSE \in BOOLEAN
    OBVIOUS
  <2>2. NoTurn \in Turn
    BY <2>1 DEF NoTurn, Turn
  <2>3. TurnDone \in Turn
    BY <2>2 DEF TurnDone, Turn
  <2>4. QED
    BY <2>2, <2>3
<1>3. NoAnswer \in Answer
  BY DEF NoAnswer, Answer
<1>4. NoReport \in Report /\ [NoReport EXCEPT !.pc = "done"] \in Report
  BY DEF NoReport, Report
<1>5. QED
  BY <1>1, <1>2, <1>3, <1>4

LEMMA ReportDoneType ==
    ASSUME NEW k \in Token, rep[k] \in Report
    PROVE  ReportDone(k) \in Report
  BY ActorValues DEF ReportDone, Report

LEMMA FaultType ==
    ASSUME faults \in 0 .. MaxFaults, Fault \/ UNCHANGED faults
    PROVE  faults' \in 0 .. MaxFaults
  BY BoundsAssumption DEF Fault

LEMMA TypeCorrectInitially == Init => TypeOK
<1>1. NewRow \in Row
  BY MaxAttemptsAssumption, ColumnValues DEF NewRow, Row
<1>2. QED
  BY <1>1, ActorValues, MaxAttemptsAssumption, BoundsAssumption DEF Init, TypeOK, NoValue

LEMMA TypeCorrectNext == TypeOK /\ [Next]_vars => TypeOK'
<1> SUFFICES ASSUME TypeOK, [Next]_vars PROVE TypeOK'
  OBVIOUS
<1> USE DEF TypeOK
<1>1. CASE LeaseRunsOut
  <2>1. row' \in Row
    BY <1>1, ColumnValues DEF LeaseRunsOut, Row
  <2>2. QED
    BY <1>1, <2>1 DEF LeaseRunsOut, actors
<1>2. CASE RetryComesDue
  <2>1. row' \in Row
    BY <1>2, ColumnValues DEF RetryComesDue, Row
  <2>2. QED
    BY <1>2, <2>1 DEF RetryComesDue, actors
<1>3. CASE ReportLeaseRunsOut
  <2>1. row' \in Row
    BY <1>3, ColumnValues DEF ReportLeaseRunsOut, Row
  <2>2. faults' \in 0 .. MaxFaults
    BY <1>3, FaultType DEF ReportLeaseRunsOut
  <2>3. QED
    BY <1>3, <2>1, <2>2 DEF ReportLeaseRunsOut, actors
<1>4. CASE Claim
  <2>1. row' \in Row /\ row'.lease \in Attempt
    BY <1>4, ClaimedRowType DEF Claim
  <2>2. disp' \in [Attempt -> Dispatcher]
    BY <1>4, <2>1 DEF Claim, Dispatcher
  <2>3. QED
    BY <1>4, <2>1, <2>2 DEF Claim
<1>5. CASE Exhaust
  BY <1>5, ExhaustedRowType DEF Exhaust, actors
<1>6. CASE StaleReportReopens
  BY <1>6, ReportRowType, ColumnValues DEF StaleReportReopens, actors
<1>7. ASSUME NEW l \in Attempt, Dispatch(l) PROVE TypeOK'
  <2> disp[l] \in Dispatcher /\ turn[l] \in Turn /\ l \in 0 .. MaxAttempts /\ l \in Nat
    BY MaxAttemptsAssumption DEF Attempt
  <2>1. CASE ResetSource(l)
    BY <1>7, <2>1, ColumnValues DEF ResetSource, Dispatcher
  <2>2. CASE Send(l)
    BY <1>7, <2>2, MaxAttemptsAssumption DEF Send, Dispatcher, Turn
  <2>3. CASE RecordSession(l)
    <3>1. row' \in Row
      BY <2>3, WorkerRowType DEF RecordSession, Dispatcher
    <3>2. QED
      BY <3>1, <2>3, ActorValues DEF RecordSession
  <2>4. CASE DispatchThrows(l)
    BY <2>4, ActorValues, FaultType DEF DispatchThrows
  <2>5. CASE DispatchReleases(l)
    BY <2>5, ActorValues, WorkerRowType DEF DispatchReleases
  <2>6. CASE DispatchCrashes(l)
    BY <2>6, ActorValues, FaultType DEF DispatchCrashes
  <2>7. QED
    BY <1>7, <2>1, <2>2, <2>3, <2>4, <2>5, <2>6 DEF Dispatch
<1>8. ASSUME NEW l \in Attempt, Work(l) PROVE TypeOK'
  <2> turn[l] \in Turn
    OBVIOUS
  <2> turn[l].lease \in 0 .. MaxAttempts /\ turn[l].session \in 0 .. MaxAttempts
      /\ turn[l].number \in Nat
    BY DEF Turn
  <2>1. CASE TurnStarts(l)
    BY <2>1, WorkerRowType DEF TurnStarts, Turn
  <2>2. CASE InputRequested(l)
    <3>1. asked' \in 0 .. MaxQuestions /\ asked' \in Nat
      BY <2>2, BoundsAssumption DEF InputRequested
    <3>2. row' \in Row
      BY <3>1, <2>2, WorkerRowType DEF InputRequested
    <3>3. turn' \in [Attempt -> Turn]
      BY <3>1, <2>2 DEF InputRequested, Turn
    <3>4. QED
      BY <3>1, <3>2, <3>3, <2>2 DEF InputRequested
  <2>3. CASE BackgroundDelegated(l)
    BY <2>3, WorkerRowType DEF BackgroundDelegated, Turn
  <2>4. ASSUME NEW kind \in {"result", "nothing_to_report"}, MessageCompleted(l, kind)
        PROVE  TypeOK'
    <3>1. row' \in Row
      BY <2>4, WorkerRowType DEF MessageCompleted
    <3>2. turn' \in [Attempt -> Turn]
      BY <2>4, ActorValues DEF MessageCompleted, Turn
    <3>3. QED
      BY <3>1, <3>2, <2>4 DEF MessageCompleted
  <2>5. CASE TurnWakes(l)
    <3>1. 2 \in 1 .. 2
      OBVIOUS
    <3>2. [turn[l] EXCEPT !.pc = "queued", !.number = 2, !.background = FALSE,
                          !.lease = turn[l].session] \in Turn
      BY <3>1 DEF Turn
    <3>3. turn' \in [Attempt -> Turn]
      BY <3>2, <2>5 DEF TurnWakes
    <3>4. QED
      BY <3>3, <2>5 DEF TurnWakes
  <2>6. CASE TurnFails(l)
    BY <2>6, WorkerRowType, ActorValues DEF TurnFails
  <2>7. CASE StepStarts(l)
    BY <2>7 DEF StepStarts, Turn
  <2>8. QED
    BY <1>8, <2>1, <2>2, <2>3, <2>4, <2>5, <2>6, <2>7 DEF Work
<1>9. ASSUME NEW a \in Answerer, Respond(a) PROVE TypeOK'
  <2> answer[a] \in Answer
    OBVIOUS
  <2> answer[a].lease \in 0 .. MaxAttempts
    BY DEF Answer
  <2>1. CASE FindInput(a)
    <3>1. row.lease \in 0 .. MaxAttempts
      BY DEF Row
    <3>2. [NoAnswer EXCEPT !.pc = "found", !.lease = row.lease] \in Answer
      BY <3>1, ActorValues DEF Answer
    <3>3. QED
      BY <2>1, <3>2 DEF FindInput
  <2>2. CASE AnswerClaims(a)
    <3>1. row.pending \in Nat /\ row.session \in 0 .. MaxAttempts
      BY DEF Row
    <3>2. [answer[a] EXCEPT !.pc = "claimed", !.question = row.pending,
                            !.session = row.session] \in Answer
      BY <3>1 DEF Answer
    <3>3. answer' \in [Answerer -> Answer]
      BY <3>2, <2>2, ActorValues DEF AnswerClaims
    <3>4. QED
      BY <3>3, <2>2, AnswerRowType DEF AnswerClaims
  <2>3. ASSUME NEW l \in Attempt, AnswerAccepted(a, l) PROVE TypeOK'
    <3>1. [turn[l] EXCEPT !.pc = "started", !.lease = turn[l].session,
                          !.question = NoValue] \in Turn
      BY ColumnValues DEF Turn
    <3>2. turn' \in [Attempt -> Turn]
      BY <3>1, <2>3 DEF AnswerAccepted
    <3>3. answer' \in [Answerer -> Answer]
      BY <2>3 DEF AnswerAccepted, Answer
    <3>4. QED
      BY <3>2, <3>3, <2>3 DEF AnswerAccepted
  <2>4. CASE AnswerFinishes(a)
    BY <2>4, AnswerRowType, ActorValues DEF AnswerFinishes
  <2>5. CASE AnswerRejected(a)
    BY <2>5, AnswerRowType, ActorValues DEF AnswerRejected
  <2>6. CASE AnswerThrows(a)
    BY <2>6, AnswerRowType, ActorValues, FaultType DEF AnswerThrows
  <2>7. CASE AnswerCrashes(a)
    BY <2>7, ActorValues, FaultType DEF AnswerCrashes
  <2>8. QED
    BY <1>9, <2>1, <2>2, <2>3, <2>4, <2>5, <2>6, <2>7 DEF Respond
<1>10. ASSUME NEW k \in Token, Deliver(k) PROVE TypeOK'
  <2> k \in Nat /\ rep[k] \in Report /\ ReportDone(k) \in Report
    BY BoundsAssumption, ReportDoneType DEF Token
  <2>1. CASE ReportClaims(k)
    <3>1. row.sequence \in Nat /\ row.outcome \in Outcome
      BY DEF Row
    <3>2. rep' \in [Token -> Report]
      BY <3>1, <2>1 DEF ReportClaims, Report
    <3>3. QED
      BY <3>2, <2>1, ReportRowType DEF ReportClaims
  <2>2. CASE ReportTurnStarts(k)
    BY <2>2 DEF ReportTurnStarts, Report
  <2>3. CASE ReportUnwanted(k)
    BY <2>3, ReportRowType DEF ReportUnwanted
  <2>4. CASE ReportDispatchThrows(k)
    <3>1. faults' \in 0 .. MaxFaults
      BY <2>4, FaultType DEF ReportDispatchThrows
    <3>2. row' \in Row
      BY <2>4, ReportRowType DEF ReportDispatchThrows
    <3>3. [rep[k] EXCEPT !.pc = "running"] \in Report
      BY DEF Report
    <3>4. QED
      BY <3>1, <3>2, <3>3, <2>4 DEF ReportDispatchThrows
  <2>5. CASE ReportPosts(k)
    <3>1. rep' \in [Token -> Report]
      BY <2>5 DEF ReportPosts, Report
    <3>2. QED
      BY <3>1, <2>5, ReportRowType DEF ReportPosts
  <2>6. CASE ReportTurnCompletes(k)
    BY <2>6, ReportRowType DEF ReportTurnCompletes
  <2>7. CASE ReportTurnFails(k)
    BY <2>7, ReportRowType, FaultType DEF ReportTurnFails
  <2>8. CASE ReportCrashes(k)
    BY <2>8, FaultType DEF ReportCrashes
  <2>9. QED
    BY <1>10, <2>1, <2>2, <2>3, <2>4, <2>5, <2>6, <2>7, <2>8 DEF Deliver
<1>11. CASE UNCHANGED vars
  BY <1>11 DEF vars, actors
<1>12. QED
  BY <1>1, <1>2, <1>3, <1>4, <1>5, <1>6, <1>7, <1>8, <1>9, <1>10, <1>11
     DEF Next, Clock, Tick

\* The row keeps the types of its columns and every actor the states of its code.
THEOREM TypeCorrect == Spec => []TypeOK
  BY TypeCorrectInitially, TypeCorrectNext, PTL DEF Spec

-----------------------------------------------------------------------------
\* The inductive invariant behind the safety properties.

\* A live worker turn and a request that found a run carry a lease, never NULL: a
\* statement fenced with NULL would match every row whose lease is cleared.
ActorsLeased ==
    /\ \A l \in Attempt : turn[l].pc \notin {"none", "done"} =>
           turn[l].lease # NoValue /\ turn[l].session # NoValue
    /\ \A a \in Answerer : answer[a].pc # "idle" => answer[a].lease # NoValue

Accounted(r) ==
    /\ r.lease = (IF r.status \in {"running", "waiting_for_input"} THEN r.attempts ELSE NoValue)
    /\ r.status \in {"running", "waiting_for_input"} => r.attempts # 0
    /\ r.outcome # "null" <=> r.status \in Terminal
    /\ r.status = "dead_letter" => r.attempts = MaxAttempts

\* A completed run asks nothing, and a run that has neither a question nor an outcome
\* has no report, not even a report token a late report turn could reopen it with.
Silent(r) ==
    /\ r.status = "completed" => r.pending = NoValue
    /\ r.pending = NoValue /\ r.status \notin Terminal =>
           r.report = "not_ready" /\ r.reportLease = NoValue

\* What turn k was told is what the row says now.
Current(r, k) ==
    /\ rep[k].sequence = r.sequence
    /\ r.status = "completed" => rep[k].says = r.outcome

ReportsAccounted ==
    /\ row.report = "queued" =>
           /\ row.reportLease \in Token
           /\ rep[row.reportLease].pc \in {"claimed", "running"} => Current(row, row.reportLease)
    /\ row.report = "delivered" => \E k \in Token : rep[k].posted /\ Current(row, k)
    /\ \A k \in Token : rep[k].posted => rep[k].pc \in {"running", "done"}
    /\ \A k \in Token : rep[k].pc = "claimed" => rep[k].says # "null"

IInv == TypeOK /\ ActorsLeased /\ Accounted(row) /\ Silent(row) /\ ReportsAccounted

-----------------------------------------------------------------------------
\* What the statements keep.

\* From r to s an open or delivered report stays the report of the same outcome.
Follows(r, s) ==
    \/ s.report \notin {"queued", "delivered"}
    \/ /\ s.report = r.report /\ s.sequence = r.sequence
       /\ s.reportLease = r.reportLease /\ s.outcome = r.outcome
       /\ s.status = "completed" => r.status = "completed"

Kept(r, s) == Accounted(s) /\ Silent(s) /\ Follows(r, s)

LEMMA ClaimedRowKeeps ==
    ASSUME NEW r \in Row, Accounted(r), Silent(r), ReadyToClaim(r), r.attempts < MaxAttempts
    PROVE  Kept(r, ClaimedRow(r))
<1>1. r.attempts + 1 # 0
  BY MaxAttemptsAssumption DEF Row
<1>2. Accounted(ClaimedRow(r))
  BY <1>1 DEF ClaimedRow, Accounted, ReadyToClaim, Terminal, Row
<1>3. Silent(ClaimedRow(r))
  BY DEF ClaimedRow, Silent, ReadyToClaim, Terminal, Row
<1>4. Follows(r, ClaimedRow(r))
  BY DEF ClaimedRow, Follows, Row
<1>5. QED
  BY <1>2, <1>3, <1>4 DEF Kept

LEMMA ExhaustedRowKeeps ==
    ASSUME NEW r \in Row, r.attempts >= MaxAttempts
    PROVE  Kept(r, ExhaustedRow(r)) /\ Kept(r, [ExhaustedRow(r) EXCEPT !.deferred = NoValue])
<1>1. r.attempts = MaxAttempts
  BY MaxAttemptsAssumption DEF Row
<1>2. Kept(r, ExhaustedRow(r))
  BY <1>1 DEF ExhaustedRow, Kept, Accounted, Silent, Follows, Terminal, Row
<1>3. QED
  BY <1>2, <1>1 DEF ExhaustedRow, Kept, Accounted, Silent, Follows, Terminal, Row

LEMMA WorkerRowKeeps ==
    ASSUME NEW r \in Row, Accounted(r), Silent(r),
           NEW lease \in 0 .. MaxAttempts, lease # NoValue,
           NEW session \in 0 .. MaxAttempts, NEW number \in Nat, number # NoValue,
           NEW kind \in {"result", "nothing_to_report"}
    PROVE  /\ Kept(r, SetSession(r, lease, session))
           /\ Kept(r, MarkStarted(r, lease, session))
           /\ Kept(r, WaitForInput(r, lease, number))
           /\ Kept(r, DeferCompletion(r, lease, number))
           /\ Kept(r, CompleteRun(r, lease, number, kind))
           /\ Kept(r, ReleaseRun(r, lease))
<1> USE DEF Kept, Accounted, Silent, Follows, HoldsLease, Terminal
<1>1. Kept(r, SetSession(r, lease, session))
  BY DEF SetSession, Row
<1>2. Kept(r, MarkStarted(r, lease, session))
  BY DEF MarkStarted, Row
<1>3. Kept(r, WaitForInput(r, lease, number))
  BY DEF WaitForInput, Row
<1>4. Kept(r, DeferCompletion(r, lease, number))
  BY DEF DeferCompletion, Row
<1>5. Kept(r, CompleteRun(r, lease, number, kind))
  BY DEF CompleteRun, MayComplete, Row
<1>6. Kept(r, ReleaseRun(r, lease))
  <2>1. CASE r.lease # lease
    BY <2>1 DEF ReleaseRun
  <2>2. CASE r.lease = lease /\ r.attempts >= MaxAttempts
    BY <2>2, ExhaustedRowKeeps DEF ReleaseRun
  <2>3. CASE r.lease = lease /\ ~(r.attempts >= MaxAttempts)
    BY <2>3 DEF ReleaseRun, Row
  <2>4. QED
    BY <2>1, <2>2, <2>3
<1>7. QED
  BY <1>1, <1>2, <1>3, <1>4, <1>5, <1>6

LEMMA AnswerRowKeeps ==
    ASSUME NEW r \in Row, Accounted(r), Silent(r),
           NEW lease \in 0 .. MaxAttempts, lease # NoValue
    PROVE  /\ Kept(r, ClaimInput(r, lease))
           /\ Kept(r, RestoreInput(r, lease))
           /\ Kept(r, FinishInput(r, lease))
<1> USE DEF Kept, Accounted, Silent, Follows, HoldsLease, Terminal
<1>1. Kept(r, ClaimInput(r, lease))
  BY DEF ClaimInput, Row
<1>2. Kept(r, RestoreInput(r, lease))
  BY DEF RestoreInput, Row
<1>3. Kept(r, FinishInput(r, lease))
  BY DEF FinishInput, Row
<1>4. QED
  BY <1>1, <1>2, <1>3

\* A report statement fenced with a token touches neither the attempt accounting
\* nor a run that has nothing to report.
LEMMA ReportRowKeeps ==
    ASSUME NEW r \in Row, Accounted(r), Silent(r), NEW token \in Token,
           NEW verdict \in {"delivered", "suppressed"}
    PROVE  /\ ReportClaimable(r) => Accounted(ClaimReport(r, token)) /\ Silent(ClaimReport(r, token))
           /\ ReportStale(r) => Kept(r, ReopenedReport(r))
           /\ Kept(r, ReleaseReport(r, token))
           /\ Accounted(FinalizeReport(r, token, verdict))
           /\ Silent(FinalizeReport(r, token, verdict))
           /\ verdict = "suppressed" => Follows(r, FinalizeReport(r, token, verdict))
<1> token # NoValue
  BY BoundsAssumption DEF Token, NoValue
<1> USE DEF Kept, Accounted, Silent, Follows, Terminal
<1>1. ReportClaimable(r) => Accounted(ClaimReport(r, token)) /\ Silent(ClaimReport(r, token))
  BY DEF ReportClaimable, ClaimReport, Row
<1>2. ReportStale(r) => Kept(r, ReopenedReport(r))
  BY DEF ReportStale, ReopenedReport, Row
<1>3. Kept(r, ReleaseReport(r, token))
  BY DEF ReleaseReport, ReopenedReport, Row
<1>4. Accounted(FinalizeReport(r, token, verdict)) /\ Silent(FinalizeReport(r, token, verdict))
  BY DEF FinalizeReport, MayFinalize, Row
<1>5. verdict = "suppressed" => Follows(r, FinalizeReport(r, token, verdict))
  BY DEF FinalizeReport, MayFinalize, Row
<1>6. QED
  BY <1>1, <1>2, <1>3, <1>4, <1>5

\* A step that leaves the report turns alone and whose statement Kept the row keeps
\* the reports accounted.
LEMMA ReportsFollow ==
    ASSUME ReportsAccounted, Kept(row, row'), UNCHANGED rep
    PROVE  ReportsAccounted'
  BY DEF ReportsAccounted, Kept, Follows, Current

-----------------------------------------------------------------------------
\* The steps of the actors, one lemma per kind of actor.

NonReportInv == ActorsLeased /\ Accounted(row) /\ Silent(row)

LEMMA ClockAndTickKeep ==
    ASSUME IInv, Clock \/ Tick
    PROVE  (NonReportInv /\ ReportsAccounted)'
<1> USE DEF IInv, NonReportInv
<1>1. ASSUME UNCHANGED <<turn, answer, rep>>, Kept(row, row')
      PROVE  (NonReportInv /\ ReportsAccounted)'
  BY <1>1, ReportsFollow DEF Kept, ActorsLeased
<1> row \in Row
  BY DEF TypeOK
<1>2. CASE LeaseRunsOut
  BY <1>2, <1>1 DEF LeaseRunsOut, actors, Kept, Accounted, Silent, Follows, Row
<1>3. CASE RetryComesDue
  BY <1>3, <1>1 DEF RetryComesDue, actors, Kept, Accounted, Silent, Follows, Row
<1>4. CASE ReportLeaseRunsOut
  BY <1>4, <1>1 DEF ReportLeaseRunsOut, actors, Kept, Accounted, Silent, Follows, Row
<1>5. CASE Claim
  BY <1>5, <1>1, ClaimedRowKeeps DEF Claim
<1>6. CASE Exhaust
  BY <1>6, <1>1, ExhaustedRowKeeps DEF Exhaust, actors
<1>7. CASE StaleReportReopens
  <2>1. Kept(row, ReopenedReport(row))
    BY <1>7 DEF StaleReportReopens, ReportStale, ReopenedReport, Kept, Accounted, Silent,
                Follows, Terminal, Row
  <2>2. QED
    BY <1>7, <2>1, <1>1 DEF StaleReportReopens, actors
<1>8. QED
  BY <1>2, <1>3, <1>4, <1>5, <1>6, <1>7 DEF Clock, Tick

LEMMA DispatchKeeps ==
    ASSUME IInv, NEW l \in Attempt, Dispatch(l)
    PROVE  (NonReportInv /\ ReportsAccounted)'
<1> USE DEF IInv, NonReportInv
<1>1. /\ row \in Row /\ disp[l] \in Dispatcher /\ source \in 0 .. MaxAttempts
      /\ turn \in [Attempt -> Turn]
  BY DEF TypeOK
<1>2. l \in 0 .. MaxAttempts /\ l # NoValue
  BY MaxAttemptsAssumption DEF Attempt, NoValue
<1>3. ASSUME Kept(row, row'), UNCHANGED rep PROVE (Accounted(row) /\ Silent(row) /\ ReportsAccounted)'
  BY <1>3, ReportsFollow DEF Kept
<1>4. ASSUME UNCHANGED <<row, rep>> PROVE (Accounted(row) /\ Silent(row) /\ ReportsAccounted)'
  BY <1>4 DEF Accounted, Silent, ReportsAccounted, Current
<1>5. ASSUME UNCHANGED <<turn, answer>> PROVE ActorsLeased'
  BY <1>5 DEF ActorsLeased
<1>6. CASE ResetSource(l)
  BY <1>6, <1>4, <1>5 DEF ResetSource
<1>7. CASE Send(l)
  <2>1. ActorsLeased'
    BY <1>7, <1>1, <1>2 DEF Send, ActorsLeased, Turn
  <2>2. QED
    BY <1>7, <1>4, <2>1 DEF Send
<1>8. CASE RecordSession(l)
  <2>1. Kept(row, row')
    BY <1>8, <1>1, <1>2, WorkerRowKeeps DEF RecordSession, Dispatcher
  <2>2. QED
    BY <1>8, <2>1, <1>3, <1>5 DEF RecordSession
<1>9. CASE DispatchThrows(l)
  BY <1>9, <1>4, <1>5 DEF DispatchThrows
<1>10. CASE DispatchReleases(l)
  BY <1>10, <1>1, <1>2, <1>3, <1>5, WorkerRowKeeps DEF DispatchReleases
<1>11. CASE DispatchCrashes(l)
  BY <1>11, <1>4, <1>5 DEF DispatchCrashes
<1>12. QED
  BY <1>6, <1>7, <1>8, <1>9, <1>10, <1>11 DEF Dispatch

LEMMA WorkKeeps ==
    ASSUME IInv, NEW l \in Attempt, Work(l)
    PROVE  (NonReportInv /\ ReportsAccounted)'
<1> USE DEF IInv, NonReportInv
<1>1. /\ row \in Row /\ turn \in [Attempt -> Turn] /\ asked \in Nat
      /\ turn[l].lease \in 0 .. MaxAttempts /\ turn[l].session \in 0 .. MaxAttempts
      /\ turn[l].number \in Nat /\ turn[l].number # NoValue
  BY DEF TypeOK, Turn, NoValue
<1>2. turn[l].pc \notin {"none", "done"} => turn[l].lease # NoValue /\ turn[l].session # NoValue
  BY DEF ActorsLeased
<1>3. ASSUME Kept(row, row'), UNCHANGED rep PROVE (Accounted(row) /\ Silent(row) /\ ReportsAccounted)'
  BY <1>3, ReportsFollow DEF Kept
<1>4. CASE TurnStarts(l)
  <2>1. Kept(row, row')
    BY <1>4, <1>1, <1>2, WorkerRowKeeps DEF TurnStarts
  <2>2. QED
    BY <1>4, <2>1, <1>1, <1>3 DEF TurnStarts, ActorsLeased, Turn
<1>5. CASE InputRequested(l)
  <2>1. asked' \in Nat /\ asked' # NoValue
    BY <1>5, <1>1 DEF InputRequested, NoValue
  <2>2. Kept(row, row')
    BY <1>5, <2>1, <1>1, <1>2, WorkerRowKeeps DEF InputRequested
  <2>3. QED
    BY <1>5, <2>2, <1>1, <1>3 DEF InputRequested, ActorsLeased, Turn
<1>6. CASE BackgroundDelegated(l)
  <2>1. Kept(row, row')
    BY <1>6, <1>1, <1>2, WorkerRowKeeps DEF BackgroundDelegated
  <2>2. QED
    BY <1>6, <2>1, <1>1, <1>3 DEF BackgroundDelegated, ActorsLeased, Turn
<1>7. ASSUME NEW kind \in {"result", "nothing_to_report"}, MessageCompleted(l, kind)
      PROVE  (NonReportInv /\ ReportsAccounted)'
  <2>1. Kept(row, row')
    BY <1>7, <1>1, <1>2, WorkerRowKeeps DEF MessageCompleted
  <2>2. ActorsLeased'
    BY <1>7, <1>1 DEF MessageCompleted, ActorsLeased, TurnDone, NoTurn, Turn
  <2>3. QED
    BY <1>7, <2>1, <2>2, <1>3 DEF MessageCompleted
<1>8. CASE TurnWakes(l)
  <2>1. ActorsLeased'
    BY <1>8, <1>1 DEF TurnWakes, ActorsLeased, Turn
  <2>2. QED
    BY <1>8, <2>1 DEF TurnWakes, Accounted, Silent, ReportsAccounted, Current
<1>9. CASE TurnFails(l)
  <2>1. Kept(row, row')
    BY <1>9, <1>1, <1>2, WorkerRowKeeps DEF TurnFails
  <2>2. QED
    BY <1>9, <2>1, <1>1, <1>3 DEF TurnFails, ActorsLeased, TurnDone, NoTurn, Turn
<1>10. CASE StepStarts(l)
  <2>1. ActorsLeased'
    BY <1>10, <1>1 DEF StepStarts, ActorsLeased, Turn
  <2>2. QED
    BY <1>10, <2>1 DEF StepStarts, Accounted, Silent, ReportsAccounted, Current
<1>11. QED
  BY <1>4, <1>5, <1>6, <1>7, <1>8, <1>9, <1>10 DEF Work

LEMMA RespondKeeps ==
    ASSUME IInv, NEW a \in Answerer, Respond(a)
    PROVE  (NonReportInv /\ ReportsAccounted)'
<1> USE DEF IInv, NonReportInv
<1>1. /\ row \in Row /\ turn \in [Attempt -> Turn] /\ answer \in [Answerer -> Answer]
      /\ answer[a].lease \in 0 .. MaxAttempts
  BY DEF TypeOK, Answer
<1>2. answer[a].pc # "idle" => answer[a].lease # NoValue
  BY DEF ActorsLeased
<1>3. ASSUME Kept(row, row'), UNCHANGED rep PROVE (Accounted(row) /\ Silent(row) /\ ReportsAccounted)'
  BY <1>3, ReportsFollow DEF Kept
<1>4. ASSUME UNCHANGED <<row, rep>> PROVE (Accounted(row) /\ Silent(row) /\ ReportsAccounted)'
  BY <1>4 DEF Accounted, Silent, ReportsAccounted, Current
<1>5. ASSUME UNCHANGED turn, answer' = [answer EXCEPT ![a] = NoAnswer] PROVE ActorsLeased'
  BY <1>5, <1>1 DEF ActorsLeased, NoAnswer
<1>6. CASE FindInput(a)
  <2>1. ActorsLeased'
    BY <1>6, <1>1 DEF FindInput, ActorsLeased, NoAnswer
  <2>2. QED
    BY <1>6, <2>1, <1>4 DEF FindInput
<1>7. CASE AnswerClaims(a)
  <2>1. Kept(row, row')
    BY <1>7, <1>1, <1>2, AnswerRowKeeps DEF AnswerClaims
  <2>2. ActorsLeased'
    BY <1>7, <1>1 DEF AnswerClaims, ActorsLeased, NoAnswer, Answer
  <2>3. QED
    BY <1>7, <2>1, <2>2, <1>3 DEF AnswerClaims
<1>8. ASSUME NEW l \in Attempt, AnswerAccepted(a, l) PROVE (NonReportInv /\ ReportsAccounted)'
  <2>1. turn[l].session # NoValue
    BY <1>8 DEF AnswerAccepted, Awaiting, ActorsLeased
  <2>2. \A m \in Attempt : turn'[m].pc \notin {"none", "done"} =>
           turn'[m].lease # NoValue /\ turn'[m].session # NoValue
    BY <1>8, <2>1, <1>1 DEF AnswerAccepted, ActorsLeased, Turn
  <2>3. \A b \in Answerer : answer'[b].pc # "idle" => answer'[b].lease # NoValue
    BY <1>8, <1>1 DEF AnswerAccepted, ActorsLeased, Answer
  <2>4. QED
    BY <1>8, <2>2, <2>3, <1>4 DEF AnswerAccepted, ActorsLeased
<1>9. CASE AnswerFinishes(a)
  <2>1. Kept(row, row')
    BY <1>9, <1>1, <1>2, AnswerRowKeeps DEF AnswerFinishes
  <2>2. QED
    BY <1>9, <2>1, <1>3, <1>5 DEF AnswerFinishes
<1>10. CASE AnswerRejected(a)
  <2>1. Kept(row, row')
    BY <1>10, <1>1, <1>2, AnswerRowKeeps DEF AnswerRejected
  <2>2. QED
    BY <1>10, <2>1, <1>3, <1>5 DEF AnswerRejected
<1>11. CASE AnswerThrows(a)
  <2>1. Kept(row, row')
    BY <1>11, <1>1, <1>2, AnswerRowKeeps DEF AnswerThrows
  <2>2. QED
    BY <1>11, <2>1, <1>3, <1>5 DEF AnswerThrows
<1>12. CASE AnswerCrashes(a)
  BY <1>12, <1>4, <1>5 DEF AnswerCrashes
<1>13. QED
  BY <1>6, <1>7, <1>8, <1>9, <1>10, <1>11, <1>12 DEF Respond

\* A report turn changes its own entry of rep and, at most, the report it holds.
LEMMA DeliverKeeps ==
    ASSUME IInv, NEW k \in Token, Deliver(k)
    PROVE  (NonReportInv /\ ReportsAccounted)'
<1> USE DEF IInv, NonReportInv
<1>1. row \in Row /\ rep \in [Token -> Report]
  BY DEF TypeOK
<1>2. UNCHANGED <<turn, answer>> => ActorsLeased'
  BY DEF ActorsLeased
<1>3. UNCHANGED <<turn, answer>>
  BY DEF Deliver, ReportClaims, ReportTurnStarts, ReportUnwanted, ReportDispatchThrows,
         ReportPosts, ReportTurnCompletes, ReportTurnFails, ReportCrashes
\* The entry of a report turn that goes on: it may start or post, and remembers what it was told.
<1>4. ASSUME NEW entry \in Report, rep' = [rep EXCEPT ![k] = entry], Kept(row, row'),
             rep[k].pc \in {"claimed", "running"},
             entry.pc \in {"running", "done"},
             entry.pc = "running" \/ rep[k].posted =>
                 entry.sequence = rep[k].sequence /\ entry.says = rep[k].says,
             rep[k].posted => entry.posted
      PROVE  (NonReportInv /\ ReportsAccounted)'
  <2>1. (Accounted(row) /\ Silent(row) /\ ActorsLeased)'
    BY <1>4, <1>2, <1>3 DEF Kept
  <2>2. row'.report = "queued" =>
           /\ row'.reportLease \in Token
           /\ rep'[row'.reportLease].pc \in {"claimed", "running"} =>
                  Current(row, row.reportLease)'
    BY <1>4, <1>1 DEF ReportsAccounted, Kept, Follows, Current
  <2>3. ASSUME row'.report = "delivered"
        PROVE  \E j \in Token : rep'[j].posted /\ Current(row, j)'
    <3>1. PICK j \in Token : rep[j].posted /\ Current(row, j)
      BY <1>4, <2>3 DEF ReportsAccounted, Kept, Follows
    <3>2. rep'[j].posted /\ Current(row, j)'
      BY <1>4, <1>1, <2>3, <3>1 DEF Kept, Follows, Current
    <3>3. QED
      BY <3>2
  <2>4. \A j \in Token : rep'[j].posted => rep'[j].pc \in {"running", "done"}
    BY <1>4, <1>1 DEF ReportsAccounted
  <2>5. \A j \in Token : rep'[j].pc = "claimed" => rep'[j].says # "null"
    BY <1>4, <1>1 DEF ReportsAccounted
  <2>6. QED
    BY <2>1, <2>2, <2>3, <2>4, <2>5 DEF ReportsAccounted
<1>5. /\ ReportDone(k) \in Report
      /\ ReportDone(k).pc = "done"
      /\ rep[k].posted => ReportDone(k).sequence = rep[k].sequence
                          /\ ReportDone(k).says = rep[k].says /\ ReportDone(k).posted
  BY <1>1, ReportDoneType DEF ReportDone, NoReport, Report
<1>6. [rep[k] EXCEPT !.pc = "running"] \in Report
  BY <1>1 DEF Report
<1>7. UNCHANGED row => Kept(row, row')
  BY DEF Kept, Follows
<1>8. CASE ReportClaims(k)
  <2>1. Accounted(ClaimReport(row, k)) /\ Silent(ClaimReport(row, k))
    BY <1>8, <1>1, ReportRowKeeps DEF ReportClaims
  <2>2. /\ row'.report = "queued" /\ row'.reportLease = k /\ row'.sequence = row.sequence
        /\ row'.outcome = row.outcome /\ row'.status = row.status
    BY <1>8, <1>1 DEF ReportClaims, ClaimReport, Row
  <2>3. /\ rep'[k].sequence = row.sequence /\ rep'[k].pc = "claimed" /\ ~rep'[k].posted
        /\ rep'[k].says = IF row.pending # NoValue THEN "question" ELSE row.outcome
        /\ \A j \in Token : j # k => rep'[j] = rep[j]
    BY <1>8, <1>1 DEF ReportClaims
  <2>4. rep'[k].says # "null"
    BY <1>8, <2>3 DEF ReportClaims, ReportClaimable, Reportable, Accounted, Silent, Terminal
  <2>5. Current(row, row.reportLease)'
    BY <2>2, <2>3 DEF Current, Silent
  <2>6. ReportsAccounted'
    BY <2>2, <2>3, <2>4, <2>5 DEF ReportsAccounted
  <2>7. QED
    BY <1>8, <2>1, <2>6, <1>2, <1>3 DEF ReportClaims
<1>9. CASE ReportTurnStarts(k)
  BY <1>9, <1>1, <1>4, <1>6, <1>7 DEF ReportTurnStarts, Report
<1>10. CASE ReportUnwanted(k)
  <2>1. Kept(row, row')
    BY <1>10, <1>1, ReportRowKeeps DEF ReportUnwanted, Kept
  <2>2. ~rep[k].posted
    BY <1>10 DEF ReportUnwanted, ReportsAccounted
  <2>3. QED
    BY <1>10, <2>1, <2>2, <1>4, <1>5 DEF ReportUnwanted
<1>11. CASE ReportDispatchThrows(k)
  <2>1. Kept(row, row')
    BY <1>11, <1>1, ReportRowKeeps DEF ReportDispatchThrows
  <2>2. CASE rep' = [rep EXCEPT ![k].pc = "running"]
    BY <1>11, <2>1, <2>2, <1>1, <1>4, <1>6 DEF ReportDispatchThrows, Report
  <2>3. CASE rep' = [rep EXCEPT ![k] = ReportDone(k)]
    <3>1. ~rep[k].posted
      BY <1>11 DEF ReportDispatchThrows, ReportsAccounted
    <3>2. QED
      BY <1>11, <2>1, <2>3, <3>1, <1>4, <1>5 DEF ReportDispatchThrows
  <2>4. QED
    BY <1>11, <2>2, <2>3 DEF ReportDispatchThrows
<1>12. CASE ReportPosts(k)
  <2>1. Accounted(row)' /\ Silent(row)'
    BY <1>12, <1>1, ReportRowKeeps DEF ReportPosts
  <2>2. /\ \A j \in Token : rep'[j].sequence = rep[j].sequence /\ rep'[j].says = rep[j].says
                            /\ rep'[j].pc = rep[j].pc
    BY <1>12, <1>1 DEF ReportPosts, Report
  <2>3. rep'[k].posted /\ \A j \in Token : j # k => rep'[j] = rep[j]
    BY <1>12, <1>1 DEF ReportPosts, Report
  <2>4. \A j \in Token : rep[j].posted => rep'[j].posted
    BY <2>3
  <2>5. CASE MayFinalize(row, k, "delivered")
    <3>1. /\ row'.report = "delivered" /\ row'.sequence = row.sequence
          /\ row'.outcome = row.outcome /\ row'.status = row.status
      BY <1>12, <2>5, <1>1 DEF ReportPosts, FinalizeReport, Row
    <3>2. Current(row, k)
      BY <1>12, <2>5 DEF ReportPosts, MayFinalize, ReportsAccounted
    <3>3. rep'[k].sequence = rep[k].sequence /\ rep'[k].says = rep[k].says
      BY <2>2
    <3>4. Current(row, k)'
      BY <3>1, <3>2, <3>3 DEF Current
    <3>5. QED
      BY <1>12, <2>1, <2>2, <2>3, <3>1, <3>4, <1>2, <1>3 DEF ReportsAccounted, ReportPosts
  <2>6. CASE ~MayFinalize(row, k, "delivered")
    <3>1. row' = row
      BY <1>12, <2>6 DEF ReportPosts, FinalizeReport
    <3>2. ASSUME NEW j \in Token, Current(row, j) PROVE Current(row, j)'
      <4>1. rep'[j].sequence = rep[j].sequence /\ rep'[j].says = rep[j].says
        BY <2>2
      <4>2. QED
        BY <4>1, <3>1, <3>2 DEF Current
    <3>3. QED
      BY <1>12, <2>1, <2>2, <2>3, <2>4, <3>1, <3>2, <1>2, <1>3 DEF ReportsAccounted, ReportPosts
  <2>7. QED
    BY <2>5, <2>6
<1>13. CASE ReportTurnCompletes(k)
  <2>1. Kept(row, row')
    BY <1>13, <1>1, ReportRowKeeps DEF ReportTurnCompletes, Kept
  <2>2. QED
    BY <1>13, <2>1, <1>4, <1>5 DEF ReportTurnCompletes
<1>14. CASE ReportTurnFails(k)
  <2>1. Kept(row, row')
    BY <1>14, <1>1, ReportRowKeeps DEF ReportTurnFails
  <2>2. QED
    BY <1>14, <2>1, <1>4, <1>5 DEF ReportTurnFails
<1>15. CASE ReportCrashes(k)
  BY <1>15, <1>4, <1>5, <1>7 DEF ReportCrashes
<1>16. QED
  BY <1>8, <1>9, <1>10, <1>11, <1>12, <1>13, <1>14, <1>15 DEF Deliver

-----------------------------------------------------------------------------
\* The safety properties.

\* IInv is inductive: it holds of the queued row, and every step keeps it.
THEOREM InductiveInvariant == Spec => []IInv
<1>1. Init => IInv
  <2> SUFFICES ASSUME Init PROVE ActorsLeased /\ Accounted(row) /\ Silent(row) /\ ReportsAccounted
                                 /\ TypeOK
    BY DEF IInv
  <2>1. TypeOK
    BY TypeCorrectInitially
  <2>2. ActorsLeased
    BY DEF Init, ActorsLeased, NoTurn, NoAnswer
  <2>3. Accounted(row) /\ Silent(row)
    BY DEF Init, NewRow, Accounted, Silent, Terminal
  <2>4. ReportsAccounted
    BY DEF Init, NewRow, ReportsAccounted, NoReport
  <2>5. QED
    BY <2>1, <2>2, <2>3, <2>4
<1>2. IInv /\ [Next]_vars => IInv'
  <2> SUFFICES ASSUME IInv, [Next]_vars PROVE IInv'
    OBVIOUS
  <2>1. TypeOK'
    BY TypeCorrectNext DEF IInv
  <2>2. (NonReportInv /\ ReportsAccounted)'
    <3>1. CASE UNCHANGED vars
      <4>1. ActorsLeased'
        BY <3>1 DEF IInv, ActorsLeased, vars, actors
      <4>2. (Accounted(row) /\ Silent(row))'
        BY <3>1 DEF IInv, Accounted, Silent, vars
      <4>3. ReportsAccounted'
        BY <3>1 DEF IInv, ReportsAccounted, Current, vars, actors
      <4>4. QED
        BY <4>1, <4>2, <4>3 DEF NonReportInv
    <3>2. QED
      BY <3>1, ClockAndTickKeep, DispatchKeeps, WorkKeeps, RespondKeeps, DeliverKeeps DEF Next
  <2>3. QED
    BY <2>1, <2>2 DEF IInv, NonReportInv
<1>3. QED
  BY <1>1, <1>2, PTL DEF Spec

\* The lease, the outcome and the attempts of a run always agree with its status.
THEOREM AttemptsAreAccounted == Spec => []AttemptsAccounted
<1>1. IInv => AttemptsAccounted
  BY DEF IInv, Accounted, AttemptsAccounted
<1>2. QED
  BY <1>1, InductiveInvariant, PTL

\* A pending or sent report belongs to the question or outcome the run has now.
THEOREM OpenReportsAreCurrent == Spec => []OpenReportIsCurrent
<1>1. IInv => OpenReportIsCurrent
  BY DEF IInv, ReportsAccounted, Current, OpenReportIsCurrent
<1>2. QED
  BY <1>1, InductiveInvariant, PTL

\* A report is marked delivered only if its turn posted it.
THEOREM DeliveredReportsWerePosted == Spec => []DeliveredReportPosted
<1>1. IInv => DeliveredReportPosted
  BY DEF IInv, ReportsAccounted, Current, DeliveredReportPosted
<1>2. QED
  BY <1>1, InductiveInvariant, PTL

\* A claimed report has a question or an outcome to tell.
THEOREM ReportsHaveContent == Spec => []ReportHasContent
<1>1. IInv => ReportHasContent
  BY DEF IInv, ReportsAccounted, ReportHasContent
<1>2. QED
  BY <1>1, InductiveInvariant, PTL

-----------------------------------------------------------------------------
\* What may happen to a run that ended, and who may end it.

Final(r, s) ==
    r.status \in Terminal =>
        <<s.status, s.outcome, s.sequence>> = <<r.status, r.outcome, r.sequence>>

Completes(r, s) == r.status # "completed" /\ s.status = "completed"

\* Statements fenced by a lease do nothing to a run that ended, as it has none.
LEMMA FencedRowIsFinal ==
    ASSUME NEW r \in Row, Accounted(r), NEW lease \in 0 .. MaxAttempts, lease # NoValue,
           NEW session, NEW number, NEW kind
    PROVE  /\ Final(r, SetSession(r, lease, session))
           /\ Final(r, MarkStarted(r, lease, session))
           /\ Final(r, WaitForInput(r, lease, number))
           /\ Final(r, DeferCompletion(r, lease, number))
           /\ Final(r, CompleteRun(r, lease, number, kind))
           /\ Final(r, ReleaseRun(r, lease))
           /\ Final(r, ClaimInput(r, lease))
           /\ Final(r, RestoreInput(r, lease))
           /\ Final(r, FinishInput(r, lease))
<1>1. r.status \in Terminal => r.lease = NoValue /\ ~HoldsLease(r, lease)
                               /\ r.status # "waiting_for_input"
  BY DEF Accounted, Terminal, HoldsLease
<1>2. r.status \in Terminal =>
          /\ SetSession(r, lease, session) = r /\ MarkStarted(r, lease, session) = r
          /\ WaitForInput(r, lease, number) = r /\ DeferCompletion(r, lease, number) = r
          /\ CompleteRun(r, lease, number, kind) = r /\ ReleaseRun(r, lease) = r
          /\ ClaimInput(r, lease) = r /\ RestoreInput(r, lease) = r /\ FinishInput(r, lease) = r
  BY <1>1 DEF SetSession, MarkStarted, WaitForInput, DeferCompletion, CompleteRun, MayComplete,
              ReleaseRun, ClaimInput, RestoreInput, FinishInput
<1>3. QED
  BY <1>2 DEF Final

LEMMA ReportRowIsFinal ==
    ASSUME NEW r \in Row, NEW token, NEW verdict
    PROVE  /\ Final(r, ClaimReport(r, token)) /\ ~Completes(r, ClaimReport(r, token))
           /\ Final(r, ReopenedReport(r)) /\ ~Completes(r, ReopenedReport(r))
           /\ Final(r, ReleaseReport(r, token)) /\ ~Completes(r, ReleaseReport(r, token))
           /\ Final(r, FinalizeReport(r, token, verdict))
           /\ ~Completes(r, FinalizeReport(r, token, verdict))
  BY DEF Final, Completes, ClaimReport, ReopenedReport, ReleaseReport, FinalizeReport, Row

LEMMA OnlyCompleteRunCompletes ==
    ASSUME NEW r \in Row, NEW lease, NEW session, NEW number, NEW kind
    PROVE  /\ ~Completes(r, SetSession(r, lease, session))
           /\ ~Completes(r, MarkStarted(r, lease, session))
           /\ ~Completes(r, WaitForInput(r, lease, number))
           /\ ~Completes(r, DeferCompletion(r, lease, number))
           /\ ~Completes(r, ReleaseRun(r, lease))
           /\ ~Completes(r, ClaimInput(r, lease))
           /\ ~Completes(r, RestoreInput(r, lease))
           /\ ~Completes(r, FinishInput(r, lease))
           /\ ~Completes(r, ClaimedRow(r)) /\ ~Completes(r, ExhaustedRow(r))
<1> USE DEF Completes, Row
<1>1. ~Completes(r, SetSession(r, lease, session)) /\ ~Completes(r, MarkStarted(r, lease, session))
  BY DEF SetSession, MarkStarted
<1>2. ~Completes(r, WaitForInput(r, lease, number)) /\ ~Completes(r, DeferCompletion(r, lease, number))
  BY DEF WaitForInput, DeferCompletion
<1>3. ~Completes(r, ReleaseRun(r, lease)) /\ ~Completes(r, ClaimedRow(r)) /\ ~Completes(r, ExhaustedRow(r))
  BY DEF ReleaseRun, ExhaustedRow, ClaimedRow
<1>4. ~Completes(r, ClaimInput(r, lease)) /\ ~Completes(r, RestoreInput(r, lease))
      /\ ~Completes(r, FinishInput(r, lease))
  BY DEF ClaimInput, RestoreInput, FinishInput
<1>5. QED
  BY <1>1, <1>2, <1>3, <1>4

\* A step leaves a run that ended as it is, and completes a run only through a turn
\* that holds the newest lease.
LEMMA StepIsFenced ==
    ASSUME IInv, [Next]_vars
    PROVE  /\ Final(row, row')
           /\ Completes(row, row') =>
                  \E l \in Attempt : turn[l].pc = "running" /\ turn[l].lease = row.attempts
<1> DEFINE Fenced == Final(row, row') /\ ~Completes(row, row')
<1>1. row \in Row /\ Accounted(row)
  BY DEF IInv, TypeOK
<1>2. ASSUME UNCHANGED row PROVE Fenced
  BY <1>2 DEF Final, Completes
<1>3. CASE Clock
  BY <1>3, <1>1 DEF Clock, LeaseRunsOut, RetryComesDue, ReportLeaseRunsOut, Final, Completes, Row
<1>4. CASE Tick
  <2>1. ReadyToClaim(row) => row.status \notin Terminal
    BY DEF ReadyToClaim, Terminal
  <2>2. QED
    BY <1>4, <2>1, <1>1, ReportRowIsFinal, OnlyCompleteRunCompletes
       DEF Tick, Claim, Exhaust, StaleReportReopens, Final
<1>5. ASSUME NEW l \in Attempt, Dispatch(l) PROVE Fenced
  <2>1. l \in 0 .. MaxAttempts /\ l # NoValue
    BY MaxAttemptsAssumption DEF Attempt, NoValue
  <2>2. CASE UNCHANGED row
    BY <2>2, <1>2
  <2>3. CASE RecordSession(l)
    BY <2>3, <2>1, <1>1, FencedRowIsFinal, OnlyCompleteRunCompletes DEF RecordSession
  <2>4. CASE DispatchReleases(l)
    BY <2>4, <2>1, <1>1, FencedRowIsFinal, OnlyCompleteRunCompletes DEF DispatchReleases
  <2>5. QED
    BY <1>5, <2>2, <2>3, <2>4 DEF Dispatch, ResetSource, Send, DispatchThrows, DispatchCrashes
<1>6. ASSUME NEW l \in Attempt, Work(l)
      PROVE  /\ Final(row, row')
             /\ Completes(row, row') => turn[l].pc = "running" /\ turn[l].lease = row.attempts
  <2>1. turn[l].lease \in 0 .. MaxAttempts
        /\ (turn[l].pc \notin {"none", "done"} => turn[l].lease # NoValue)
    BY DEF IInv, TypeOK, Turn, ActorsLeased
  <2>2. CASE UNCHANGED row
    BY <2>2, <1>2
  <2>3. CASE TurnStarts(l)
    BY <2>3, <2>1, <1>1, FencedRowIsFinal, OnlyCompleteRunCompletes DEF TurnStarts
  <2>4. CASE InputRequested(l)
    BY <2>4, <2>1, <1>1, FencedRowIsFinal, OnlyCompleteRunCompletes DEF InputRequested
  <2>5. CASE BackgroundDelegated(l)
    BY <2>5, <2>1, <1>1, FencedRowIsFinal, OnlyCompleteRunCompletes DEF BackgroundDelegated
  <2>6. ASSUME NEW kind \in {"result", "nothing_to_report"}, MessageCompleted(l, kind)
        PROVE  /\ Final(row, row')
               /\ Completes(row, row') => turn[l].pc = "running" /\ turn[l].lease = row.attempts
    <3>1. Final(row, row')
      BY <2>6, <2>1, <1>1, FencedRowIsFinal DEF MessageCompleted
    <3>2. ASSUME Completes(row, row') PROVE row.status = "running" /\ row.lease = turn[l].lease
      BY <2>6, <3>2 DEF MessageCompleted, CompleteRun, MayComplete, HoldsLease, Completes
    <3>3. QED
      BY <2>6, <3>1, <3>2, <1>1 DEF MessageCompleted, Accounted
  <2>7. CASE TurnFails(l)
    BY <2>7, <2>1, <1>1, FencedRowIsFinal, OnlyCompleteRunCompletes DEF TurnFails
  <2>8. QED
    BY <1>6, <2>2, <2>3, <2>4, <2>5, <2>6, <2>7 DEF Work, StepStarts, TurnWakes
<1>7. ASSUME NEW a \in Answerer, Respond(a) PROVE Fenced
  <2>1. answer[a].lease \in 0 .. MaxAttempts
        /\ (answer[a].pc # "idle" => answer[a].lease # NoValue)
    BY DEF IInv, TypeOK, Answer, ActorsLeased
  <2>2. CASE UNCHANGED row
    BY <2>2, <1>2
  <2>3. CASE AnswerClaims(a)
    BY <2>3, <2>1, <1>1, FencedRowIsFinal, OnlyCompleteRunCompletes DEF AnswerClaims
  <2>4. CASE AnswerFinishes(a)
    BY <2>4, <2>1, <1>1, FencedRowIsFinal, OnlyCompleteRunCompletes DEF AnswerFinishes
  <2>5. CASE AnswerRejected(a) \/ AnswerThrows(a)
    BY <2>5, <2>1, <1>1, FencedRowIsFinal, OnlyCompleteRunCompletes
       DEF AnswerRejected, AnswerThrows
  <2>6. QED
    BY <1>7, <2>2, <2>3, <2>4, <2>5 DEF Respond, FindInput, AnswerAccepted, AnswerCrashes
<1>8. ASSUME NEW k \in Token, Deliver(k) PROVE Fenced
  <2>1. CASE UNCHANGED row
    BY <2>1, <1>2
  <2>2. CASE \E verdict \in {"delivered", "suppressed"} : row' = FinalizeReport(row, k, verdict)
    BY <2>2, <1>1, ReportRowIsFinal
  <2>3. CASE row' = ClaimReport(row, k) \/ row' = ReleaseReport(row, k)
    BY <2>3, <1>1, ReportRowIsFinal
  <2>4. QED
    BY <1>8, <2>1, <2>2, <2>3
       DEF Deliver, ReportClaims, ReportTurnStarts, ReportUnwanted, ReportDispatchThrows,
           ReportPosts, ReportTurnCompletes, ReportTurnFails, ReportCrashes
<1>9. CASE UNCHANGED vars
  BY <1>9, <1>2 DEF vars
<1>10. QED
  BY <1>3, <1>4, <1>5, <1>6, <1>7, <1>8, <1>9 DEF Next

\* A run that ended stays as it ended, whatever late event or answer arrives.
THEOREM OutcomesAreFinal == Spec => OutcomeIsFinal
<1>1. IInv /\ [Next]_vars =>
          [row.status \in Terminal => <<row.status, row.outcome, row.sequence>>'
                                      = <<row.status, row.outcome, row.sequence>>]_vars
  BY StepIsFenced DEF Final
<1>2. QED
  BY <1>1, InductiveInvariant, PTL DEF Spec, OutcomeIsFinal

\* No superseded worker completes a run: the turn that does holds the newest lease.
THEOREM OnlyTheNewestCompletes == Spec => OnlyNewestAttemptCompletes
<1>1. IInv /\ [Next]_vars =>
          [row.status # "completed" /\ row'.status = "completed" =>
               \E l \in Attempt : turn[l].pc = "running" /\ turn[l].lease = row.attempts]_vars
  BY StepIsFenced DEF Completes
<1>2. QED
  BY <1>1, InductiveInvariant, PTL DEF Spec, OnlyNewestAttemptCompletes
=============================================================================
