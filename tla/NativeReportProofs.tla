-------------------------- MODULE NativeReportProofs --------------------------
(***************************************************************************)
(* Proofs about NativeReport, the run's reports composed with the lane they *)
(* go through, for every number of messages, drains, reports, rate limits  *)
(* and retries: the verdict on a report is true, and the lane keeps, with   *)
(* a run that is removed under it, what OutboxProofs shows of it alone.    *)
(***************************************************************************)
EXTENDS NativeReport, OutboxProofs

-----------------------------------------------------------------------------
\* The inductive invariant: the lane's own, and what relates it to the run.

Unbound == \A m \in Message : outbox[m].status = "absent" => ~outbox[m].report

\* Of a run that a release took out of its lease nothing is known: what was written back
\* may be the status of an earlier report.  An answer under way knows its question.
Known == Reported \/ (run.status = "running" /\ run.answers > 0)

\* A report that is or was to be sent has a number, and its chunks come with it.
Sequenced ==
    Known =>
        /\ run.report \notin {"not_ready", "not_needed"} => run.sequence # 0
        /\ run.report = "pending" => Chunks = {}
        /\ run.report = "queued" => Chunks # {}

KnownVerdict == Known => Verdict

SentIsTrue == \A m \in Message : outbox[m].status = "sent" => copies[m] # 0 \/ m \in vouched

NativeInv == IInv /\ NativeTypeOK /\ Unbound /\ Sequenced /\ SentIsTrue /\ KnownVerdict

-----------------------------------------------------------------------------
\* What a step of the lane leaves of a row.

RowStays(r, s) ==
    /\ s.report = r.report
    /\ r.status # "absent" => s.status # "absent"
    /\ r.status \in Settled => s.status = r.status

LEMMA UnleasedStays ==
    ASSUME NEW r \in Row, NEW s \in Status \ {"absent"}, r.status \notin Settled
    PROVE  RowStays(r, Unleased(r, s)) /\ Unleased(r, s).status = s
  BY DEF RowStays, Unleased, Row

LEMMA SweptStays ==
    ASSUME IInv, NEW m \in Message
    PROVE  /\ Swept[m] \in Row /\ RowStays(outbox[m], Swept[m])
           /\ Swept[m].status = "sent" => outbox[m].status = "sent"
           /\ Swept[m].status = "queued" => outbox[m].status = "queued"
<1>1. outbox[m] \in Row /\ Swept[m] \in Row
  BY SweptRows, OutboxRows DEF IInv, Moves
<1>2. CASE outbox[m].status = "dispatching" /\ outbox[m].expires = "past"
  BY <1>1, <1>2, UnleasedStays, RowValues DEF Swept, Settled
<1>3. CASE ~(outbox[m].status = "dispatching" /\ outbox[m].expires = "past")
  BY <1>1, <1>3 DEF Swept, RowStays
<1>4. QED
  BY <1>1, <1>2, <1>3

\* A message that is sent in the end was in the conversation, or an operator said so.
MessageStays(m) ==
    /\ RowStays(outbox[m], outbox'[m])
    /\ copies[m] # 0 => copies'[m] # 0
    /\ m \in vouched => m \in vouched'
    /\ outbox'[m].status = "sent" =>
           outbox[m].status = "sent" \/ copies'[m] # 0 \/ m \in vouched'

LEMMA RowsAlone ==
    ASSUME UNCHANGED <<copies, vouched>>,
           \A m \in Message : /\ RowStays(outbox[m], outbox'[m])
                              /\ outbox'[m].status = "sent" => outbox[m].status = "sent"
    PROVE  \A m \in Message : MessageStays(m)
  BY DEF MessageStays

LEMMA ClaimStays ==
    ASSUME IInv, NEW d \in Drainer, Claim(d)
    PROVE  \A m \in Message : MessageStays(m)
<1>1. UNCHANGED <<copies, vouched>>
  BY DEF Claim, ClaimNothing, ClaimRevoked, ClaimMessage, audit, provider
<1>2. CASE ClaimNothing
  BY <1>1, <1>2, SweptStays, RowsAlone DEF ClaimNothing
<1>3. CASE ClaimRevoked
  <2> SUFFICES ASSUME NEW m \in Message
               PROVE  /\ RowStays(outbox[m], outbox'[m])
                      /\ outbox'[m].status = "sent" => outbox[m].status = "sent"
    BY <1>1, RowsAlone
  <2>1. outbox'[m] = IF Swept[m].status = "queued" THEN [Swept[m] EXCEPT !.status = "cancelled"]
                     ELSE Swept[m]
    BY <1>3 DEF ClaimRevoked
  <2>2. QED
    BY <2>1, SweptStays DEF RowStays, Row, Settled
<1>4. ASSUME NEW k \in Message, ClaimMessage(d, k)
      PROVE  \A m \in Message : MessageStays(m)
  <2> SUFFICES ASSUME NEW m \in Message
               PROVE  /\ RowStays(outbox[m], outbox'[m])
                      /\ outbox'[m].status = "sent" => outbox[m].status = "sent"
    BY <1>1, RowsAlone
  <2>1. Swept = [n \in Message |-> Swept[n]]
    BY DEF Swept
  <2>2. outbox'[m] = IF m = k THEN Leased(Swept[m]) ELSE Swept[m]
    BY <1>4, <2>1 DEF ClaimMessage
  <2>3. m = k => Swept[m].status = "queued"
    BY <1>4 DEF ClaimMessage, IsHead
  <2>4. /\ Leased(Swept[m]).status = "dispatching"
        /\ Leased(Swept[m]).report = Swept[m].report
    BY SweptStays DEF Leased, Row
  <2>5. QED
    BY <2>2, <2>3, <2>4, SweptStays DEF RowStays, Settled
<1>5. QED
  BY <1>2, <1>3, <1>4 DEF Claim

LEMMA SendStays ==
    ASSUME IInv, NEW d \in Drainer, Send(d) \/ Crash(d)
    PROVE  \A m \in Message : MessageStays(m)
<1>1. UNCHANGED <<outbox, vouched>>
  BY DEF Send, Crash, PreflightRefuses, ChecksLease, ProviderDelivers, ProviderBreaks,
     ProviderTimesOut, ProviderLimits, ProviderRejects, audit
<1>2. UNCHANGED copies \/ copies' = [copies EXCEPT ![drain[d].message] = @ + 1]
  BY DEF Send, Crash, PreflightRefuses, ChecksLease, ProviderDelivers, ProviderBreaks,
     ProviderTimesOut, ProviderLimits, ProviderRejects, provider
<1>3. copies \in [Message -> Nat]
  BY DEF IInv, TypeOK
<1>4. \A m \in Message : copies[m] # 0 => copies'[m] # 0
  BY <1>2, <1>3
<1>5. QED
  BY <1>1, <1>4 DEF MessageStays, RowStays

LEMMA RecordStays ==
    ASSUME IInv, NEW d \in Drainer, Record(d)
    PROVE  \A m \in Message : MessageStays(m)
<1> DEFINE n == drain[d].message
<1>1. /\ drain[d].pc # "idle" /\ n \in Message /\ UNCHANGED <<copies, vouched>>
  BY DEF Record, MarkSent, MarkFailed, MarkUncertain, ScheduleRetry, Recorded, IInv, TypeOK,
     audit, provider
<1>2. outbox \in [Message -> Row] /\ outbox[n] \in Row
  BY <1>1 DEF IInv, TypeOK
<1>3. CASE UNCHANGED outbox
  BY <1>1, <1>3, RowsAlone DEF RowStays
<1>4. CASE HoldsLease(d) /\ outbox' # outbox
  <2>1. outbox[n].status = "dispatching" /\ outbox[n].status \notin Settled
    BY <1>4 DEF HoldsLease, Settled
  <2>2. PICK row : /\ outbox' = [outbox EXCEPT ![n] = row]
                   /\ RowStays(outbox[n], row)
                   /\ row.status = "sent" => drain[d].pc = "receipt"
    <3>1. CASE MarkSent(d) \/ MarkFailed(d) \/ MarkUncertain(d)
      <4>1. PICK s \in {"sent", "failed", "uncertain"} :
                /\ outbox' = [outbox EXCEPT ![n] = Unleased(outbox[n], s)]
                /\ s = "sent" => drain[d].pc = "receipt"
        BY <1>4, <3>1 DEF MarkSent, MarkFailed, MarkUncertain, Recorded
      <4>2. RowStays(outbox[n], Unleased(outbox[n], s)) /\ Unleased(outbox[n], s).status = s
        BY <1>2, <2>1, UnleasedStays, RowValues
      <4>3. QED
        BY <4>1, <4>2
    <3>2. CASE ScheduleRetry(d)
      <4> DEFINE row == [[[outbox[n] EXCEPT !.status = "queued"] EXCEPT !.lease = 0]
                            EXCEPT !.expires = "ahead"]
      <4>1. outbox' = [outbox EXCEPT ![n] = row]
        BY <1>4, <3>2 DEF ScheduleRetry, Recorded
      <4>2. row.status = "queued" /\ RowStays(outbox[n], row)
        BY <1>2, <2>1 DEF RowStays, Row
      <4> HIDE DEF row
      <4>3. QED
        BY <4>1, <4>2
    <3>3. QED
      BY <3>1, <3>2 DEF Record
  <2>3. outbox'[n] = row /\ \A m \in Message : m # n => outbox'[m] = outbox[m]
    BY <1>1, <1>2, <2>2
  <2>4. row.status = "sent" => copies[n] # 0
    BY <1>1, <2>2 DEF IInv, Traced
  <2>5. QED
    BY <1>1, <2>2, <2>3, <2>4 DEF MessageStays, RowStays
<1>5. QED
  BY <1>3, <1>4 DEF Record, MarkSent, MarkFailed, MarkUncertain, ScheduleRetry, Recorded

LEMMA MessageSteps ==
    ASSUME IInv, NEW k \in Message, ExpiryPasses(k) \/ StrayLands(k) \/ Resolve(k)
    PROVE  \A m \in Message : MessageStays(m)
<1>1. outbox \in [Message -> Row] /\ outbox[k] \in Row /\ copies \in [Message -> Nat]
  BY DEF IInv, TypeOK
<1>2. CASE ExpiryPasses(k)
  <2>1. outbox' = [outbox EXCEPT ![k].expires = "past"] /\ UNCHANGED <<copies, vouched>>
    BY <1>2 DEF ExpiryPasses, audit, provider
  <2>2. \A m \in Message : outbox'[m].status = outbox[m].status
                               /\ outbox'[m].report = outbox[m].report
    BY <1>1, <2>1 DEF Row
  <2>3. QED
    BY <2>1, <2>2, RowsAlone DEF RowStays
<1>3. CASE StrayLands(k)
  <2>1. UNCHANGED <<outbox, vouched>>
        /\ (UNCHANGED copies \/ copies' = [copies EXCEPT ![k] = @ + 1])
    BY <1>3 DEF StrayLands, audit
  <2>2. \A m \in Message : copies[m] # 0 => copies'[m] # 0
    BY <1>1, <2>1
  <2>3. QED
    BY <2>1, <2>2 DEF MessageStays, RowStays
<1>4. CASE Resolve(k)
  <2>1. outbox[k].status = "uncertain" /\ outbox[k].status \notin Settled
    BY <1>4 DEF Resolve, ResolveDelivered, ResolveRetry, ResolveCancel, Settled
  <2>2. PICK s \in {"sent", "queued", "cancelled"} :
            /\ outbox' = [outbox EXCEPT ![k] = Unleased(outbox[k], s)]
            /\ UNCHANGED copies /\ vouched \subseteq vouched'
            /\ s = "sent" => k \in vouched'
    BY <1>4 DEF Resolve, ResolveDelivered, ResolveRetry, ResolveCancel, audit, provider
  <2>3. RowStays(outbox[k], Unleased(outbox[k], s)) /\ Unleased(outbox[k], s).status = s
    BY <1>1, <2>1, UnleasedStays, RowValues
  <2>4. outbox'[k] = Unleased(outbox[k], s)
        /\ \A m \in Message : m # k => outbox'[m] = outbox[m]
    BY <1>1, <2>2
  <2>5. QED
    BY <2>2, <2>3, <2>4 DEF MessageStays, RowStays
<1>5. QED
  BY <1>2, <1>3, <1>4

LEMMA CancelledStays ==
    ASSUME IInv, NEW ms, NEW m \in Message,
           m \in ms => outbox[m].status \in {"queued", "dispatching"}
    PROVE  /\ RowStays(outbox[m], Cancelled(ms)[m])
           /\ Cancelled(ms)[m].status = "sent" => outbox[m].status = "sent"
<1>1. outbox[m] \in Row
  BY DEF IInv, TypeOK
<1>2. CASE m \in ms
  BY <1>1, <1>2, UnleasedStays, RowValues DEF Cancelled, Settled
<1>3. CASE m \notin ms
  BY <1>3 DEF Cancelled, RowStays
<1>4. QED
  BY <1>2, <1>3

LEMMA LaneStays ==
    ASSUME IInv, Unbound, Lane
    PROVE  \A m \in Message : MessageStays(m)
<1>1. ASSUME NEW last \in Message, Enqueue(last, FALSE)
      PROVE  \A m \in Message : MessageStays(m)
  <2>1. UNCHANGED <<copies, vouched>>
    BY <1>1 DEF Enqueue, audit, provider
  <2>2. [NoRow EXCEPT !.status = "queued", !.report = FALSE].status = "queued"
        /\ [NoRow EXCEPT !.status = "queued", !.report = FALSE].report = FALSE
    BY DEF NoRow
  <2>3. ASSUME NEW m \in Message
        PROVE  /\ RowStays(outbox[m], outbox'[m])
               /\ outbox'[m].status = "sent" => outbox[m].status = "sent"
    <3>1. \/ outbox'[m] = outbox[m]
          \/ /\ outbox[m].status = "absent"
             /\ outbox'[m] = [NoRow EXCEPT !.status = "queued", !.report = FALSE]
      BY <1>1 DEF Enqueue
    <3>2. outbox[m] \in Row
      BY DEF IInv, TypeOK
    <3>3. QED
      BY <2>2, <3>1, <3>2 DEF RowStays, Unbound, Settled, Row
  <2>4. QED
    BY <2>1, <2>3, RowsAlone
<1>2. CASE RevokeIdentity
  BY <1>2, RowsAlone DEF RevokeIdentity, RowStays, audit, provider
<1>3. CASE ArchiveAccount
  <2> DEFINE queued == {m \in Message : outbox[m].status = "queued"}
  <2>1. outbox' = Cancelled(queued) /\ UNCHANGED <<copies, vouched>>
    BY <1>3 DEF ArchiveAccount, audit, provider
  <2>2. QED
    BY <2>1, CancelledStays, RowsAlone
<1>4. QED
  BY <1>1, <1>2, <1>3, ClaimStays, SendStays, RecordStays, MessageSteps DEF Lane

-----------------------------------------------------------------------------
\* The steps keep the invariant.

LEMMA LaneKeepsIInv ==
    ASSUME IInv, Lane
    PROVE  IInv'
<1>1. Next
  BY DEF Lane, Next, Account
<1>2. QED
  BY <1>1, NextIInv

\* A verdict depends on the report and its chunks, and a settled chunk stays settled.
LEMMA VerdictStays ==
    ASSUME Verdict, TypeOK, TypeOK', UNCHANGED <<run, bound>>,
           \A m \in Message : MessageStays(m)
    PROVE  Verdict'
<1>1. Chunks' = Chunks /\ Chunks \subseteq Message
  BY DEF Chunks
<1>2. ASSUME NEW m \in Message
      PROVE  /\ copies[m] > 0 \/ m \in vouched => copies'[m] > 0 \/ m \in vouched'
             /\ outbox[m].status \in Settled => outbox'[m].status = outbox[m].status
  BY DEF MessageStays, RowStays, TypeOK
<1>3. QED
  BY <1>1, <1>2 DEF Verdict, Settled

\* A step of the lane leaves the run and what it says of the chunks as it is.
LEMMA LaneKeeps ==
    ASSUME NativeInv, Lane
    PROVE  NativeInv'
<1>1. IInv' /\ \A m \in Message : MessageStays(m)
  BY LaneKeepsIInv, LaneStays DEF NativeInv
<1>2. UNCHANGED <<run, bound>> /\ TypeOK /\ TypeOK'
  BY <1>1 DEF Lane, NativeInv, IInv
<1>3. NativeTypeOK' /\ Known' = Known
  BY <1>1, <1>2 DEF NativeInv, NativeTypeOK, Reported, Known, MessageStays, RowStays
<1>4. Unbound'
  BY <1>1 DEF NativeInv, Unbound, MessageStays, RowStays
<1>5. Sequenced'
  BY <1>2, <1>3 DEF NativeInv, Sequenced, Chunks
<1>6. SentIsTrue'
  BY <1>1 DEF NativeInv, SentIsTrue, MessageStays
<1>7. KnownVerdict'
  BY <1>1, <1>2, <1>3, VerdictStays DEF NativeInv, KnownVerdict
<1>8. QED
  BY <1>1, <1>3, <1>4, <1>5, <1>6, <1>7 DEF NativeInv

\* A step of the run alone keeps the invariant if the report it leaves is in order.
LEMMA RunKeeps ==
    ASSUME NativeInv, UNCHANGED <<vars, bound>>, NativeTypeOK', Sequenced', KnownVerdict'
    PROVE  NativeInv'
<1>1. UNCHANGED <<outbox, active, drain, retries, vouched, copies, stray, limits>>
  BY DEF vars, audit, provider
<1>2. IInv'
  BY NextIInv DEF NativeInv
<1>3. Unbound' /\ SentIsTrue'
  BY <1>1 DEF NativeInv, Unbound, SentIsTrue
<1>4. QED
  BY <1>2, <1>3 DEF NativeInv

LEMMA SameLane ==
    ASSUME NativeInv, UNCHANGED vars
    PROVE  UNCHANGED <<outbox, copies, vouched>> /\ TypeOK'
<1>1. UNCHANGED <<outbox, active, drain, retries, vouched, copies, stray, limits>>
  BY DEF vars, audit, provider
<1>2. QED
  BY <1>1 DEF NativeInv, IInv, TypeOK

RunRow == [status : RunStatus, report : ReportStatus, sequence : 0 .. MaxReports,
           found : BOOLEAN, answers : Nat, read : ReportStatus \union {"none"}]

LEMMA RunFields ==
    ASSUME NativeInv
    PROVE  /\ run \in RunRow /\ run.sequence \in 0 .. MaxReports /\ run.sequence \in Nat
           /\ run.report \in ReportStatus /\ run.status \in RunStatus
           /\ run.found \in BOOLEAN /\ run.answers \in Nat
           /\ run.read \in ReportStatus \union {"none"}
  BY NativeReportAssumption DEF NativeInv, NativeTypeOK, RunRow

\* A new report has no chunks yet, whatever became of the one before it.
LEMMA NewReportKeeps ==
    ASSUME NativeInv, UNCHANGED <<vars, bound>>, run.sequence < MaxReports,
           run' \in RunRow, run'.report = "pending", run'.sequence = run.sequence + 1
    PROVE  NativeInv'
<1>1. UNCHANGED outbox /\ TypeOK' /\ UNCHANGED bound
  BY SameLane
<1>2. run.sequence \in Nat /\ bound \in [Message -> 0 .. run.sequence]
  BY RunFields DEF NativeInv, NativeTypeOK
<1>3. run'.sequence # 0 /\ \A m \in Message : bound[m] # run'.sequence
  BY <1>2
<1>4. bound' \in [Message -> 0 .. run'.sequence]
  BY <1>1, <1>2
<1>5. NativeTypeOK'
  BY <1>1, <1>4 DEF NativeInv, NativeTypeOK, RunRow, Reported
<1>6. Chunks' = {}
  BY <1>1, <1>3 DEF Chunks
<1>7. Sequenced' /\ KnownVerdict'
  BY <1>3, <1>6 DEF Sequenced, KnownVerdict, Verdict
<1>8. QED
  BY <1>5, <1>7, RunKeeps

\* The run keeps its report, or the report gets a status that is true of it.
LEMMA ReportKeeps ==
    ASSUME NativeInv, UNCHANGED <<vars, bound>>,
           run' \in RunRow, run'.sequence = run.sequence,
           NEW report, run'.report = report, report \notin {"pending", "queued"},
           report \notin {"not_ready", "not_needed"} => run.sequence # 0,
           report = "delivered" => Chunks # {} /\ \A m \in Chunks : outbox[m].status = "sent",
           report = "failed" => /\ \E m \in Chunks : outbox[m].status = "failed"
                                /\ \A m \in Chunks : outbox[m].status \in Settled,
           report = "cancelled" => \A m \in Chunks : outbox[m].status \in Settled,
           report = "uncertain" => Chunks # {}
    PROVE  NativeInv'
<1>1. UNCHANGED <<outbox, copies, vouched>> /\ TypeOK'
  BY SameLane
<1>2. Chunks' = Chunks /\ Chunks \subseteq Message
  BY DEF Chunks
<1>3. NativeTypeOK'
  BY <1>1 DEF NativeInv, NativeTypeOK, RunRow
<1>4. Sequenced'
  BY DEF Sequenced
<1>5. report = "delivered" => Chunks # {} /\ \A m \in Chunks : copies[m] > 0 \/ m \in vouched
  BY <1>2 DEF NativeInv, SentIsTrue, IInv, TypeOK
<1>6. KnownVerdict'
  BY <1>1, <1>2, <1>5 DEF KnownVerdict, Verdict
<1>7. QED
  BY <1>3, <1>4, <1>6, RunKeeps

LEMMA SameReportKeeps ==
    ASSUME NativeInv, UNCHANGED <<vars, bound>>, Known' => Known,
           run' \in RunRow, run'.sequence = run.sequence, run'.report = run.report
    PROVE  NativeInv'
<1>1. UNCHANGED <<outbox, copies, vouched, bound>> /\ TypeOK' /\ Chunks' = Chunks
  BY SameLane DEF Chunks
<1>2. Sequenced'
  BY <1>1 DEF NativeInv, Sequenced
<1>3. KnownVerdict'
  BY <1>1 DEF NativeInv, KnownVerdict, Verdict
<1>4. Reported' /\ run'.report = "queued" => \E m \in Message : bound'[m] = run'.sequence
  BY <1>2 DEF Sequenced, Known, Chunks
<1>5. NativeTypeOK'
  BY <1>1, <1>4 DEF NativeInv, NativeTypeOK, RunRow
<1>6. QED
  BY <1>2, <1>3, <1>5, RunKeeps

LEMMA UnknownKeeps ==
    ASSUME NativeInv, UNCHANGED <<vars, bound>>, ~Known',
           run' \in RunRow, run'.sequence = run.sequence
    PROVE  NativeInv'
<1>1. UNCHANGED <<outbox, bound>> /\ TypeOK' /\ ~Reported'
  BY SameLane DEF Known
<1>2. NativeTypeOK'
  BY <1>1 DEF NativeInv, NativeTypeOK, RunRow
<1>3. Sequenced' /\ KnownVerdict'
  BY DEF Sequenced, KnownVerdict
<1>4. QED
  BY <1>2, <1>3, RunKeeps

\* What the steps of the run leave of its row.
LEMMA Keeping ==
    ASSUME NEW r \in RunRow
    PROVE  /\ WithoutLease(r) \in RunRow
           /\ WithoutLease(r).status = r.status /\ WithoutLease(r).answers = 0
           /\ WithoutLease(r).report = r.report /\ WithoutLease(r).sequence = r.sequence
  BY DEF RunRow, WithoutLease

LEMMA Renewing ==
    ASSUME NEW r \in RunRow, NEW status \in RunStatus, r.sequence < MaxReports
    PROVE  /\ NewReport(r, status) \in RunRow /\ WithoutLease(NewReport(r, status)) \in RunRow
           /\ \A s \in {NewReport(r, status), WithoutLease(NewReport(r, status))} :
                  s.report = "pending" /\ s.sequence = r.sequence + 1
<1>1. r.sequence + 1 \in 0 .. MaxReports /\ "pending" \in ReportStatus
  BY NativeReportAssumption DEF RunRow, ReportStatus
<1>2. ASSUME NEW n \in 0 .. MaxReports
      PROVE  LET s == [r EXCEPT !.status = status, !.report = "pending", !.sequence = n]
             IN  s \in RunRow /\ s.report = "pending" /\ s.sequence = n
  BY <1>1 DEF RunRow
<1>3. /\ NewReport(r, status) \in RunRow
      /\ NewReport(r, status).report = "pending"
      /\ NewReport(r, status).sequence = r.sequence + 1
  <2> DEFINE n == r.sequence + 1
  <2>1. NewReport(r, status) = [r EXCEPT !.status = status, !.report = "pending", !.sequence = n]
    BY DEF NewReport, RunRow
  <2> HIDE DEF n
  <2>2. QED
    BY <1>1, <1>2, <2>1 DEF n
<1>4. QED
  BY <1>3, Keeping

LEMMA RunActionKeeps ==
    ASSUME NativeInv, Run
    PROVE  NativeInv'
<1>1. UNCHANGED <<vars, bound>>
  BY DEF Run, ClaimsRun, Asks, FindsInput, ClaimsInput, AnswerEnds, Completes, Releases,
     ReadsForRelease, RunStep
<1>2. CASE ClaimsRun
  <2> DEFINE r == [run EXCEPT !.status = "running"]
  <2>1. run' = WithoutLease(r) /\ r \in RunRow /\ r.status = "running"
        /\ r.sequence = run.sequence
    BY <1>2, RunFields DEF ClaimsRun, RunRow, RunStatus
  <2> HIDE DEF r
  <2>2. run' \in RunRow /\ run'.sequence = run.sequence /\ ~Known'
    BY <2>1, Keeping DEF Known, Reported
  <2>3. QED
    BY <1>1, <2>2, UnknownKeeps
<1>3. CASE Asks
  <2>1. /\ run' = NewReport(run, "waiting_for_input") /\ run.sequence < MaxReports
        /\ run \in RunRow
    BY <1>3, RunFields, NativeReportAssumption DEF Asks
  <2>2. run' \in RunRow /\ run'.report = "pending" /\ run'.sequence = run.sequence + 1
    BY <2>1, Renewing DEF RunStatus
  <2>3. QED
    BY <1>1, <2>1, <2>2, NewReportKeeps
<1>4. CASE FindsInput
  <2>1. run' = [run EXCEPT !.found = TRUE] /\ Reported
    BY <1>4 DEF FindsInput, Reported
  <2>2. run' \in RunRow /\ run'.sequence = run.sequence /\ run'.report = run.report
    BY <2>1, RunFields DEF RunRow
  <2>3. QED
    BY <1>1, <2>1, <2>2, SameReportKeeps DEF Known
<1>5. CASE ClaimsInput
  <2> DEFINE n == run.answers + 1
  <2>1. n \in Nat /\ run' = [run EXCEPT !.status = "running", !.answers = n] /\ Reported
    BY <1>5, RunFields DEF ClaimsInput, Reported
  <2> HIDE DEF n
  <2>2. run' \in RunRow /\ run'.sequence = run.sequence /\ run'.report = run.report
    BY <2>1, RunFields DEF RunRow, RunStatus
  <2>3. QED
    BY <1>1, <2>1, <2>2, SameReportKeeps DEF Known
<1>6. CASE AnswerEnds
  <2> DEFINE n == run.answers - 1
  <2>1. n \in Nat /\ run.answers > 0 /\ (n > 0 => run.answers > 0)
    BY <1>6, RunFields DEF AnswerEnds
  <2>2. \/ run' = [run EXCEPT !.answers = n]
        \/ run' = [run EXCEPT !.answers = n, !.report = "not_ready"]
        \/ /\ run' = [run EXCEPT !.answers = n, !.status = "waiting_for_input"]
           /\ run.status = "running"
    BY <1>6 DEF AnswerEnds
  <2> HIDE DEF n
  <2>3. CASE run' = [run EXCEPT !.answers = n]
    <3>1. run' \in RunRow /\ run'.sequence = run.sequence /\ run'.report = run.report
          /\ run'.status = run.status
      BY <2>1, <2>3, RunFields DEF RunRow
    <3>2. Known' => Known
      BY <2>1, <3>1 DEF Known, Reported
    <3>3. QED
      BY <1>1, <3>1, <3>2, SameReportKeeps
  <2>4. CASE run' = [run EXCEPT !.answers = n, !.report = "not_ready"]
    <3>1. run' \in RunRow /\ run'.report = "not_ready" /\ run'.sequence = run.sequence
      BY <2>1, <2>4, RunFields DEF RunRow, ReportStatus
    <3>2. QED
      BY <1>1, <3>1, ReportKeeps
  <2>5. CASE /\ run' = [run EXCEPT !.answers = n, !.status = "waiting_for_input"]
             /\ run.status = "running"
    <3>1. run' \in RunRow /\ run'.sequence = run.sequence /\ run'.report = run.report
      BY <2>1, <2>5, RunFields DEF RunRow, RunStatus
    <3>2. Known
      BY <2>1, <2>5 DEF Known
    <3>3. QED
      BY <1>1, <3>1, <3>2, SameReportKeeps
  <2>6. QED
    BY <2>2, <2>3, <2>4, <2>5
<1>7. CASE Completes
  <2>1. CASE run.sequence < MaxReports /\ run' = WithoutLease(NewReport(run, "completed"))
    <3>1. run' \in RunRow /\ run'.report = "pending" /\ run'.sequence = run.sequence + 1
      BY <2>1, RunFields, Renewing DEF RunStatus
    <3>2. QED
      BY <1>1, <2>1, <3>1, NewReportKeeps
  <2>2. CASE run' = WithoutLease([run EXCEPT !.status = "completed", !.report = "not_needed"])
    <3>1. run' \in RunRow /\ run'.report = "not_needed" /\ run'.sequence = run.sequence
      BY <2>2, RunFields DEF RunRow, RunStatus, ReportStatus, WithoutLease
    <3>2. QED
      BY <1>1, <3>1, ReportKeeps
  <2>3. QED
    BY <1>7, <2>1, <2>2 DEF Completes
<1>8. CASE ReadsForRelease
  <2>1. run' = [run EXCEPT !.read = run.report]
    BY <1>8 DEF ReadsForRelease
  <2>2. run' \in RunRow /\ run'.sequence = run.sequence /\ run'.report = run.report
        /\ run'.status = run.status /\ run'.answers = run.answers
    BY <2>1, RunFields DEF RunRow
  <2>3. Known' => Known
    BY <2>2 DEF Known, Reported
  <2>4. QED
    BY <1>1, <2>2, <2>3, SameReportKeeps
<1>9. CASE Releases
  <2>1. CASE run.read # "none"
             /\ run' = WithoutLease([run EXCEPT !.status = "queued", !.report = run.read])
    <3> DEFINE r == [run EXCEPT !.status = "queued", !.report = run.read]
    <3>1. run' = WithoutLease(r) /\ r \in RunRow /\ r.status = "queued"
          /\ r.sequence = run.sequence
      BY <2>1, RunFields DEF RunRow, RunStatus
    <3> HIDE DEF r
    <3>2. run' \in RunRow /\ run'.sequence = run.sequence /\ ~Known'
      BY <3>1, Keeping DEF Known, Reported
    <3>3. QED
      BY <1>1, <3>2, UnknownKeeps
  <2>2. CASE run.sequence < MaxReports /\ run' = WithoutLease(NewReport(run, "dead_letter"))
    <3>1. run' \in RunRow /\ run'.report = "pending" /\ run'.sequence = run.sequence + 1
      BY <2>2, RunFields, Renewing DEF RunStatus
    <3>2. QED
      BY <1>1, <2>2, <3>1, NewReportKeeps
  <2>3. QED
    BY <1>9, <2>1, <2>2 DEF Releases
<1>10. QED
  BY <1>2, <1>3, <1>4, <1>5, <1>6, <1>7, <1>8, <1>9 DEF Run

\* What the receipts of the chunks say, once none of them is on its way.
LEMMA ReceiptValues ==
    ASSUME NEW statuses, statuses # {},
           statuses \subseteq {"queued", "dispatching", "uncertain", "sent", "failed", "cancelled"}
    PROVE  /\ Receipt(statuses) \in ReportStatus \ {"pending", "not_ready", "not_needed"}
           /\ Receipt(statuses) = "delivered" => statuses = {"sent"}
           /\ Receipt(statuses) = "failed" => "failed" \in statuses
           /\ Receipt(statuses) \in {"failed", "cancelled"} => statuses \subseteq Settled
  BY DEF Receipt, ReportStatus, Settled

LEMMA ReconcileKeeps ==
    ASSUME NativeInv, Reconcile
    PROVE  NativeInv'
<1> DEFINE statuses == {outbox[m].status : m \in Chunks}
<1>1. run.report = "queued" /\ Chunks # {} /\ Chunks \subseteq Message /\ run.sequence # 0
  BY DEF Reconcile, Dispatchable, NativeInv, Sequenced, Known, Chunks
<1>2. statuses # {} /\ statuses \subseteq
          {"queued", "dispatching", "uncertain", "sent", "failed", "cancelled"}
  <2> SUFFICES ASSUME NEW m \in Chunks
               PROVE  outbox[m].status \in
                          {"queued", "dispatching", "uncertain", "sent", "failed", "cancelled"}
    BY <1>1
  <2>1. m \in Message /\ outbox[m].report
    BY <1>1 DEF Chunks, NativeInv, NativeTypeOK
  <2>2. outbox[m].status # "absent" /\ outbox[m] \in Row
    BY <2>1 DEF NativeInv, Unbound, IInv, TypeOK
  <2>3. QED
    BY <2>2 DEF Row, Status, Settled
<1>3. /\ run' = [run EXCEPT !.report = Receipt(statuses)] /\ UNCHANGED <<vars, bound>>
  BY <1>1 DEF Reconcile
<1>4. /\ Receipt(statuses) \in ReportStatus \ {"pending", "not_ready", "not_needed"}
      /\ Receipt(statuses) = "delivered" => \A m \in Chunks : outbox[m].status = "sent"
      /\ Receipt(statuses) = "failed" => \E m \in Chunks : outbox[m].status = "failed"
      /\ Receipt(statuses) \in {"failed", "cancelled"} =>
             \A m \in Chunks : outbox[m].status \in Settled
  <2>1. /\ Receipt(statuses) \in ReportStatus \ {"pending", "not_ready", "not_needed"}
        /\ Receipt(statuses) = "delivered" => statuses = {"sent"}
        /\ Receipt(statuses) = "failed" => "failed" \in statuses
        /\ Receipt(statuses) \in {"failed", "cancelled"} => statuses \subseteq Settled
    <3> HIDE DEF statuses
    <3> QED
      BY <1>2, ReceiptValues
  <2>2. QED
    BY <2>1
<1> HIDE DEF statuses
<1>5. CASE Receipt(statuses) = "queued"
  <2>1. UNCHANGED <<vars, run, bound>>
    BY <1>1, <1>3, <1>5, RunFields DEF RunRow
  <2>2. Known' = Known /\ run \in RunRow /\ UNCHANGED <<vars, bound>>
    BY <2>1, RunFields DEF Known, Reported
  <2>3. QED
    BY <2>1, <2>2, SameReportKeeps
<1>6. CASE Receipt(statuses) # "queued"
  <2>1. run' \in RunRow /\ run'.report = Receipt(statuses) /\ run'.sequence = run.sequence
    BY <1>3, <1>4, RunFields DEF RunRow
  <2>2. QED
    BY <1>1, <1>3, <1>4, <1>6, <2>1, ReportKeeps
<1>7. QED
  BY <1>5, <1>6

LEMMA CancelKeeps ==
    ASSUME NativeInv, CancelReport
    PROVE  NativeInv'
<1>1. /\ run' \in RunRow /\ run'.report = "cancelled" /\ run'.sequence = run.sequence
      /\ UNCHANGED <<vars, bound>> /\ Chunks = {} /\ run.report = "pending"
  BY RunFields DEF CancelReport, RunRow, ReportStatus
<1>2. run.sequence # 0
  BY <1>1 DEF NativeInv, Sequenced, Known, CancelReport, Dispatchable
<1>3. QED
  BY <1>1, <1>2, ReportKeeps

LEMMA EnqueueReportKeeps ==
    ASSUME NativeInv, NEW last \in Message, EnqueueReport(last)
    PROVE  NativeInv'
<1> DEFINE text == {m \in 1 .. last : outbox[m].status = "absent"}
           row == [[NoRow EXCEPT !.status = "queued"] EXCEPT !.report = TRUE]
<1>1. /\ Enqueue(last, TRUE) /\ bound' = Bound(last) /\ Chunks = {}
      /\ run' = [run EXCEPT !.report = "queued"] /\ run.report = "pending" /\ Reported
  BY DEF EnqueueReport, Dispatchable
<1>2. IInv' /\ TypeOK'
  BY <1>1, NextIInv DEF NativeInv, IInv, Next
<1>3. /\ text # {} /\ text \subseteq Message
      /\ UNCHANGED <<copies, vouched>>
      /\ outbox' = [m \in Message |-> IF m \in text THEN row ELSE outbox[m]]
  BY <1>1, OutboxAssumption DEF Enqueue, Message, audit, provider
<1>4. row.status = "queued" /\ row.report = TRUE
  BY RowValues DEF Row
<1>5. \A m \in Message : m \in text <=> m \in Absent /\ m <= last
  BY OutboxAssumption DEF Absent, Message
<1>6. \A m \in Message : bound'[m] = IF m \in text THEN run.sequence ELSE bound[m]
  BY <1>1, <1>5 DEF Bound
<1>7. /\ run' \in RunRow /\ run'.report = "queued" /\ run'.sequence = run.sequence
      /\ run.sequence \in 1 .. MaxReports
  BY <1>1, RunFields, NativeReportAssumption DEF NativeInv, Sequenced, Known, RunRow, ReportStatus
<1> HIDE DEF text, row
<1>8. NativeTypeOK'
  <2>1. bound' \in [Message -> 0 .. run'.sequence]
    <3>1. bound' = [m \in Message |-> bound'[m]]
      BY <1>1 DEF Bound
    <3>2. \A m \in Message : bound[m] \in 0 .. run.sequence
      BY DEF NativeInv, NativeTypeOK
    <3>3. \A m \in Message : bound'[m] \in 0 .. run.sequence
      BY <1>6, <1>7, <3>2, NativeReportAssumption
    <3>4. QED
      BY <1>7, <3>1, <3>3
  <2>2. \A m \in Message : outbox'[m].report <=> bound'[m] # 0
    BY <1>3, <1>4, <1>6, <1>7 DEF NativeInv, NativeTypeOK
  <2>3. \E m \in Message : bound'[m] = run'.sequence
    BY <1>3, <1>6, <1>7
  <2>4. QED
    BY <1>2, <1>7, <2>1, <2>2, <2>3 DEF NativeTypeOK, RunRow
<1>9. Unbound' /\ SentIsTrue'
  BY <1>3, <1>4 DEF NativeInv, Unbound, SentIsTrue
<1>10. Chunks' # {}
  BY <1>3, <1>6, <1>7 DEF Chunks
<1>11. Sequenced' /\ KnownVerdict'
  BY <1>7, <1>10 DEF Sequenced, KnownVerdict, Verdict
<1>12. QED
  BY <1>2, <1>8, <1>9, <1>11 DEF NativeInv

LEMMA RemovalKeeps ==
    ASSUME NativeInv, MemberRemoved
    PROVE  NativeInv'
<1>1. /\ outbox' = [m \in Message |-> [Cancelled(PendingReports)[m] EXCEPT !.report = FALSE]]
      /\ run' = WithoutLease([run EXCEPT !.status = "gone", !.report = "not_ready"])
      /\ bound' = [m \in Message |-> 0]
      /\ UNCHANGED <<active, drain, retries, vouched, copies, stray, limits>>
  BY DEF MemberRemoved, audit, provider
<1>2. PendingReports \in SUBSET Message
      /\ \A m \in PendingReports : outbox[m].status \in {"queued", "dispatching"}
  BY DEF PendingReports
<1>3. ASSUME NEW m \in Message
      PROVE  /\ Moves(outbox[m], outbox'[m]) /\ outbox'[m].report = FALSE
             /\ outbox'[m].status = IF m \in PendingReports THEN "cancelled" ELSE outbox[m].status
  <2> DEFINE r == Cancelled(PendingReports)[m]
  <2>1. /\ Moves(outbox[m], r)
        /\ r.status = IF m \in PendingReports THEN "cancelled" ELSE outbox[m].status
    BY <1>2, CancelledRows DEF NativeInv, IInv
  <2>2. outbox'[m] = [r EXCEPT !.report = FALSE]
    BY <1>1
  <2> HIDE DEF r
  <2>3. QED
    BY <2>1, <2>2 DEF Moves, Row, WellLeased
<1>4. \A m \in Message : retries[m] + Bit(Spent(outbox[m])) <= retries'[m] + Bit(Spent(outbox'[m]))
  <2> SUFFICES ASSUME NEW m \in Message
               PROVE  retries[m] + Bit(Spent(outbox[m])) <= retries'[m] + Bit(Spent(outbox'[m]))
    OBVIOUS
  <2>1. retries'[m] = retries[m] /\ retries[m] \in Nat
    BY <1>1, OutboxAssumption DEF NativeInv, IInv, TypeOK
  <2>2. Spent(outbox[m]) => Spent(outbox'[m])
    BY <1>2, <1>3 DEF Spent
  <2> HIDE DEF Spent
  <2>3. QED
    BY <2>1, <2>2 DEF Bit
<1>5. IInv'
  BY <1>1, <1>3, <1>4, RowsStep DEF NativeInv, IInv, TypeOK, provider
<1>6. /\ run' \in RunRow /\ run'.status = "gone" /\ run'.report = "not_ready"
      /\ run'.sequence = run.sequence /\ run.sequence \in 0 .. MaxReports
  BY <1>1, RunFields DEF RunRow, RunStatus, ReportStatus, WithoutLease
<1>7. NativeTypeOK'
  <2>1. bound' \in [Message -> 0 .. run'.sequence]
    BY <1>1, <1>6, NativeReportAssumption
  <2>2. \A m \in Message : outbox'[m].report <=> bound'[m] # 0
    BY <1>1, <1>3
  <2>3. QED
    BY <1>5, <1>6, <2>1, <2>2 DEF NativeTypeOK, IInv, RunRow, Reported
<1>8. Unbound' /\ SentIsTrue'
  <2>1. /\ \A m \in Message : outbox'[m].report = FALSE
        /\ \A m \in Message : outbox'[m].status = "sent" => outbox[m].status = "sent"
    BY <1>3
  <2>2. copies' = copies /\ vouched' = vouched /\ SentIsTrue
    BY <1>1 DEF NativeInv
  <2>3. QED
    BY <2>1, <2>2 DEF Unbound, SentIsTrue
<1>9. Sequenced' /\ KnownVerdict'
  BY <1>6 DEF Sequenced, KnownVerdict, Known, Reported
<1>10. QED
  BY <1>5, <1>7, <1>8, <1>9 DEF NativeInv

-----------------------------------------------------------------------------
LEMMA InitiallyNativeInv == NativeInit => NativeInv
<1> SUFFICES ASSUME NativeInit PROVE NativeInv
  OBVIOUS
<1>1. IInv
  BY InitiallyIInv DEF NativeInit
<1>2. \A m \in Message : outbox[m] = NoRow
  BY DEF NativeInit, Init
<1>3. NativeTypeOK
  BY <1>1, <1>2, NativeReportAssumption DEF NativeInit, NativeTypeOK, IInv, NoRow, ReportStatus,
     RunStatus, Reported
<1>4. Unbound /\ Sequenced /\ SentIsTrue /\ KnownVerdict
  BY <1>2 DEF NativeInit, Unbound, Sequenced, SentIsTrue, KnownVerdict, Known, Reported, NoRow
<1>5. QED
  BY <1>1, <1>3, <1>4 DEF NativeInv

LEMMA NextNativeInv == NativeInv /\ [NativeNext]_nativeVars => NativeInv'
<1> SUFFICES ASSUME NativeInv, [NativeNext]_nativeVars PROVE NativeInv'
  OBVIOUS
<1>1. CASE Run
  BY <1>1, RunActionKeeps
<1>2. CASE DispatchReport
  BY <1>2, ReconcileKeeps, CancelKeeps, EnqueueReportKeeps DEF DispatchReport
<1>3. CASE MemberRemoved
  BY <1>3, RemovalKeeps
<1>4. CASE Lane
  BY <1>4, LaneKeeps
<1>5. CASE UNCHANGED nativeVars
  <2>1. UNCHANGED <<vars, run, bound>>
    BY <1>5 DEF nativeVars
  <2>2. Known' = Known /\ run \in RunRow /\ UNCHANGED <<vars, bound>>
    BY <2>1, RunFields DEF Known, Reported
  <2>3. QED
    BY <2>1, <2>2, SameReportKeeps
<1>6. QED
  BY <1>1, <1>2, <1>3, <1>4, <1>5 DEF NativeNext

\* The invariant holds in every state of every instance of the composition.
THEOREM CompositionInvariant == NativeSpec => []NativeInv
  BY InitiallyNativeInv, NextNativeInv, PTL DEF NativeSpec

\* Reports and bindings stay within their states: a row is bound exactly while it belongs
\* to a report (scheduled_agent_report_outputs), and a queued report has rows.
THEOREM NativeTypeCorrect == NativeSpec => []NativeTypeOK
<1>1. NativeInv => NativeTypeOK
  BY DEF NativeInv
<1>2. QED
  BY <1>1, CompositionInvariant, PTL

\* What is recorded of a report is true of the current report and of all its chunks,
\* whoever drains, fails, resolves, cancels or removes (native-report.ts).
THEOREM VerdictsAreTrue == NativeSpec => []VerdictIsTrue
<1>1. NativeInv => VerdictIsTrue
  BY DEF NativeInv, KnownVerdict, Known, VerdictIsTrue
<1>2. QED
  BY <1>1, CompositionInvariant, PTL

\* Under a run whose reports are enqueued and whose member may be removed, the lane still
\* sends no message more often than permitted.
THEOREM ReportsAreBounded == NativeSpec => []AtMostOnce
<1>1. NativeInv => AtMostOnce
  BY InvariantBoundsCopies DEF NativeInv
<1>2. QED
  BY <1>1, CompositionInvariant, PTL

\* Nor does it send one before those that were enqueued before it are settled: the chunks
\* of a report arrive in order.
THEOREM ReportsAreInOrder == NativeSpec => []InOrder
<1>1. NativeInv => InOrder
  BY InvariantKeepsOrder DEF NativeInv
<1>2. QED
  BY <1>1, CompositionInvariant, PTL

-----------------------------------------------------------------------------
\* The removal of a member is a step of the promise: what is on its way is cancelled.
LEMMA RemovalImplements ==
    ASSUME IInv, MemberRemoved
    PROVE  Promise!Next
<1>1. PendingReports \in SUBSET Message
      /\ \A m \in PendingReports : outbox[m].status \in {"queued", "dispatching"}
  BY DEF PendingReports
<1>2. /\ UNCHANGED <<retries, vouched, copies>>
      /\ \A m \in Message :
             outbox'[m].status = IF m \in PendingReports THEN "cancelled" ELSE outbox[m].status
  <2>1. ASSUME NEW m \in Message
        PROVE  /\ Cancelled(PendingReports)[m] \in Row
               /\ Cancelled(PendingReports)[m].status
                     = IF m \in PendingReports THEN "cancelled" ELSE outbox[m].status
    BY <1>1, CancelledRows DEF IInv, Moves
  <2>2. UNCHANGED <<retries, vouched, copies>>
        /\ outbox' = [m \in Message |-> [Cancelled(PendingReports)[m] EXCEPT !.report = FALSE]]
    BY DEF MemberRemoved, audit, provider
  <2>3. ASSUME NEW r \in Row
        PROVE  [r EXCEPT !.report = FALSE].status = r.status
    BY DEF Row
  <2>4. QED
    BY <2>1, <2>2, <2>3
<1>3. /\ \A m \in PendingReports : FateOf(outbox[m]) = "open"
      /\ \A m \in Message : FateOf(outbox'[m])
                               = IF m \in PendingReports THEN "cancelled" ELSE FateOf(outbox[m])
  BY <1>1, <1>2 DEF FateOf
<1>4. QED
  BY <1>1, <1>2, <1>3, FateCancels

LEMMA NativeNextImplements ==
    NativeInv /\ NativeInv' /\ [NativeNext]_nativeVars => [Promise!Next]_(Promise!vars)
<1> SUFFICES ASSUME NativeInv, NativeInv', [NativeNext]_nativeVars
             PROVE  [Promise!Next]_(Promise!vars)
  OBVIOUS
<1>1. IInv /\ IInv'
  BY DEF NativeInv
<1>2. CASE UNCHANGED vars
  BY <1>1, <1>2, NextImplements
<1>3. CASE Lane
  <2>1. Next
    BY <1>3 DEF Lane, Next, Account
  <2>2. QED
    BY <1>1, <2>1, NextImplements
<1>4. CASE \E last \in Message : EnqueueReport(last)
  <2>1. Next
    BY <1>4 DEF EnqueueReport, Next
  <2>2. QED
    BY <1>1, <2>1, NextImplements
<1>5. CASE MemberRemoved
  BY <1>1, <1>5, RemovalImplements
<1>6. CASE Run
  BY <1>2, <1>6 DEF Run, ClaimsRun, Asks, FindsInput, ClaimsInput, AnswerEnds, Completes,
     ReadsForRelease, Releases, RunStep
<1>7. CASE Reconcile \/ CancelReport
  BY <1>2, <1>7 DEF Reconcile, CancelReport
<1>8. CASE UNCHANGED nativeVars
  BY <1>2, <1>8 DEF nativeVars
<1>9. QED
  BY <1>3, <1>4, <1>5, <1>6, <1>7, <1>8 DEF NativeNext, DispatchReport

\* With a run that enqueues its reports and may be removed under them, the lane keeps the
\* promise it keeps alone: no copy without a permit or before its turn, no status that
\* says the wrong thing of the conversation, no settled message that is settled again.
THEOREM ReportsKeepPromise == NativeSpec => KeepsPromise
<1>1. NativeInit => Promise!Init
  BY InitImplements DEF NativeInit
<1>2. QED
  BY <1>1, NativeNextImplements, CompositionInvariant, PTL
     DEF NativeSpec, KeepsPromise, Promise!Spec
===============================================================================
