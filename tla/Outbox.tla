-------------------------------- MODULE Outbox --------------------------------
(***************************************************************************)
(* The outbound lane of one channel identity: the rows of channel_outbox   *)
(* (server/messaging/store.ts, lane "outbox"), the drains that send them   *)
(* to Telegram or Kapso (server/channels/transport.ts), the operator who   *)
(* reconciles uncertain rows, and the account changes that revoke the      *)
(* identity or cancel its rows.                                            *)
(*                                                                         *)
(* Every store operation is one transaction under a row lock of the        *)
(* identity, hence one action; provider I/O happens between them.  A claim *)
(* that finds the identity locked does nothing and is a stutter, and so is *)
(* an enqueue or a resolution that is repeated.                            *)
(*                                                                         *)
(* lease_expires_at is "null", "ahead" of now or "past"; on a queued row   *)
(* it is the not-before time of a rate-limited message.  A lease token is  *)
(* fresh per claim and a claim adds one to attempts, so the attempt number *)
(* names the token and 0 is null.  The provider is external: it may carry  *)
(* out a request whose answer is lost, and late.                           *)
(***************************************************************************)
EXTENDS Naturals, FiniteSets

CONSTANTS
    MaxMessages,   \* bound: messages ever enqueued for the identity
    Drainer,       \* concurrent drains: the cron tick, a scheduled report
    MaxLimits,     \* bound: answers of status 429
    MaxRetries     \* bound: duplicate-risk retries an operator authorizes per message

ASSUME OutboxAssumption ==
    /\ MaxMessages \in Nat /\ MaxLimits \in Nat /\ MaxRetries \in Nat
    /\ IsFiniteSet(Drainer)

Message == 1 .. MaxMessages

VARIABLES
    outbox,    \* the rows, in sequence order; "absent" before they are enqueued
    active,    \* channel_identity.revoked_at IS NULL
    drain,     \* the drains under way
    retries,   \* channel_outbox_resolution: authorize_retry records per message
    vouched,   \* channel_outbox_resolution: messages with a mark_delivered record
    copies,    \* provider: copies in the conversation
    stray,     \* provider: requests under way that no drain waits for
    limits     \* answers of status 429 so far

provider == <<copies, stray, limits>>
audit == <<retries, vouched>>
vars == <<outbox, active, drain, audit, provider>>

Settled == {"sent", "failed", "cancelled"}
Status == {"absent", "queued", "dispatching", "uncertain"} \union Settled

\* report: the row is bound to a scheduled report (scheduled_agent_report_outputs).
Row == [status : Status, attempts : Nat, lease : Nat,
        expires : {"null", "ahead", "past"}, report : BOOLEAN]

NoRow == [status |-> "absent", attempts |-> 0, lease |-> 0,
          expires |-> "null", report |-> FALSE]

\* claimed: before checkOutboxLease; sending: before the provider's answer; then
\* what the answer is.
Drain == [pc : {"idle", "claimed", "sending", "receipt", "unknown", "limited", "rejected"},
          message : 0 .. MaxMessages, lease : Nat]

NoDrain == [pc |-> "idle", message |-> 0, lease |-> 0]

\* Rows, drains and counters stay within the states the code can put them in, and
\* a row has a lease exactly while it is dispatched (channel_outbox_lease_check).
TypeOK ==
    /\ outbox \in [Message -> Row]
    /\ \A m \in Message : outbox[m].lease = (IF outbox[m].status = "dispatching"
                                               THEN outbox[m].attempts ELSE 0)
    /\ active \in BOOLEAN
    /\ drain \in [Drainer -> Drain]
    /\ \A d \in Drainer : drain[d].pc # "idle" => drain[d].message \in Message
    /\ retries \in [Message -> 0 .. MaxRetries]
    /\ vouched \subseteq Message
    /\ copies \in [Message -> Nat]
    /\ stray \in [Message -> Nat]
    /\ limits \in 0 .. MaxLimits

Init ==
    /\ outbox = [m \in Message |-> NoRow]
    /\ active = TRUE
    /\ drain = [d \in Drainer |-> NoDrain]
    /\ retries = [m \in Message |-> 0]
    /\ vouched = {}
    /\ copies = [m \in Message |-> 0]
    /\ stray = [m \in Message |-> 0]
    /\ limits = 0

-----------------------------------------------------------------------------
\* enqueueText: the chunks of one text become the next rows, in one transaction.
Enqueue(last, report) ==
    LET text == {m \in 1 .. last : outbox[m].status = "absent"} IN
    /\ active
    /\ text # {}
    /\ outbox' = [m \in Message |->
           IF m \in text THEN [NoRow EXCEPT !.status = "queued", !.report = report]
           ELSE outbox[m]]
    /\ UNCHANGED <<active, drain, audit, provider>>

\* Time: a lease runs out, or a not-before time comes.
ExpiryPasses(m) ==
    /\ outbox[m].status \in {"queued", "dispatching"}
    /\ outbox[m].expires = "ahead"
    /\ outbox' = [outbox EXCEPT ![m].expires = "past"]
    /\ UNCHANGED <<active, drain, audit, provider>>

-----------------------------------------------------------------------------
\* Messaging.claim.  It first turns the expired leases of the lane into uncertainty.

Unleased(r, status) == [r EXCEPT !.status = status, !.lease = 0, !.expires = "null"]

\* Mutant: an expired lease is taken for a failed attempt, and tried again.
SweptToQueued ==
    [m \in Message |->
        IF outbox[m].status = "dispatching" /\ outbox[m].expires = "past"
        THEN Unleased(outbox[m], "queued") ELSE outbox[m]]

\* Mutant: expired leases are left to the drain that holds them.
SweptNothing == outbox

Swept ==
    [m \in Message |->
        IF outbox[m].status = "dispatching" /\ outbox[m].expires = "past"
        THEN Unleased(outbox[m], "uncertain") ELSE outbox[m]]

\* Mutant: a message of unknown fate does not hold back the ones behind it.
BlockedByLeases(rows) == \E m \in Message : rows[m].status = "dispatching"

Blocked(rows) == \E m \in Message : rows[m].status \in {"dispatching", "uncertain"}

\* The oldest queued row; a rate-limited one holds back the rows behind it.
IsHead(rows, m) ==
    /\ rows[m].status = "queued"
    /\ \A n \in Message : n < m => rows[n].status # "queued"

Ready(r) == r.expires # "ahead"

Leased(r) ==
    [r EXCEPT !.status = "dispatching", !.attempts = @ + 1,
              !.lease = r.attempts + 1, !.expires = "ahead"]

ClaimMessage(d, m) ==
    /\ drain[d].pc = "idle"
    /\ active
    /\ ~Blocked(Swept)
    /\ IsHead(Swept, m) /\ Ready(Swept[m])
    /\ outbox' = [Swept EXCEPT ![m] = Leased(@)]
    /\ drain' = [drain EXCEPT ![d] = [pc |-> "claimed", message |-> m,
                                      lease |-> outbox[m].attempts + 1]]
    /\ UNCHANGED <<active, audit, provider>>

\* The lane is blocked, or its head is not due: the claim returns null.
ClaimNothing ==
    /\ active
    /\ Blocked(Swept) \/ \A m \in Message : IsHead(Swept, m) => ~Ready(Swept[m])
    /\ outbox' = Swept
    /\ UNCHANGED <<active, drain, audit, provider>>

\* Mutant: as for an active identity, an unsettled message stops the claim.
ClaimRevokedUnlessBlocked ==
    /\ ~active
    /\ outbox' = [m \in Message |->
           IF Swept[m].status = "queued" /\ ~Blocked(Swept) THEN [Swept[m] EXCEPT !.status = "cancelled"]
           ELSE Swept[m]]
    /\ UNCHANGED <<active, drain, audit, provider>>

\* A claim for a revoked identity cancels what is queued, whatever blocks the lane.
ClaimRevoked ==
    /\ ~active
    /\ outbox' = [m \in Message |->
           IF Swept[m].status = "queued" THEN [Swept[m] EXCEPT !.status = "cancelled"]
           ELSE Swept[m]]
    /\ UNCHANGED <<active, drain, audit, provider>>

-----------------------------------------------------------------------------
\* ChannelTransport.dispatch.

\* Mutant: only the identity is checked.
HoldsIdentity(d) == active

\* requireLease, the fence of every statement a drain makes after its claim.
HoldsLease(d) ==
    LET r == outbox[drain[d].message] IN
    /\ active
    /\ r.status = "dispatching" /\ r.lease = drain[d].lease /\ r.expires = "ahead"

Answered(d, pc) == drain' = [drain EXCEPT ![d].pc = pc]

\* The payload, the identity, its membership or the installation is refused.
PreflightRefuses(d) ==
    /\ drain[d].pc = "claimed"
    /\ Answered(d, "rejected")
    /\ UNCHANGED <<outbox, active, audit, provider>>

ChecksLease(d) ==
    /\ drain[d].pc = "claimed"
    /\ IF HoldsLease(d) THEN Answered(d, "sending")
       ELSE drain' = [drain EXCEPT ![d] = NoDrain]
    /\ UNCHANGED <<outbox, active, audit, provider>>

\* The message arrives; the receipt reaches the drain, or is lost or malformed.
ProviderDelivers(d) ==
    /\ drain[d].pc = "sending"
    /\ copies' = [copies EXCEPT ![drain[d].message] = @ + 1]
    /\ Answered(d, "receipt") \/ Answered(d, "unknown")
    /\ UNCHANGED <<outbox, active, audit, stray, limits>>

\* A transport error or a status of 5xx, and nothing happened.
ProviderBreaks(d) ==
    /\ drain[d].pc = "sending"
    /\ Answered(d, "unknown")
    /\ UNCHANGED <<outbox, active, audit, provider>>

\* No answer within 15 seconds: the request is still under way.
ProviderTimesOut(d) ==
    /\ drain[d].pc = "sending"
    /\ stray' = [stray EXCEPT ![drain[d].message] = @ + 1]
    /\ Answered(d, "unknown")
    /\ UNCHANGED <<outbox, active, audit, copies, limits>>

ProviderLimits(d) ==
    /\ drain[d].pc = "sending" /\ limits < MaxLimits
    /\ limits' = limits + 1
    /\ Answered(d, "limited")
    /\ UNCHANGED <<outbox, active, audit, copies, stray>>

ProviderRejects(d) ==
    /\ drain[d].pc = "sending"
    /\ Answered(d, "rejected")
    /\ UNCHANGED <<outbox, active, audit, provider>>

StrayLands(m) ==
    /\ stray[m] > 0
    /\ stray' = [stray EXCEPT ![m] = @ - 1]
    /\ copies' = [copies EXCEPT ![m] = @ + 1] \/ UNCHANGED copies
    /\ UNCHANGED <<outbox, active, drain, audit, limits>>

\* markSent, markOutboxFailed, markOutboxUncertain and scheduleOutboxRetry: what
\* the answer does to the row, if the lease is still held.
Recorded(d, row) ==
    /\ outbox' = IF HoldsLease(d) THEN [outbox EXCEPT ![drain[d].message] = row]
                 ELSE outbox
    /\ drain' = [drain EXCEPT ![d] = NoDrain]
    /\ UNCHANGED <<active, audit, provider>>

MarkSent(d) ==
    drain[d].pc = "receipt" /\ Recorded(d, Unleased(outbox[drain[d].message], "sent"))

MarkFailed(d) ==
    drain[d].pc = "rejected" /\ Recorded(d, Unleased(outbox[drain[d].message], "failed"))

MarkUncertain(d) ==
    drain[d].pc = "unknown" /\ Recorded(d, Unleased(outbox[drain[d].message], "uncertain"))

ScheduleRetry(d) ==
    /\ drain[d].pc = "limited"
    /\ Recorded(d, [outbox[drain[d].message] EXCEPT
                        !.status = "queued", !.lease = 0, !.expires = "ahead"])

\* The process dies; a request it was making may still arrive.
Crash(d) ==
    /\ drain[d].pc # "idle"
    /\ drain' = [drain EXCEPT ![d] = NoDrain]
    /\ \/ UNCHANGED stray
       \/ /\ drain[d].pc = "sending"
          /\ stray' = [stray EXCEPT ![drain[d].message] = @ + 1]
    /\ UNCHANGED <<outbox, active, audit, copies, limits>>

-----------------------------------------------------------------------------
\* resolveUncertain: the operator's decisions, each with its audit record.

ResolveDelivered(m) ==
    /\ active /\ outbox[m].status = "uncertain"
    /\ outbox' = [outbox EXCEPT ![m] = Unleased(@, "sent")]
    /\ vouched' = vouched \union {m}
    /\ UNCHANGED <<active, drain, retries, provider>>

ResolveRetry(m) ==
    /\ active /\ outbox[m].status = "uncertain"
    /\ retries[m] < MaxRetries
    /\ outbox' = [outbox EXCEPT ![m] = Unleased(@, "queued")]
    /\ retries' = [retries EXCEPT ![m] = @ + 1]
    /\ UNCHANGED <<active, drain, vouched, provider>>

\* Unlike the other two, also for a revoked identity.
ResolveCancel(m) ==
    /\ outbox[m].status = "uncertain"
    /\ outbox' = [outbox EXCEPT ![m] = Unleased(@, "cancelled")]
    /\ UNCHANGED <<active, drain, audit, provider>>

-----------------------------------------------------------------------------
\* Account changes.

\* Mutant: the lease of a cancelled row is not cleared.
CancelledKeepingLease(ms) ==
    [m \in Message |-> IF m \in ms THEN [outbox[m] EXCEPT !.status = "cancelled"]
                        ELSE outbox[m]]

Cancelled(ms) ==
    [m \in Message |-> IF m \in ms THEN Unleased(outbox[m], "cancelled") ELSE outbox[m]]

RevokeIdentity ==
    /\ active
    /\ active' = FALSE
    /\ UNCHANGED <<outbox, drain, audit, provider>>

\* archiveChannelAccount, refused while a row is being dispatched.
ArchiveAccount ==
    /\ active
    /\ \A m \in Message : outbox[m].status # "dispatching"
    /\ active' = FALSE
    /\ outbox' = Cancelled({m \in Message : outbox[m].status = "queued"})
    /\ UNCHANGED <<drain, audit, provider>>

PendingReports ==
    {m \in Message : outbox[m].report /\ outbox[m].status \in {"queued", "dispatching"}}

\* The deletion of the account cancels its scheduled reports, in flight or not.
DeleteAccount ==
    /\ active
    /\ active' = FALSE
    /\ outbox' = Cancelled(PendingReports)
    /\ UNCHANGED <<drain, audit, provider>>

\* removeWorkspaceMember cancels those of one workspace and leaves the identity alone.
RemoveMember(gone) ==
    /\ gone # {} /\ gone \subseteq PendingReports
    /\ outbox' = Cancelled(gone)
    /\ UNCHANGED <<active, drain, audit, provider>>

-----------------------------------------------------------------------------
Claim(d) == ClaimNothing \/ ClaimRevoked \/ \E m \in Message : ClaimMessage(d, m)

Send(d) ==
    \/ PreflightRefuses(d) \/ ChecksLease(d)
    \/ ProviderDelivers(d) \/ ProviderBreaks(d) \/ ProviderTimesOut(d)
    \/ ProviderLimits(d) \/ ProviderRejects(d)

Record(d) == MarkSent(d) \/ MarkFailed(d) \/ MarkUncertain(d) \/ ScheduleRetry(d)

Resolve(m) == ResolveDelivered(m) \/ ResolveRetry(m) \/ ResolveCancel(m)

Account ==
    \/ RevokeIdentity \/ ArchiveAccount \/ DeleteAccount
    \/ \E gone \in SUBSET Message : RemoveMember(gone)

Next ==
    \/ \E last \in Message, report \in BOOLEAN : Enqueue(last, report)
    \/ \E d \in Drainer : Claim(d) \/ Send(d) \/ Record(d) \/ Crash(d)
    \/ \E m \in Message : ExpiryPasses(m) \/ StrayLands(m) \/ Resolve(m)
    \/ Account

Spec == Init /\ [][Next]_vars

\* Time passes, a drain that runs goes on or dies, and every tick claims for the lane.
\* Nobody has to reconcile: resolveOutboxUncertain has no caller but the tests.
Fairness ==
    /\ \A m \in Message : WF_vars(ExpiryPasses(m))
    /\ \A d \in Drainer : /\ WF_vars(Claim(d))
                          /\ WF_vars(Send(d) \/ Record(d) \/ Crash(d))

FairSpec == Spec /\ Fairness

-----------------------------------------------------------------------------
\* Properties.

\* "An adapter timeout, crash or expired lease does not prove failure and does not
\* authorize a resend" (server/messaging/README.md): the conversation never shows a
\* message more often than once, plus once per duplicate an operator authorized,
\* however late requests land and however many drains and rate limits there were.
AtMostOnce == \A m \in Message : copies[m] <= 1 + retries[m]

\* Claims take the lane in sequence order, and an unsettled row blocks it: when a
\* message reaches the conversation, every earlier one is settled.
InOrder ==
    \A m \in Message : copies[m] > 0 =>
        \A earlier \in 1 .. m - 1 : outbox[earlier].status \in Settled

\* The rows implement the abstract lane: what a status says about the conversation
\* is true, and a settled row stays settled.
Fate == [m \in Message |->
            IF outbox[m].status \in {"queued", "dispatching", "uncertain"} THEN "open"
            ELSE outbox[m].status]
Permits == [m \in Message |-> IF outbox[m].status = "absent" THEN 0 ELSE 1 + retries[m]]

Promise == INSTANCE OutboxPromise WITH fate <- Fate, permits <- Permits

KeepsPromise == Promise!Spec

\* A queued message goes on to be sent or settled without anybody's help, unless the
\* lane waits for the operator to reconcile an earlier message.
LaneMoves ==
    \A m \in Message :
        outbox[m].status = "queued"
            ~> \/ outbox[m].status # "queued"
               \/ \E earlier \in 1 .. m - 1 : outbox[earlier].status = "uncertain"

\* Revoking an identity drops what it still had queued, even behind a message of
\* unknown fate that nobody reconciles.
RevokedOutputCancelled ==
    \A m \in Message :
        ~active /\ outbox[m].status = "queued" ~> outbox[m].status = "cancelled"
=============================================================================
