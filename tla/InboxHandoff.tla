----------------------------- MODULE InboxHandoff -----------------------------
(***************************************************************************)
(* The inbound lane of one sender: channel_inbox (server/messaging), the   *)
(* webhooks that accept events into it, and the drains that hand the rows  *)
(* to Eve (agent/lib/channel-session.ts), started by a webhook after its   *)
(* ACK or by the cron tick (agent/schedules/channel-dispatch.ts).          *)
(*                                                                         *)
(* Store operations lock the identity and are one action each.  Between    *)
(* them a drain asks Eve, loads media or sends, and may die or be late.  A *)
(* lease token is fresh per claim and a drain has one claim at a time, so  *)
(* the drain names the token.  A repeated webhook changes nothing, and so  *)
(* does one with an event whose payload changed (PayloadConflict): both    *)
(* are stutters.  Eve is external: it keeps one input per key, and may     *)
(* take one whose answer is lost, and late.                                *)
(***************************************************************************)
EXTENDS Naturals

CONSTANTS
    Event,          \* webhook events of the sender
    Media,          \* those with attachments
    Content,        \* contents that loading may produce
    Drain,          \* concurrent drains
    MaxRows,        \* bound: rows ever inserted
    MaxIdentities,  \* bound: identities the sender has, one after the other
    MaxFaults,      \* bound: deaths, failed calls, leases lost by a live drain
    NoEvent, NoDrain

ASSUME InboxAssumption ==
    /\ MaxRows \in Nat /\ MaxFaults \in Nat /\ MaxIdentities \in Nat \ {0}
    /\ Media \subseteq Event
    /\ NoEvent \notin Event /\ NoDrain \notin Drain
    /\ Content # {} /\ {"unclaimed", "empty", "none"} \intersect Content = {}

Slot == 1 .. MaxRows

VARIABLES
    inbox,      \* the rows, in sequence order
    current,    \* the sender's latest channel_identity
    active,     \* its revoked_at IS NULL; earlier ones are revoked
    drain,      \* the drains under way
    artifact,   \* private_artifact of an event's attachment
    told,       \* rows with an unsupported:<id> message in the outbox
    eve,        \* Eve: the content of the input keyed by the row, or "none"
    stray,      \* Eve: sends under way that no drain waits for
    faults

vars == <<inbox, current, active, drain, artifact, told, eve, stray, faults>>

\* native_input is NULL until the first claim ("unclaimed"), then its content is
\* null ("empty") until it is prepared.
Row == [event : Event \union {NoEvent}, identity : 0 .. MaxIdentities,
        status : {"absent", "queued", "dispatching", "uncertain", "accepted", "failed"},
        lease : Drain \union {NoDrain}, expires : {"null", "ahead", "past"},
        content : {"unclaimed", "empty"} \union Content]

NoRow == [event |-> NoEvent, identity |-> 0, status |-> "absent", lease |-> NoDrain,
          expires |-> "null", content |-> "unclaimed"]

\* Where handoffChannelMessage is: its calls to Eve are asking, recovering and
\* sending; the other places are before the next look at the lease.
Place == {"idle", "claimed", "asking", "found", "recovering", "absent", "loading",
          "refused", "telling", "failing", "loaded", "reading", "ready", "sending",
          "sent", "unknown"}

Idle == [pc |-> "idle", row |-> 0, content |-> "unclaimed"]

\* Rows, drains and Eve stay within the states the code can put them in; a row has
\* a lease exactly while it is dispatched (channel_inbox_lease_check).
TypeOK ==
    /\ inbox \in [Slot -> Row]
    /\ \A n \in Slot : /\ inbox[n].status = "dispatching" <=> inbox[n].lease # NoDrain
                       /\ inbox[n].status = "dispatching" <=> inbox[n].expires # "null"
                       /\ inbox[n].status \in {"absent", "queued"} <=> inbox[n].content = "unclaimed"
    /\ current \in 1 .. MaxIdentities /\ active \in BOOLEAN
    /\ drain \in [Drain -> [pc : Place, row : 0 .. MaxRows,
                            content : {"unclaimed", "empty"} \union Content]]
    /\ \A d \in Drain : drain[d].pc # "idle" => drain[d].row \in Slot
    /\ artifact \in [Media -> {"none", "kept", "deleted"}]
    /\ told \subseteq Slot
    /\ eve \in [Slot -> {"none"} \union Content]
    /\ stray \subseteq Slot \X Content
    /\ faults \in 0 .. MaxFaults

Init ==
    /\ inbox = [n \in Slot |-> NoRow]
    /\ current = 1 /\ active = TRUE
    /\ drain = [d \in Drain |-> Idle]
    /\ artifact = [e \in Media |-> "none"]
    /\ told = {}
    /\ eve = [n \in Slot |-> "none"]
    /\ stray = {}
    /\ faults = 0

sender == <<current, active>>
outside == <<artifact, told, eve, stray>>
Fault == faults < MaxFaults /\ faults' = faults + 1

-----------------------------------------------------------------------------
\* The sender's account and the clock.

\* Mutant: only the rows of the present identity are searched.
SeenByIdentity(e) ==
    \E n \in Slot : inbox[n].event = e /\ inbox[n].identity = current

\* The event is looked up under every identity the sender has had.
Seen(e) == \E n \in Slot : inbox[n].event = e

Accept(n, e) ==
    /\ active
    /\ ~Seen(e)
    /\ inbox[n].status = "absent" /\ \A m \in Slot : m < n => inbox[m].status # "absent"
    /\ inbox' = [inbox EXCEPT ![n] = [NoRow EXCEPT !.event = e, !.identity = current,
                                                   !.status = "queued"]]
    /\ UNCHANGED <<sender, drain, outside, faults>>

RevokeIdentity ==
    /\ active
    /\ active' = FALSE
    /\ UNCHANGED <<inbox, current, drain, outside, faults>>

\* The sender's account is archived into another one, which gets a new identity.
ArchiveAccount ==
    /\ active /\ current < MaxIdentities
    /\ \A n \in Slot : inbox[n].identity = current => inbox[n].status # "dispatching"
    /\ current' = current + 1
    /\ UNCHANGED <<inbox, active, drain, outside, faults>>

\* The user deletes the stored attachment.
DeleteArtifact(e) ==
    /\ artifact[e] = "kept"
    /\ artifact' = [artifact EXCEPT ![e] = "deleted"]
    /\ UNCHANGED <<inbox, sender, drain, told, eve, stray, faults>>

HeldBy(d, n) == drain[d].pc # "idle" /\ drain[d].row = n /\ inbox[n].lease = d

\* 150 seconds are more than a drain's own timeouts: a live drain loses its lease
\* only by a fault.
LeaseRunsOut(n) ==
    /\ inbox[n].expires = "ahead"
    /\ IF \E d \in Drain : HeldBy(d, n) THEN Fault ELSE UNCHANGED faults
    /\ inbox' = [inbox EXCEPT ![n].expires = "past"]
    /\ UNCHANGED <<sender, drain, outside>>

-----------------------------------------------------------------------------
\* Messaging.claim on the inbox.

Unleased(r, status) == [r EXCEPT !.status = status, !.lease = NoDrain, !.expires = "null"]

Swept(i) == [n \in Slot |->
    IF /\ inbox[n].identity = i
       /\ inbox[n].status = "dispatching" /\ inbox[n].expires = "past"
    THEN Unleased(inbox[n], "uncertain") ELSE inbox[n]]

Live(i) == active /\ i = current

\* Mutant: as on the outbox, nothing uncertain can be recovered.
NotRecoverable(r) == FALSE

Recoverable(r) == r.status = "uncertain" /\ r.content # "unclaimed"

Blocked(rows, i) == \E n \in Slot :
    /\ rows[n].identity = i
    /\ \/ rows[n].status = "dispatching"
       \/ rows[n].status = "uncertain" /\ ~Recoverable(rows[n])

Claimable(r) == r.status = "queued" \/ Recoverable(r)

IsHead(rows, n) ==
    /\ Claimable(rows[n])
    /\ \A m \in Slot : m < n /\ rows[m].identity = rows[n].identity => ~Claimable(rows[m])

\* Mutant: the claim does not record the input it stands for.
LeasedOnly(r, d) == [r EXCEPT !.status = "dispatching", !.lease = d, !.expires = "ahead"]

Leased(r, d) ==
    [r EXCEPT !.status = "dispatching", !.lease = d, !.expires = "ahead",
              !.content = IF @ = "unclaimed" THEN "empty" ELSE @]

ClaimInbox(d, n) ==
    LET i == inbox[n].identity  rows == Swept(i) IN
    /\ drain[d].pc = "idle"
    /\ Live(i) /\ ~Blocked(rows, i) /\ IsHead(rows, n)
    /\ inbox' = [rows EXCEPT ![n] = Leased(@, d)]
    /\ drain' = [drain EXCEPT ![d] = [Idle EXCEPT !.pc = "claimed", !.row = n]]
    /\ UNCHANGED <<sender, outside, faults>>

\* The claim returns null, after the sweep.
ClaimNothing(i) ==
    /\ \/ ~Live(i)
       \/ Blocked(Swept(i), i)
       \/ ~\E n \in Slot : inbox[n].identity = i /\ IsHead(Swept(i), n)
    /\ inbox' = Swept(i)
    /\ UNCHANGED <<sender, drain, outside, faults>>

-----------------------------------------------------------------------------
\* handoffChannelMessage.

\* requireLease.
HoldsLease(d) ==
    LET r == inbox[drain[d].row] IN
    /\ Live(r.identity)
    /\ r.status = "dispatching" /\ r.lease = d /\ r.expires = "ahead"

Goes(d, pc) == drain' = [drain EXCEPT ![d].pc = pc]
Ends(d) == drain' = [drain EXCEPT ![d] = Idle]

\* A look at the lease; without it the hand-over fails and leaves the row as it is.
ChecksLease(d, from, to) ==
    /\ drain[d].pc = from
    /\ IF HoldsLease(d) THEN Goes(d, to) ELSE Ends(d)
    /\ UNCHANGED <<inbox, sender, outside, faults>>

TakesSnapshot(d) ==
    /\ drain[d].pc = "claimed"
    /\ IF HoldsLease(d)
       THEN drain' = [drain EXCEPT ![d].pc = "asking",
                                   ![d].content = inbox[drain[d].row].content]
       ELSE Ends(d)
    /\ UNCHANGED <<inbox, sender, outside, faults>>

\* Mutant: the attachment is looked for before Eve's answer is.
EveAnswersIfStored(d) ==
    LET e == inbox[drain[d].row].event IN
    /\ drain[d].pc = "asking"
    /\ IF e \in Media /\ drain[d].content # "empty" /\ artifact[e] # "kept" THEN Ends(d)
       ELSE Goes(d, IF eve[drain[d].row] = "none" THEN "absent" ELSE "found")
    /\ UNCHANGED <<inbox, sender, outside, faults>>

\* getInputAcceptance answers.  An input whose content was never prepared cannot
\* have been sent.
EveAnswers(d) ==
    /\ drain[d].pc = "asking"
    /\ Goes(d, CASE eve[drain[d].row] = "none"      -> "absent"
                 [] drain[d].content = "empty" -> "unknown"
                 [] OTHER                      -> "found")
    /\ UNCHANGED <<inbox, sender, outside, faults>>

Recovers(d) ==
    /\ drain[d].pc = "recovering"
    /\ Goes(d, "sent")
    /\ UNCHANGED <<inbox, sender, outside, faults>>

NextPlaceOf(d) == IF drain[d].content = "empty" THEN "loading"
    ELSE IF inbox[drain[d].row].event \in Media THEN "reading" ELSE "ready"

\* Absence permits preparation, or another send of what was prepared.
Prepares(d) ==
    /\ drain[d].pc = "absent"
    /\ IF HoldsLease(d) THEN Goes(d, NextPlaceOf(d)) ELSE Ends(d)
    /\ UNCHANGED <<inbox, sender, outside, faults>>

ReadsArtifacts(d) ==
    /\ drain[d].pc = "reading"
    /\ IF Live(inbox[drain[d].row].identity) /\ artifact[inbox[drain[d].row].event] = "kept"
       THEN Goes(d, "ready") ELSE Ends(d)
    /\ UNCHANGED <<inbox, sender, outside, faults>>

\* loadChannelContent.  Text is taken as it is; an attachment is stored first and
\* transcribed or decoded, differently perhaps the next time.
Loads(d, c) ==
    LET e == inbox[drain[d].row].event IN
    /\ drain[d].pc = "loading"
    /\ IF e \in Media
       THEN artifact[e] # "deleted" /\ artifact' = [artifact EXCEPT ![e] = "kept"]
       ELSE c = (CHOOSE text \in Content : TRUE) /\ UNCHANGED artifact
    /\ drain' = [drain EXCEPT ![d].pc = "loaded", ![d].content = c]
    /\ UNCHANGED <<inbox, sender, told, eve, stray, faults>>

\* ChannelMediaError: before or after the attachment was stored.
LoadFails(d) ==
    LET e == inbox[drain[d].row].event IN
    /\ drain[d].pc = "loading"
    /\ e \in Media
    /\ \/ UNCHANGED artifact
       \/ artifact[e] = "none" /\ artifact' = [artifact EXCEPT ![e] = "kept"]
    /\ Goes(d, "refused")
    /\ UNCHANGED <<inbox, sender, told, eve, stray, faults>>

\* enqueueText of unsupported:<id>, a transaction of its own.
TellsSender(d) ==
    /\ drain[d].pc = "telling"
    /\ told' = IF Live(inbox[drain[d].row].identity) THEN told \union {drain[d].row} ELSE told
    /\ IF Live(inbox[drain[d].row].identity) THEN Goes(d, "failing") ELSE Ends(d)
    /\ UNCHANGED <<inbox, sender, artifact, eve, stray, faults>>

\* A statement fenced by the lease.
Marks(d, row, place) ==
    /\ IF HoldsLease(d)
       THEN /\ inbox' = [inbox EXCEPT ![drain[d].row] = row]
            /\ drain' = [drain EXCEPT ![d] = place]
       ELSE Ends(d) /\ UNCHANGED inbox
    /\ UNCHANGED <<sender, outside, faults>>

MarkInboxFailed(d) ==
    /\ drain[d].pc = "failing"
    /\ Marks(d, Unleased(inbox[drain[d].row], "failed"), Idle)

\* Mutant: what was loaded is sent without being written down.
SendsUnprepared(d) ==
    /\ drain[d].pc = "loaded"
    /\ Marks(d, inbox[drain[d].row], [drain[d] EXCEPT !.pc = "ready"])

\* prepareInboxHandoff: the content is written once.
PrepareInboxHandoff(d) ==
    LET r == inbox[drain[d].row] IN
    /\ drain[d].pc = "loaded"
    /\ IF r.content \in {"empty", drain[d].content}
       THEN Marks(d, [r EXCEPT !.content = drain[d].content],
                  [drain[d] EXCEPT !.pc = "ready"])
       ELSE Ends(d) /\ UNCHANGED <<inbox, sender, outside, faults>>

\* Eve takes an input once per key.
Keyed(n, c) == eve' = [eve EXCEPT ![n] = IF @ = "none" THEN c ELSE @]

\* address.send: Eve takes the input and its answer comes in time.
EveAccepts(d) ==
    LET n == drain[d].row  c == drain[d].content IN
    /\ drain[d].pc = "sending"
    /\ eve[n] \in {"none", c}
    /\ Keyed(n, c)
    /\ Goes(d, "sent")
    /\ UNCHANGED <<inbox, sender, artifact, told, stray, faults>>

\* The call fails or takes more than 25 seconds; the request may still be under way.
SendUnknown(d) ==
    /\ drain[d].pc = "sending" /\ Fault
    /\ stray' = stray \union {<<drain[d].row, drain[d].content>>}
    /\ Goes(d, "unknown")
    /\ UNCHANGED <<inbox, sender, artifact, told, eve>>

LandsLate(n, c) ==
    /\ <<n, c>> \in stray
    /\ stray' = stray \ {<<n, c>>}
    /\ Keyed(n, c)
    /\ UNCHANGED <<inbox, sender, drain, artifact, told, faults>>

\* A call to Eve that changes nothing there fails.
AnswerUnknown(d) ==
    /\ drain[d].pc \in {"asking", "recovering"} /\ Fault
    /\ Goes(d, "unknown")
    /\ UNCHANGED <<inbox, sender, outside>>

MarkAccepted(d) ==
    /\ drain[d].pc = "sent"
    /\ Marks(d, Unleased(inbox[drain[d].row], "accepted"), Idle)

\* Mutant: an input of unknown fate is given up.
MarkUnknownFailed(d) ==
    /\ drain[d].pc = "unknown"
    /\ Marks(d, Unleased(inbox[drain[d].row], "failed"), Idle)

MarkInboxUncertain(d) ==
    /\ drain[d].pc = "unknown"
    /\ Marks(d, Unleased(inbox[drain[d].row], "uncertain"), Idle)

\* The process dies, its principal is refused or the database fails.  A request it
\* was sending may still land.
Dies(d) ==
    /\ drain[d].pc # "idle" /\ Fault
    /\ stray' = IF drain[d].pc = "sending"
                THEN stray \union {<<drain[d].row, drain[d].content>>} ELSE stray
    /\ Ends(d)
    /\ UNCHANGED <<inbox, sender, artifact, told, eve>>

-----------------------------------------------------------------------------
Handoff(d) ==
    \/ TakesSnapshot(d) \/ EveAnswers(d) \/ Recovers(d) \/ Prepares(d) \/ ReadsArtifacts(d)
    \/ ChecksLease(d, "found", "recovering")
    \/ ChecksLease(d, "refused", "telling")
    \/ ChecksLease(d, "ready", "sending")
    \/ LoadFails(d) \/ TellsSender(d) \/ MarkInboxFailed(d)
    \/ PrepareInboxHandoff(d) \/ EveAccepts(d)
    \/ MarkAccepted(d) \/ MarkInboxUncertain(d)
    \/ \E c \in Content : Loads(d, c)

Fails(d) == SendUnknown(d) \/ AnswerUnknown(d) \/ Dies(d)

Claims == \E d \in Drain, n \in Slot : ClaimInbox(d, n)

Account == RevokeIdentity \/ ArchiveAccount \/ \E e \in Media : DeleteArtifact(e)

Next ==
    \/ \E n \in Slot, e \in Event : Accept(n, e)
    \/ Account
    \/ \E n \in Slot : LeaseRunsOut(n)
    \/ Claims
    \/ \E i \in 1 .. MaxIdentities : ClaimNothing(i)
    \/ \E d \in Drain : Handoff(d) \/ Fails(d)
    \/ \E n \in Slot, c \in Content : LandsLate(n, c)

Spec == Init /\ [][Next]_vars

\* The tick claims each minute, time passes, and a drain that lives goes on.
FairSpec ==
    /\ Spec
    /\ WF_vars(Claims)
    /\ \A d \in Drain : WF_vars(Handoff(d))
    /\ WF_vars(\E n \in Slot : ~(\E d \in Drain : HeldBy(d, n)) /\ LeaseRunsOut(n))
    /\ WF_vars(\E i \in 1 .. MaxIdentities : ClaimNothing(i))

-----------------------------------------------------------------------------
Settled(n) == inbox[n].status \in {"accepted", "failed"}

Fate(n) ==
    CASE inbox[n].status = "absent"   -> "absent"
      [] inbox[n].status = "accepted" -> "recorded"
      [] inbox[n].status = "failed"   -> "refused"
      [] OTHER -> IF eve[n] = "none" THEN "waiting" ELSE "heard"

Arrivals == [n \in Slot |-> inbox[n].event]
Lanes == [n \in Slot |-> inbox[n].identity]
Fates == [n \in Slot |-> Fate(n)]

Promise == INSTANCE InboxPromise WITH
    Lane <- 1 .. MaxIdentities, event <- Arrivals, lane <- Lanes, fate <- Fates

\* Whatever is repeated, late, lost or interrupted, an event is one input of Eve's at
\* most, in the order of its identity's inbox; "accepted" is true and "failed" means that
\* Eve never hears of it (store.ts, channel-session.ts).
KeepsPromise == Promise!Spec

\* The snapshot is what Eve gets: every input that Eve has or may still get carries
\* the content written in the row, also if a later attempt loaded another one.
SnapshotIsWhatEveGets == \A n \in Slot, c \in Content :
    eve[n] = c \/ <<n, c>> \in stray => inbox[n].content = c

\* A sender whose message is given up has been told so: the answer is enqueued before
\* the row is failed, and a death between the two loses neither.
FailedWasTold == \A n \in Slot : inbox[n].status = "failed" => n \in told

\* An input that Eve has is recorded in the end, even if the hand-over that sent it
\* died and its attachment is gone, unless the identity is revoked.
AcceptanceRecorded == \A n \in Slot :
    eve[n] # "none" ~> inbox[n].status = "accepted" \/ ~Live(inbox[n].identity)

\* A prepared row, not yet at Eve, whose attachment is gone cannot be handed over.
HeldUpBy(m) == /\ inbox[m].content \in Content /\ ~Settled(m) /\ eve[m] = "none"
               /\ inbox[m].event \in Media /\ artifact[inbox[m].event] = "deleted"

\* Every row is settled in the end unless its identity is revoked or a row before it,
\* or it, has lost its attachment between two hand-overs.
LaneMoves == \A n \in Slot :
    inbox[n].status = "queued" ~>
        \/ Settled(n) \/ ~Live(inbox[n].identity)
        \/ \E m \in 1 .. n : inbox[m].identity = inbox[n].identity /\ HeldUpBy(m)
===============================================================================
