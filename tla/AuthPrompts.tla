------------------------------ MODULE AuthPrompts ------------------------------
(***************************************************************************)
(* The confirmation prompts of login and link challenges                   *)
(* (server/channel-auth/prompts.ts) and their delivery                     *)
(* (server/channels/dispatch.ts), beside the operations of the accounts.   *)
(*                                                                         *)
(* A challenge has one prompt, claimed once, so its delivery is state of   *)
(* the challenge.  The webhook that prepared it and the minute tick both   *)
(* deliver; either may die between two steps.  The provider is external: a *)
(* request it was sent may be carried out after its answer was given up.   *)
(***************************************************************************)
EXTENDS ChannelAccounts, Naturals

VARIABLES
    delivery,  \* the delivery of a prompt, between two of its steps
    request,   \* the request at the provider: "none", "open" or "over"
    copies     \* messages the person got (bound: the second is the last counted)

deliveryVars == <<delivery, request, copies>>
vars == <<accountVars, deliveryVars>>

Settled == {"sent", "uncertain", "failed", "cancelled", "deleted"}

\* Rows, sessions and deliveries keep within the states of the code; a prompt has a
\* recipient until its row is deleted, and an address that waits was never linked.
TypeOK ==
    /\ AccountsTypeOK
    /\ delivery \in [BrowserChallenge -> {"idle", "claimed", "calling", "accepted",
                                          "rejected", "unsure"}]
    /\ request \in [BrowserChallenge -> {"none", "open", "over"}]
    /\ copies \in [BrowserChallenge -> 0 .. 2]
    /\ \A c \in Challenge :
           prompt[c].sender = None <=> prompt[c].status \in {"none", "deleted"}
    /\ \A s \in pending : ~Known(s)

PromptInit ==
    /\ Init
    /\ delivery = [c \in BrowserChallenge |-> "idle"]
    /\ request = [c \in BrowserChallenge |-> "none"]
    /\ copies = [c \in BrowserChallenge |-> 0]

OnlyPrompt == UNCHANGED <<identity, pending, session, challenge, login, archive>>

-----------------------------------------------------------------------------
\* previewChallenge, for the address s.
Previewable(c, s) ==
    LET row == challenge[c] IN
    /\ row.status = "open" /\ NotInactive(s)
    /\ row.purpose = "login" => Linked(s)
    /\ row.purpose = "link" =>
           /\ HoldsFresh(row.session, row.target)
           /\ Linked(s) => Active(s, row.target)

\* Mutants: a lapsed delivery is tried again, or is never given up.
RetiredStatusRequeued(c) ==
    CASE prompt[c].status = "dispatching" /\ prompt[c].lapsed -> "queued"
      [] prompt[c].status = "queued" /\ challenge[c].status # "open" -> "cancelled"
      [] OTHER -> prompt[c].status

RetiredStatusQueuedOnly(c) ==
    IF prompt[c].status = "queued" /\ challenge[c].status # "open" THEN "cancelled"
    ELSE prompt[c].status

\* retire, which every transaction of a prompt begins with.
RetiredStatus(c) ==
    CASE prompt[c].status = "dispatching" /\ prompt[c].lapsed -> "uncertain"
      [] prompt[c].status = "queued" /\ challenge[c].status # "open" -> "cancelled"
      [] OTHER -> prompt[c].status

Retired == [c \in Challenge |->
                IF RetiredStatus(c) = prompt[c].status THEN prompt[c]
                ELSE [prompt[c] EXCEPT !.status = RetiredStatus(c), !.lapsed = FALSE]]

\* The webhook of a start command.  The first sender is the recipient; a failed
\* preview of a new prompt, and another sender, undo the transaction.
Prepare(c, s) ==
    /\ challenge[c].status # "absent" /\ prompt[c].status # "deleted"
    /\ \/ /\ prompt[c].status = "none" /\ Previewable(c, s)
          /\ prompt' = [Retired EXCEPT ![c] = [status |-> "queued", sender |-> s, lapsed |-> FALSE]]
       \/ /\ prompt[c].sender = s
          /\ prompt' = IF RetiredStatus(c) = "queued" /\ ~Previewable(c, s)
                       THEN [Retired EXCEPT ![c].status = "cancelled"] ELSE Retired
    /\ OnlyPrompt /\ UNCHANGED deliveryVars

\* The list of the minute tick.
Pending ==
    /\ prompt' = Retired
    /\ OnlyPrompt /\ UNCHANGED deliveryVars

\* The envelope may be unreadable, with a key that has changed.
Claim(c) ==
    /\ prompt[c].status = "queued"
    /\ \E readable \in BOOLEAN :
           LET status == IF RetiredStatus(c) # "queued" THEN RetiredStatus(c)
                         ELSE IF ~readable THEN "failed"
                         ELSE IF ~Previewable(c, prompt[c].sender) THEN "cancelled"
                         ELSE "dispatching"
           IN
           /\ prompt' = [Retired EXCEPT ![c].status = status]
           /\ delivery' = IF status = "dispatching" THEN [delivery EXCEPT ![c] = "claimed"]
                          ELSE delivery
    /\ OnlyPrompt /\ UNCHANGED <<request, copies>>

\* The lease and the challenge are read again before the call.  A lost lease ends the
\* delivery and leaves the row to its lease.
CheckLease(c) ==
    /\ delivery[c] = "claimed"
    /\ prompt' = Retired
    /\ IF RetiredStatus(c) = "dispatching" /\ Previewable(c, prompt[c].sender)
       THEN /\ delivery' = [delivery EXCEPT ![c] = "calling"]
            /\ request' = [request EXCEPT ![c] = "open"]
       ELSE /\ delivery' = [delivery EXCEPT ![c] = "idle"]
            /\ UNCHANGED request
    /\ OnlyPrompt /\ UNCHANGED copies

\* The configuration, or another installation, refuses before the call.
Refuse(c) ==
    /\ delivery[c] = "claimed"
    /\ delivery' = [delivery EXCEPT ![c] = "rejected"]
    /\ UNCHANGED <<accountVars, request, copies>>

\* The provider carries out the request, whether or not somebody still waits for it.
Arrive(c) ==
    /\ request[c] = "open"
    /\ request' = [request EXCEPT ![c] = "over"]
    /\ copies' = [copies EXCEPT ![c] = IF @ < 2 THEN @ + 1 ELSE 2]
    /\ UNCHANGED <<accountVars, delivery>>

\* What the call ends with.  A rate limit is caught by nobody: the delivery ends.
Answer(c) ==
    /\ delivery[c] = "calling"
    /\ \/ request[c] = "over" /\ delivery' = [delivery EXCEPT ![c] = "accepted"]
          /\ UNCHANGED request
       \/ /\ request[c] = "open" /\ request' = [request EXCEPT ![c] = "none"]
          /\ \E result \in {"rejected", "idle"} : delivery' = [delivery EXCEPT ![c] = result]
       \/ delivery' = [delivery EXCEPT ![c] = "unsure"] /\ UNCHANGED request
    /\ UNCHANGED <<accountVars, copies>>

Verdict(c) == CASE delivery[c] = "accepted" -> "sent"
                [] delivery[c] = "rejected" -> "failed"
                [] OTHER -> "uncertain"

\* settle, under the lease.
Settle(c) ==
    /\ delivery[c] \in {"accepted", "rejected", "unsure"}
    /\ prompt' = IF RetiredStatus(c) = "dispatching"
                 THEN [Retired EXCEPT ![c].status = Verdict(c)] ELSE Retired
    /\ delivery' = [delivery EXCEPT ![c] = "idle"]
    /\ OnlyPrompt /\ UNCHANGED <<request, copies>>

Crash(c) ==
    /\ delivery[c] # "idle"
    /\ delivery' = [delivery EXCEPT ![c] = "idle"]
    /\ UNCHANGED <<accountVars, request, copies>>

Lapse(c) ==
    /\ prompt[c].status = "dispatching" /\ ~prompt[c].lapsed
    /\ prompt' = [prompt EXCEPT ![c].lapsed = TRUE]
    /\ OnlyPrompt /\ UNCHANGED deliveryVars

PromptNext ==
    \/ Pending
    \/ \E c \in BrowserChallenge :
           \/ \E s \in Sender : Prepare(c, s)
           \/ Claim(c) \/ CheckLease(c) \/ Refuse(c) \/ Arrive(c) \/ Answer(c)
           \/ Settle(c) \/ Crash(c) \/ Lapse(c)

Next == (AccountNext /\ UNCHANGED deliveryVars) \/ PromptNext

Spec == PromptInit /\ [][Next]_vars

\* The minute tick lists and claims; a lease lapses.  Nothing else is promised: a
\* delivery may die, and people and providers may stay silent.
FairSpec ==
    /\ Spec
    /\ WF_vars(Pending)
    /\ \A c \in BrowserChallenge : WF_vars(Claim(c)) /\ WF_vars(Lapse(c))

-----------------------------------------------------------------------------
\* The addresses as AddressPromise sees them.
Holdings == {r \in Sender \X User : identity[r] = "active"}
KnownAddresses == {s \in Sender : Known(s)}

Promise == INSTANCE AddressPromise WITH holds <- Holdings, known <- KnownAddresses

\* An address keeps to AddressPromise: one account, moved only by archiving the whole
\* account once, never back after its revocation, and never the last one revoked
\* (accounts/index.ts linkIdentity and revokeIdentity, archive-transfer.ts).
KeepsPromise == Promise!Spec

\* A session from a messenger is of an account that still has the address, an archived
\* account has no session, and a login opens the account that confirmed it or the one
\* that account was archived into, however the transactions interleave.
SessionsFollowAddresses ==
    /\ \A i \in SessionId :
           session[i].user # None =>
               /\ session[i].via # None => Active(session[i].via, session[i].user)
               /\ \A a \in archive : session[i].user # a.source
    /\ \A l \in login :
           l.holder = l.user \/ [source |-> l.holder, target |-> l.user] \in archive

\* A challenge asks once, only the recipient of its prompt answers
\* (adr-google-identity-and-messengers.md: a forwarded button cannot switch the
\* recipient), and what the prompt says of the message is true: sent means that it
\* arrived, failed and cancelled that it neither did nor will.
PromptTellsTheTruth ==
    \A c \in BrowserChallenge :
        /\ copies[c] < 2
        /\ challenge[c].status = "confirmed" => prompt[c].sender \in {None, challenge[c].sender}
        /\ prompt[c].status = "sent" => copies[c] = 1
        /\ prompt[c].status \in {"queued", "failed", "cancelled"} =>
               copies[c] = 0 /\ request[c] # "open"

\* Every prompt settles, and with it the encrypted token is erased, also when the delivery
\* dies, loses its lease or meets a rate limit, which dispatchAuthPrompt does not catch.
PromptSettles ==
    \A c \in BrowserChallenge :
        prompt[c].status \in {"queued", "dispatching"} ~> prompt[c].status \in Settled
================================================================================
