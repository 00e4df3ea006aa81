---------------------------- MODULE ChannelAccounts ----------------------------
(***************************************************************************)
(* Messenger identities, browser sessions and the challenges that connect  *)
(* them (server/accounts): the login and link challenges of a browser, the *)
(* native ones of a conversation (device.ts), sign-in, revocation, and the *)
(* archiving of an account that a messenger created (archive-transfer.ts). *)
(*                                                                         *)
(* Every operation is one transaction under the account lock, so it is one *)
(* action.  A login takes two: consumeChallenge, and withLoginSession,     *)
(* which may come late or never.  A secret (token, browser cookie) is      *)
(* presented by whoever holds it: an operation without it changes nothing. *)
(* Expiry is a step that may come at any time.  What archiving does to     *)
(* jobs, grants and queued output is not state of this module.             *)
(***************************************************************************)
CONSTANTS
    Sender,             \* messenger addresses of one installation
    GoogleUser,         \* users with a Google account
    ChannelFirstUser,   \* users that a messenger created, with no other sign-in
    FirstAddress,       \* the address that each of those came with
    SessionId,
    BrowserChallenge,   \* challenges of issueChallenge
    DeviceChallenge,    \* challenges of NativeDeviceAuth.issue
    None

User == GoogleUser \union ChannelFirstUser
Challenge == BrowserChallenge \union DeviceChallenge

ASSUME AccountsAssumption ==
    /\ None \notin User /\ None \notin SessionId /\ None \notin Sender
    /\ None \notin Sender \X User
    /\ BrowserChallenge \intersect DeviceChallenge = {}
    /\ GoogleUser \intersect ChannelFirstUser = {}
    /\ FirstAddress \in [ChannelFirstUser -> Sender]
    /\ \A u, t \in ChannelFirstUser : FirstAddress[u] = FirstAddress[t] => u = t

VARIABLES
    identity,   \* channel_identity: the row of an address and a user
    pending,    \* channel_pending_sender
    session,    \* public.session; no user: no row
    challenge,  \* channel_auth_challenge
    login,      \* consumed logins whose session is not created yet
    archive,    \* account_archive
    prompt      \* channel_auth_prompt, written by AuthPrompts

accountVars == <<identity, pending, session, challenge, login, archive, prompt>>

NoSession == [user |-> None, fresh |-> FALSE, via |-> None]
NoPrompt == [status |-> "none", sender |-> None, lapsed |-> FALSE]

Blank == [status |-> "absent", purpose |-> "login", bound |-> FALSE, sender |-> None,
          holder |-> None, intended |-> None, source |-> None, target |-> None,
          session |-> None]

Row == [status : {"absent", "open", "confirmed", "closed"},
        purpose : {"login", "link"},
        bound : BOOLEAN,                           \* browser_bound_at
        sender : Sender \union {None},             \* confirmed_sender_id
        holder : User \union {None},               \* history: whose it was then
        intended : (Sender \X User) \union {None}, \* intended_identity_id
        source : User \union {None},
        target : User \union {None},
        session : SessionId \union {None}]         \* requesting_session_id

PromptRow == [status : {"none", "queued", "dispatching", "sent", "uncertain",
                        "failed", "cancelled", "deleted"},
              sender : Sender \union {None},
              lapsed : BOOLEAN]

AccountsTypeOK ==
    /\ identity \in [Sender \X User -> {"none", "active", "revoked"}]
    /\ pending \subseteq Sender
    /\ session \in [SessionId -> [user : User \union {None}, fresh : BOOLEAN,
                                  via : Sender \union {None}]]
    /\ challenge \in [Challenge -> Row]
    /\ login \subseteq [sender : Sender, user : User, holder : User \union {None}]
    /\ archive \subseteq [source : User, target : User]
    /\ prompt \in [Challenge -> PromptRow]

\* The only identities at first are those of the accounts that messengers created.
Init ==
    /\ \E owner \in [Sender -> ChannelFirstUser \union {None}] :
           /\ \A u \in ChannelFirstUser : owner[FirstAddress[u]] = u
           /\ identity = [row \in Sender \X User |->
                              IF owner[row[1]] = row[2] THEN "active" ELSE "none"]
    /\ pending = {} /\ login = {} /\ archive = {}
    /\ session = [i \in SessionId |-> NoSession]
    /\ challenge = [c \in Challenge |-> Blank]
    /\ prompt = [c \in Challenge |-> NoPrompt]

-----------------------------------------------------------------------------
\* What an operation reads.

Active(s, u) == identity[<<s, u>>] = "active"
Known(s) == \E u \in User : identity[<<s, u>>] # "none"
Linked(s) == \E u \in User : Active(s, u)

\* Mutant: only active rows are looked at.
NotInactiveUnread(s) == s \in Sender

\* findIdentity prefers the active row: an address without one is inactive.
NotInactive(s) == Known(s) => Linked(s)

Owner(s) == IF Linked(s) THEN CHOOSE u \in User : Active(s, u) ELSE None

Open(row) == row.status \in {"open", "confirmed"}
Holds(i, u) == i # None /\ u # None /\ session[i].user = u
HoldsFresh(i, u) == Holds(i, u) /\ session[i].fresh

\* requireArchivableAccount; its other conditions only refuse.
Archivable(source, target) ==
    /\ source \in ChannelFirstUser /\ source # target
    /\ \A a \in archive : a.source \notin {source, target} /\ a.target # source

\* A consumed, cancelled or expired row is over for every operation.
Over(c) == [Blank EXCEPT !.status = "closed", !.session = challenge[c].session]
Finished(c) == [challenge EXCEPT ![c] = Over(c)]

\* Deleting sessions deletes, by cascade, the challenges they requested and their prompts.
WithoutSessions(D) == [i \in SessionId |-> IF i \in D THEN NoSession ELSE session[i]]
Requested(D) == {c \in Challenge : challenge[c].session \in D}
WithoutRequests(D, cancelled) ==
    [c \in Challenge |-> IF c \in Requested(D) THEN [Blank EXCEPT !.status = "closed"]
                         ELSE IF c \in cancelled THEN Over(c) ELSE challenge[c]]
WithoutPrompts(D) ==
    [c \in Challenge |-> IF c \in Requested(D) /\ prompt[c].status # "none"
                         THEN [NoPrompt EXCEPT !.status = "deleted"] ELSE prompt[c]]
SessionsOf(u) == {i \in SessionId : session[i].user = u}

-----------------------------------------------------------------------------
\* Contacts and sessions.

RecordContact(s) ==
    /\ ~Known(s)
    /\ pending' = pending \union {s}
    /\ UNCHANGED <<identity, session, challenge, login, archive, prompt>>

SignIn(u, i) ==
    /\ u \in GoogleUser /\ session[i].user = None
    /\ session' = [session EXCEPT ![i] = [user |-> u, fresh |-> TRUE, via |-> None]]
    /\ UNCHANGED <<identity, pending, challenge, login, archive, prompt>>

GrowStale(i) ==
    /\ session[i].fresh /\ \E c \in Challenge : Open(challenge[c]) /\ challenge[c].session = i
    /\ session' = [session EXCEPT ![i].fresh = FALSE]
    /\ UNCHANGED <<identity, pending, challenge, login, archive, prompt>>

EndSession(i) ==
    /\ session[i].user # None
    /\ session' = WithoutSessions({i})
    /\ challenge' = WithoutRequests({i}, {})
    /\ prompt' = WithoutPrompts({i})
    /\ UNCHANGED <<identity, pending, login, archive>>

-----------------------------------------------------------------------------
\* Challenges of a browser.

IssueLogin(c) ==
    /\ challenge[c].status = "absent"
    /\ challenge' = [challenge EXCEPT ![c].status = "open"]
    /\ UNCHANGED <<identity, pending, session, login, archive, prompt>>

IssueLink(c, i) ==
    /\ challenge[c].status = "absent" /\ session[i].user # None /\ session[i].fresh
    /\ challenge' = [challenge EXCEPT ![c].status = "open", ![c].purpose = "link",
                                      ![c].target = session[i].user, ![c].session = i]
    /\ UNCHANGED <<identity, pending, session, login, archive, prompt>>

ExpireChallenge(c) ==
    /\ Open(challenge[c])
    /\ challenge' = Finished(c)
    /\ UNCHANGED <<identity, pending, session, login, archive, prompt>>

\* A prompt binds the challenge to its recipient.
Confirm(c, s) ==
    LET row == challenge[c] IN
    /\ row.status = "open"
    /\ prompt[c].sender \in {None, s}
    /\ row.purpose = "link" => Holds(row.session, row.target)
    /\ NotInactive(s)
    /\ Linked(s) /\ row.target # None => Active(s, row.target)
    /\ row.purpose = "login" => Linked(s)
    /\ challenge' = [challenge EXCEPT ![c].status = "confirmed", ![c].sender = s,
                                      ![c].holder = Owner(s)]
    /\ UNCHANGED <<identity, pending, session, login, archive, prompt>>

-----------------------------------------------------------------------------
\* Challenges of a conversation.  The browser is bound once, before the confirmation.

IssueDevice(c, purpose, s, u) ==
    /\ challenge[c].status = "absent" /\ Active(s, u)
    /\ challenge' = [challenge EXCEPT ![c].status = "open", ![c].purpose = purpose,
                                      ![c].intended = <<s, u>>]
    /\ UNCHANGED <<identity, pending, session, login, archive, prompt>>

Bindable(c) ==
    /\ challenge[c].status = "open" /\ ~challenge[c].bound
    /\ identity[challenge[c].intended] = "active"

BindLogin(c) ==
    /\ Bindable(c) /\ challenge[c].purpose = "login"
    /\ challenge' = [challenge EXCEPT ![c].bound = TRUE]
    /\ UNCHANGED <<identity, pending, session, login, archive, prompt>>

\* A link to another account archives the owner's.
BindLink(c, i) ==
    LET owner == challenge[c].intended[2]
        user == session[i].user
    IN
    /\ Bindable(c) /\ challenge[c].purpose = "link"
    /\ user # None /\ session[i].fresh
    /\ user # owner => Archivable(owner, user)
    /\ challenge' = [challenge EXCEPT ![c].bound = TRUE, ![c].target = user,
                         ![c].session = i, ![c].source = IF user = owner THEN None ELSE owner]
    /\ UNCHANGED <<identity, pending, session, login, archive, prompt>>

ConfirmDevice(c) ==
    LET row == challenge[c] IN
    /\ row.status = "open" /\ row.bound /\ identity[row.intended] = "active"
    /\ row.purpose = "link" =>
           /\ HoldsFresh(row.session, row.target)
           /\ row.intended[2] \in {row.target, row.source}
    /\ challenge' = [challenge EXCEPT ![c].status = "confirmed", ![c].sender = row.intended[1],
                                      ![c].holder = row.intended[2]]
    /\ UNCHANGED <<identity, pending, session, login, archive, prompt>>

-----------------------------------------------------------------------------
\* Consumption, by the browser that asked for the challenge.

ConsumeLogin(c, u) ==
    LET row == challenge[c] IN
    /\ row.status = "confirmed" /\ row.purpose = "login" /\ Active(row.sender, u)
    /\ challenge' = Finished(c)
    /\ login' = login \union {[sender |-> row.sender, user |-> u, holder |-> row.holder]}
    /\ UNCHANGED <<identity, pending, session, archive, prompt>>

MayConsumeLink(row) ==
    /\ row.status = "confirmed" /\ row.purpose = "link"
    /\ HoldsFresh(row.session, row.target)

\* Mutant: the contact that is now linked goes on waiting.
LinkIdentityKeepingContact(s, u) ==
    /\ NotInactive(s)
    /\ Linked(s) => Active(s, u)
    /\ identity' = [identity EXCEPT ![<<s, u>>] = "active"]
    /\ UNCHANGED pending

\* linkIdentity.  An address of the account already needs no new row.
LinkIdentity(s, u) ==
    /\ NotInactive(s)
    /\ Linked(s) => Active(s, u)
    /\ identity' = [identity EXCEPT ![<<s, u>>] = "active"]
    /\ pending' = IF Known(s) THEN pending ELSE pending \ {s}

ConsumeLink(c) ==
    LET row == challenge[c] IN
    /\ MayConsumeLink(row) /\ row.source = None
    /\ LinkIdentity(row.sender, row.target)
    /\ challenge' = Finished(c)
    /\ UNCHANGED <<session, login, archive, prompt>>

\* The addresses of the source are revoked and written anew for the target.
Moved(source, target) ==
    [r \in Sender \X User |->
        IF r[2] = source /\ Active(r[1], source) THEN "revoked"
        ELSE IF r[2] = target /\ Active(r[1], source) THEN "active"
        ELSE identity[r]]

\* Challenges that archiving cancels, besides those that its sessions take with them.
OfSource(c, source) ==
    /\ Open(challenge[c])
    /\ \/ challenge[c].target = source
       \/ challenge[c].intended # None /\ challenge[c].intended[2] = source

ArchiveAccount(c) ==
    LET row == challenge[c]
        D == SessionsOf(row.source)
        cancelled == {o \in Challenge \ {c} : OfSource(o, row.source)}
    IN
    /\ MayConsumeLink(row) /\ row.source # None /\ row.bound
    /\ Active(row.sender, row.source) /\ Archivable(row.source, row.target)
    /\ archive' = archive \union {[source |-> row.source, target |-> row.target]}
    /\ identity' = Moved(row.source, row.target)
    /\ session' = WithoutSessions(D)
    /\ challenge' = WithoutRequests(D, cancelled \union {c})
    /\ prompt' = WithoutPrompts(D)
    /\ UNCHANGED <<pending, login>>

\* Mutant: the consumed login is enough.
IssueSessionUnread(l, i) ==
    /\ session[i].user = None
    /\ session' = [session EXCEPT ![i] = [user |-> l.user, fresh |-> TRUE, via |-> l.sender]]
    /\ login' = login \ {l}
    /\ UNCHANGED <<identity, pending, challenge, archive, prompt>>

\* withLoginSession: the identity is read again, under the lock.
IssueSession(l, i) ==
    /\ Active(l.sender, l.user) /\ session[i].user = None
    /\ session' = [session EXCEPT ![i] = [user |-> l.user, fresh |-> TRUE, via |-> l.sender]]
    /\ login' = login \ {l}
    /\ UNCHANGED <<identity, pending, challenge, archive, prompt>>

\* Refused, failed or never asked for: it is not tried again.
DropLogin(l) ==
    /\ login' = login \ {l}
    /\ UNCHANGED <<identity, pending, session, challenge, archive, prompt>>

\* The caller's session was checked before; the transaction does not read it again.
RevokeIdentity(s, u) ==
    LET D == SessionsOf(u)
        cancelled == {c \in Challenge :
                          /\ Open(challenge[c])
                          /\ \/ challenge[c].intended = <<s, u>>
                             \/ challenge[c].target = u
                             \/ challenge[c].sender = s}
    IN
    /\ Active(s, u) /\ \E other \in Sender \ {s} : Active(other, u)
    /\ identity' = [identity EXCEPT ![<<s, u>>] = "revoked"]
    /\ session' = WithoutSessions(D)
    /\ challenge' = WithoutRequests(D, cancelled)
    /\ prompt' = WithoutPrompts(D)
    /\ UNCHANGED <<pending, login, archive>>

-----------------------------------------------------------------------------
BrowserNext ==
    \/ \E c \in BrowserChallenge : IssueLogin(c) \/ \E i \in SessionId : IssueLink(c, i)
    \/ \E c \in BrowserChallenge, s \in Sender : Confirm(c, s)

DeviceNext ==
    \E c \in DeviceChallenge :
        \/ \E p \in {"login", "link"}, s \in Sender, u \in User : IssueDevice(c, p, s, u)
        \/ BindLogin(c) \/ \E i \in SessionId : BindLink(c, i)
        \/ ConfirmDevice(c) \/ ArchiveAccount(c)

SessionNext ==
    \E i \in SessionId :
        GrowStale(i) \/ EndSession(i) \/ \E u \in User : SignIn(u, i)

AccountNext ==
    \/ BrowserNext \/ DeviceNext \/ SessionNext
    \/ \E s \in Sender : RecordContact(s) \/ \E u \in User : RevokeIdentity(s, u)
    \/ \E c \in Challenge :
           ExpireChallenge(c) \/ ConsumeLink(c) \/ \E u \in User : ConsumeLogin(c, u)
    \/ \E l \in login : DropLogin(l) \/ \E i \in SessionId : IssueSession(l, i)

AccountSpec == Init /\ [][AccountNext]_accountVars
================================================================================
