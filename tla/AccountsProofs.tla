----------------------------- MODULE AccountsProofs -----------------------------
(***************************************************************************)
(* Proofs about ChannelAccounts and AuthPrompts for every set of           *)
(* addresses, users, sessions and challenges: the type invariant, the      *)
(* promise of an address, sessions and logins that follow it, and prompts  *)
(* that tell the truth.                                                    *)
(***************************************************************************)
EXTENDS AuthPrompts, TLAPS

-----------------------------------------------------------------------------
\* The inductive invariant, one part per concern.

\* A confirmed row names who confirmed it, and a row of a conversation names its address.
RowsOK ==
    \A c \in Challenge :
        /\ challenge[c].status = "confirmed" => challenge[c].sender # None
        /\ c \in DeviceChallenge /\ Open(challenge[c]) => challenge[c].intended # None

Sole == \A s \in Sender, u, t \in User : Active(s, u) /\ Active(s, t) => u = t

\* What archiving leaves of the source.
Left ==
    \A a \in archive :
        /\ a.source \in ChannelFirstUser
        /\ \A s \in Sender : ~Active(s, a.source)
        /\ \A i \in SessionId : session[i].user # a.source
        /\ \A b \in archive : b.target # a.source

Via ==
    \A i \in SessionId :
        session[i].user # None /\ session[i].via # None =>
            Active(session[i].via, session[i].user)

\* The account that approved is the account the address stands for, or went into it.
Became(h, u) == h = u \/ [source |-> h, target |-> u] \in archive

ApprovedRow(row) ==
    row.status = "confirmed" /\ row.purpose = "login" =>
        /\ Known(row.sender)
        /\ \A u \in User : Active(row.sender, u) => Became(row.holder, u)

Approved == \A c \in Challenge : ApprovedRow(challenge[c])

Consumed == \A l \in login : Became(l.holder, l.user)

\* What a delivery knows of its request, and what a prompt knows of both.
CallOK(d, req, n) ==
    /\ n = IF req = "over" THEN 1 ELSE 0
    /\ d \in {"claimed", "rejected"} => req = "none"
    /\ d = "calling" => req # "none"
    /\ d = "accepted" => req = "over"

Agrees(status, d, req) ==
    /\ status \in {"none", "queued", "failed", "cancelled"} => req = "none" /\ d = "idle"
    /\ status = "sent" => req = "over"

Calls == \A c \in BrowserChallenge : CallOK(delivery[c], request[c], copies[c])

Statuses == \A c \in BrowserChallenge : Agrees(prompt[c].status, delivery[c], request[c])

Answered ==
    \A c \in BrowserChallenge :
        challenge[c].status = "confirmed" => prompt[c].sender \in {None, challenge[c].sender}

TInv == TypeOK /\ RowsOK
AInv == Sole /\ Left /\ Via /\ Approved /\ Consumed
PInv == Calls /\ Statuses /\ Answered

USE AccountsAssumption DEF User, Challenge

-----------------------------------------------------------------------------
LEMMA InitTyped == PromptInit => TInv
<1> SUFFICES ASSUME PromptInit PROVE TInv
  OBVIOUS
<1>1. PICK owner \in [Sender -> ChannelFirstUser \union {None}] :
          /\ \A u \in ChannelFirstUser : owner[FirstAddress[u]] = u
          /\ identity = [row \in Sender \X User |->
                             IF owner[row[1]] = row[2] THEN "active" ELSE "none"]
  BY DEF PromptInit, Init
<1>2. AccountsTypeOK
  BY <1>1 DEF PromptInit, Init, AccountsTypeOK, NoSession, NoPrompt, Blank, Row, PromptRow
<1>3. TypeOK
  BY <1>2 DEF PromptInit, Init, TypeOK, NoPrompt
<1>4. RowsOK
  BY DEF PromptInit, Init, RowsOK, Open, Blank
<1> QED
  BY <1>3, <1>4 DEF TInv

-----------------------------------------------------------------------------
\* Types.  Most operations replace one row, and a few take sessions away.

LEMMA IntendedField ==
    ASSUME NEW row \in Row, NEW p \in {"login", "link"}, NEW pair \in Sender \X User
    PROVE  [row EXCEPT !.status = "open", !.purpose = p, !.intended = pair] \in Row
<1> DEFINE P == Sender \X User
<1> DEFINE r == [row EXCEPT !.status = "open", !.purpose = p, !.intended = pair]
<1>1. Row = [status : {"absent", "open", "confirmed", "closed"},
             purpose : {"login", "link"}, bound : BOOLEAN, sender : Sender \union {None},
             holder : User \union {None}, intended : P \union {None},
             source : User \union {None}, target : User \union {None},
             session : SessionId \union {None}]
  BY DEF Row
<1>2. pair \in P
  OBVIOUS
<1> HIDE DEF P
<1> QED
  BY <1>1, <1>2

LEMMA BoundField == ASSUME NEW row \in Row PROVE [row EXCEPT !.bound = TRUE] \in Row
  BY DEF Row

LEMMA LinkFields ==
    ASSUME NEW row \in Row, NEW u \in User \union {None}, NEW i \in SessionId
    PROVE  [row EXCEPT !.status = "open", !.purpose = "link", !.target = u, !.session = i] \in Row
  BY DEF Row

LEMMA ConfirmFields ==
    ASSUME NEW row \in Row, NEW s \in Sender, NEW u \in User \union {None}
    PROVE  [row EXCEPT !.status = "confirmed", !.sender = s, !.holder = u] \in Row
  BY DEF Row

LEMMA BindFields ==
    ASSUME NEW row \in Row, NEW u \in User \union {None}, NEW v \in User \union {None},
           NEW i \in SessionId
    PROVE  [row EXCEPT !.bound = TRUE, !.target = u, !.session = i, !.source = v] \in Row
  BY DEF Row

LEMMA RowReplaced ==
    ASSUME TInv, NEW c \in Challenge, NEW r \in Row, challenge' = [challenge EXCEPT ![c] = r],
           r.status = "confirmed" => r.sender # None,
           c \in DeviceChallenge /\ Open(r) => r.intended # None
    PROVE  challenge' \in [Challenge -> Row] /\ RowsOK'
  BY DEF TInv, TypeOK, AccountsTypeOK, RowsOK, Open

\* An operation that leaves addresses, contacts and prompts alone.
LEMMA QuietTyped ==
    ASSUME TInv, AccountsTypeOK', RowsOK',
           UNCHANGED <<identity, pending, prompt, delivery, request, copies>>
    PROVE  TInv'
  BY DEF TInv, TypeOK, Known

LEMMA QuietRow ==
    ASSUME TInv, NEW c \in Challenge, NEW r \in Row, challenge' = [challenge EXCEPT ![c] = r],
           r.status = "confirmed" => r.sender # None,
           c \in DeviceChallenge /\ Open(r) => r.intended # None,
           UNCHANGED <<identity, pending, session, login, archive, prompt>>,
           UNCHANGED deliveryVars
    PROVE  TInv'
<1>1. challenge' \in [Challenge -> Row] /\ RowsOK'
  BY RowReplaced
<1>2. AccountsTypeOK'
  BY <1>1 DEF TInv, TypeOK, AccountsTypeOK
<1> QED
  BY <1>1, <1>2, QuietTyped DEF deliveryVars

LEMMA WithoutTyped ==
    ASSUME TInv, NEW D, NEW X
    PROVE  /\ WithoutSessions(D) \in [SessionId -> [user : User \union {None}, fresh : BOOLEAN,
                                                    via : Sender \union {None}]]
           /\ WithoutRequests(D, X) \in [Challenge -> Row]
           /\ \A c \in Challenge :
                  WithoutRequests(D, X)[c] = challenge[c] \/ WithoutRequests(D, X)[c].status = "closed"
           /\ WithoutPrompts(D) \in [Challenge -> PromptRow]
           /\ \A c \in Challenge :
                  \/ WithoutPrompts(D)[c] = prompt[c]
                  \/ /\ WithoutPrompts(D)[c].status = "deleted"
                     /\ WithoutPrompts(D)[c].sender = None
<1> USE DEF TInv, TypeOK, AccountsTypeOK
<1>1. WithoutSessions(D) \in [SessionId -> [user : User \union {None}, fresh : BOOLEAN,
                                           via : Sender \union {None}]]
  BY DEF WithoutSessions, NoSession
<1>2. [Blank EXCEPT !.status = "closed"] \in Row /\ \A c \in Challenge : Over(c) \in Row
  BY DEF Over, Blank, Row
<1>3. WithoutRequests(D, X) \in [Challenge -> Row]
  BY <1>2 DEF WithoutRequests
<1>4. \A c \in Challenge :
          WithoutRequests(D, X)[c] = challenge[c] \/ WithoutRequests(D, X)[c].status = "closed"
  BY DEF WithoutRequests, Over, Blank
<1>5. WithoutPrompts(D) \in [Challenge -> PromptRow]
  BY DEF WithoutPrompts, NoPrompt, PromptRow
<1>6. ASSUME NEW c \in Challenge
      PROVE  \/ WithoutPrompts(D)[c] = prompt[c]
             \/ /\ WithoutPrompts(D)[c].status = "deleted"
                /\ WithoutPrompts(D)[c].sender = None
  <2>1. CASE c \in Requested(D) /\ prompt[c].status # "none"
    BY <2>1 DEF WithoutPrompts, NoPrompt
  <2>2. CASE ~(c \in Requested(D) /\ prompt[c].status # "none")
    BY <2>2 DEF WithoutPrompts
  <2> QED
    BY <2>1, <2>2
<1> QED
  BY <1>1, <1>3, <1>4, <1>5, <1>6

\* Sessions are deleted, and what they asked for with them.
LEMMA WithoutTypedAll ==
    ASSUME TInv, NEW D, NEW X,
           session' = WithoutSessions(D), challenge' = WithoutRequests(D, X),
           prompt' = WithoutPrompts(D),
           identity' \in [Sender \X User -> {"none", "active", "revoked"}],
           archive' \subseteq [source : User, target : User],
           \A s \in Sender : Known(s)' <=> Known(s),
           UNCHANGED <<pending, login>>, UNCHANGED deliveryVars
    PROVE  TInv'
<1> USE DEF TInv, TypeOK
<1>1. AccountsTypeOK'
  BY WithoutTyped DEF AccountsTypeOK
<1>2. RowsOK'
  BY WithoutTyped DEF RowsOK, Open
<1>3. \A c \in Challenge : prompt'[c].sender = None <=> prompt'[c].status \in {"none", "deleted"}
  BY WithoutTyped
<1>4. \A s \in pending' : ~Known(s)'
  BY DEF AccountsTypeOK
<1> QED
  BY <1>1, <1>2, <1>3, <1>4 DEF deliveryVars

LEMMA BrowserTyped ==
    ASSUME TInv, BrowserNext, UNCHANGED deliveryVars PROVE TInv'
<1>0. \A c \in Challenge : challenge[c] \in Row
  BY DEF TInv, TypeOK, AccountsTypeOK
<1>1. ASSUME NEW c \in BrowserChallenge, IssueLogin(c) PROVE TInv'
  <2> DEFINE r == [challenge[c] EXCEPT !.status = "open"]
  <2>1. challenge' = [challenge EXCEPT ![c] = r]
    BY <1>1 DEF IssueLogin
  <2>2. r \in Row /\ r.status = "open"
    BY <1>0 DEF Row
  <2> HIDE DEF r
  <2> QED
    BY <2>1, <2>2, <1>1, QuietRow DEF IssueLogin
<1>2. ASSUME NEW c \in BrowserChallenge, NEW i \in SessionId, IssueLink(c, i) PROVE TInv'
  <2> DEFINE r == [challenge[c] EXCEPT !.status = "open", !.purpose = "link",
                                       !.target = session[i].user, !.session = i]
  <2>1. challenge' = [challenge EXCEPT ![c] = r]
    BY <1>2 DEF IssueLink
  <2>2. session[i].user \in User \union {None}
    BY DEF TInv, TypeOK, AccountsTypeOK
  <2>3. r \in Row
    BY <1>0, <2>2, LinkFields
  <2>4. r.status = "open"
    BY <1>0 DEF Row
  <2> HIDE DEF r
  <2> QED
    BY <2>1, <2>3, <2>4, <1>2, QuietRow DEF IssueLink
<1>3. ASSUME NEW c \in BrowserChallenge, NEW s \in Sender, Confirm(c, s) PROVE TInv'
  <2> DEFINE r == [challenge[c] EXCEPT !.status = "confirmed", !.sender = s, !.holder = Owner(s)]
  <2>1. challenge' = [challenge EXCEPT ![c] = r]
    BY <1>3 DEF Confirm
  <2>2. Owner(s) \in User \union {None}
    BY DEF Owner, Linked
  <2>3. r \in Row
    BY <1>0, <2>2, ConfirmFields
  <2>4. r.sender = s
    BY <1>0 DEF Row
  <2> HIDE DEF r
  <2> QED
    BY <2>1, <2>3, <2>4, <1>3, QuietRow DEF Confirm
<1> QED
  BY <1>1, <1>2, <1>3 DEF BrowserNext
LEMMA DeviceRowsTyped ==
    ASSUME TInv, UNCHANGED deliveryVars, NEW c \in DeviceChallenge,
           \/ \E p \in {"login", "link"}, s \in Sender, u \in User : IssueDevice(c, p, s, u)
           \/ BindLogin(c) \/ \E i \in SessionId : BindLink(c, i)
           \/ ConfirmDevice(c)
    PROVE  TInv'
<1>0. challenge[c] \in Row
  BY DEF TInv, TypeOK, AccountsTypeOK
<1>1. Open(challenge[c]) => challenge[c].intended \in Sender \X User
  <2>1. Open(challenge[c]) => challenge[c].intended # None
    BY DEF TInv, RowsOK
  <2> QED
    BY <2>1, <1>0 DEF Row
<1>2. ASSUME NEW p \in {"login", "link"}, NEW s \in Sender, NEW u \in User,
             IssueDevice(c, p, s, u)
      PROVE TInv'
  <2> DEFINE pair == <<s, u>>
             r == [challenge[c] EXCEPT !.status = "open", !.purpose = p, !.intended = pair]
  <2>1. challenge' = [challenge EXCEPT ![c] = r]
    BY <1>2 DEF IssueDevice
  <2>2. pair \in Sender \X User /\ pair # None
    OBVIOUS
  <2> HIDE DEF pair
  <2>3. r \in Row
    BY <1>0, <2>2, IntendedField
  <2>4. r.status = "open" /\ r.intended = pair
    BY <1>0 DEF Row
  <2> HIDE DEF r
  <2> QED
    BY <2>1, <2>2, <2>3, <2>4, <1>2, QuietRow DEF IssueDevice
<1>3. ASSUME BindLogin(c) PROVE TInv'
  <2> DEFINE r == [challenge[c] EXCEPT !.bound = TRUE]
  <2>1. challenge' = [challenge EXCEPT ![c] = r]
    BY <1>3 DEF BindLogin
  <2>2. r \in Row
    BY <1>0, BoundField
  <2>3. r.status = "open" /\ r.intended = challenge[c].intended /\ Open(challenge[c])
    BY <1>0, <1>3 DEF Row, BindLogin, Bindable, Open
  <2> HIDE DEF r
  <2> QED
    BY <2>1, <2>2, <2>3, <1>1, <1>3, QuietRow DEF BindLogin
<1>4. ASSUME NEW i \in SessionId, BindLink(c, i) PROVE TInv'
  <2> DEFINE owner == challenge[c].intended[2]
             v == IF session[i].user = owner THEN None ELSE owner
             r == [challenge[c] EXCEPT !.bound = TRUE, !.target = session[i].user,
                                       !.session = i, !.source = v]
  <2>1. challenge' = [challenge EXCEPT ![c] = r]
    BY <1>4 DEF BindLink
  <2>2. Open(challenge[c]) /\ challenge[c].status = "open"
    BY <1>4 DEF BindLink, Bindable, Open
  <2>3. owner \in User
    BY <1>1, <2>2
  <2> HIDE DEF owner
  <2>4. v \in User \union {None} /\ session[i].user \in User \union {None}
    BY <2>3 DEF TInv, TypeOK, AccountsTypeOK
  <2> HIDE DEF v
  <2>5. r \in Row
    BY <1>0, <2>4, BindFields
  <2>6. r.status = "open" /\ r.intended = challenge[c].intended
    BY <1>0, <2>2 DEF Row
  <2> HIDE DEF r
  <2> QED
    BY <2>1, <2>2, <2>5, <2>6, <1>1, <1>4, QuietRow DEF BindLink
<1>5. ASSUME ConfirmDevice(c) PROVE TInv'
  <2> DEFINE pair == challenge[c].intended
             s == pair[1]
             h == pair[2]
             r == [challenge[c] EXCEPT !.status = "confirmed", !.sender = s, !.holder = h]
  <2>1. challenge' = [challenge EXCEPT ![c] = r]
    BY <1>5 DEF ConfirmDevice
  <2>2. Open(challenge[c])
    BY <1>5 DEF ConfirmDevice, Open
  <2>3. pair \in Sender \X User /\ pair # None /\ s \in Sender /\ h \in User
    BY <1>1, <2>2
  <2> HIDE DEF s, h
  <2>4. r \in Row
    BY <1>0, <2>3, ConfirmFields
  <2>5. r.sender = s /\ r.intended = pair
    BY <1>0 DEF Row
  <2> HIDE DEF r, pair
  <2> QED
    BY <2>1, <2>3, <2>4, <2>5, <1>5, QuietRow DEF ConfirmDevice
<1> QED
  BY <1>2, <1>3, <1>4, <1>5

LEMMA StaleField ==
    ASSUME NEW S, NEW T, NEW x \in [user : S, fresh : BOOLEAN, via : T]
    PROVE  [x EXCEPT !.fresh = FALSE] \in [user : S, fresh : BOOLEAN, via : T]
  OBVIOUS

LEMMA SessionsTyped ==
    ASSUME TInv, SessionNext, UNCHANGED deliveryVars PROVE TInv'
<1>1. ASSUME NEW i \in SessionId, GrowStale(i) PROVE TInv'
  <2> DEFINE S == [user : User \union {None}, fresh : BOOLEAN, via : Sender \union {None}]
             n == [session[i] EXCEPT !.fresh = FALSE]
  <2>1. session[i] \in S /\ session \in [SessionId -> S]
    BY DEF TInv, TypeOK, AccountsTypeOK
  <2>2. n \in S
    BY <2>1, StaleField
  <2>3. session' = [session EXCEPT ![i] = n]
    BY <1>1 DEF GrowStale
  <2> HIDE DEF n, S
  <2>4. session' \in [SessionId -> S]
    BY <2>1, <2>2, <2>3
  <2>5. AccountsTypeOK'
    BY <1>1, <2>4 DEF GrowStale, TInv, TypeOK, AccountsTypeOK, S
  <2>6. RowsOK'
    BY <1>1 DEF GrowStale, TInv, RowsOK, Open
  <2> QED
    BY <1>1, <2>5, <2>6, QuietTyped DEF GrowStale, deliveryVars
<1>2. ASSUME NEW i \in SessionId, NEW u \in User, SignIn(u, i) PROVE TInv'
  <2>1. AccountsTypeOK'
    BY <1>2 DEF SignIn, TInv, TypeOK, AccountsTypeOK
  <2>2. RowsOK'
    BY <1>2 DEF SignIn, TInv, RowsOK, Open
  <2> QED
    BY <2>1, <2>2, <1>2, QuietTyped DEF SignIn, deliveryVars
<1>3. ASSUME NEW i \in SessionId, EndSession(i) PROVE TInv'
  BY <1>3, WithoutTypedAll DEF EndSession, TInv, TypeOK, AccountsTypeOK, Known
<1> QED
  BY <1>1, <1>2, <1>3 DEF SessionNext

\* What archiving does to the identity of one address.
LEMMA MovedIs ==
    ASSUME TInv, NEW source \in User, NEW target \in User
    PROVE  /\ Moved(source, target) \in [Sender \X User -> {"none", "active", "revoked"}]
           /\ \A s \in Sender, u \in User :
                  Moved(source, target)[<<s, u>>] =
                      IF u = source /\ Active(s, source) THEN "revoked"
                      ELSE IF u = target /\ Active(s, source) THEN "active"
                      ELSE identity[<<s, u>>]
  BY DEF Moved, Active, TInv, TypeOK, AccountsTypeOK

LEMMA MovedActive ==
    ASSUME TInv, NEW source \in User, NEW target \in User, source # target,
           identity' = Moved(source, target)
    PROVE  \A s \in Sender, u \in User :
               Active(s, u)' <=> /\ u # source
                                 /\ Active(s, u) \/ (u = target /\ Active(s, source))
<1> SUFFICES ASSUME NEW s \in Sender, NEW u \in User
             PROVE  Active(s, u)' <=> /\ u # source
                                      /\ Active(s, u) \/ (u = target /\ Active(s, source))
  OBVIOUS
<1>1. identity'[<<s, u>>] = IF u = source /\ Active(s, source) THEN "revoked"
                            ELSE IF u = target /\ Active(s, source) THEN "active"
                            ELSE identity[<<s, u>>]
  BY MovedIs
<1> QED
  BY <1>1 DEF Active

LEMMA MovedKnown ==
    ASSUME TInv, NEW source \in User, NEW target \in User, identity' = Moved(source, target)
    PROVE  \A s \in Sender : Known(s)' <=> Known(s)
<1>1. ASSUME NEW s \in Sender, NEW u \in User, identity[<<s, u>>] # "none"
      PROVE  identity'[<<s, u>>] # "none"
  <2>1. Moved(source, target)[<<s, u>>] \in {"revoked", "active", identity[<<s, u>>]}
    BY MovedIs
  <2> QED
    BY <1>1, <2>1
<1>2. ASSUME NEW s \in Sender, NEW u \in User, identity'[<<s, u>>] # "none"
      PROVE  identity[<<s, u>>] # "none" \/ identity[<<s, source>>] # "none"
  BY <1>2, MovedIs DEF Active
<1>3. ASSUME NEW s \in Sender PROVE Known(s)' <=> Known(s)
  <2>1. CASE Known(s)
    BY <1>1, <2>1 DEF Known
  <2>2. CASE Known(s)'
    BY <1>2, <2>2 DEF Known
  <2> QED
    BY <2>1, <2>2
<1> QED
  BY <1>3

LEMMA OverTyped ==
    ASSUME TInv, NEW c \in Challenge
    PROVE  Over(c) \in Row /\ Over(c).status = "closed"
  BY DEF Over, Blank, Row, TInv, TypeOK, AccountsTypeOK

LEMMA RevokeTyped ==
    ASSUME TInv, NEW s \in Sender, NEW u \in User, RevokeIdentity(s, u), UNCHANGED deliveryVars
    PROVE  TInv'
<1>1. identity' \in [Sender \X User -> {"none", "active", "revoked"}]
  BY DEF RevokeIdentity, TInv, TypeOK, AccountsTypeOK
<1>2. \A x \in Sender : Known(x)' <=> Known(x)
  BY DEF RevokeIdentity, Known, Active, TInv, TypeOK, AccountsTypeOK
<1>3. archive' \subseteq [source : User, target : User]
  BY DEF RevokeIdentity, TInv, TypeOK, AccountsTypeOK
<1> QED
  BY <1>1, <1>2, <1>3, WithoutTypedAll DEF RevokeIdentity

\* The two ends of an archiving.
LEMMA ArchiveEnds ==
    ASSUME TInv, NEW c \in DeviceChallenge, ArchiveAccount(c)
    PROVE  /\ challenge[c].sender \in Sender
           /\ challenge[c].source \in User /\ challenge[c].target \in User
           /\ challenge[c].source # challenge[c].target
           /\ challenge[c].status = "confirmed" /\ challenge[c].purpose = "link"
<1>1. challenge[c] \in Row
  BY DEF TInv, TypeOK, AccountsTypeOK
<1>2. challenge[c].status = "confirmed" /\ challenge[c].purpose = "link"
  BY DEF ArchiveAccount, MayConsumeLink
<1>3. challenge[c].sender \in Sender
  BY <1>1, <1>2 DEF Row, TInv, RowsOK
<1>4. challenge[c].source \in User
  BY <1>1 DEF Row, ArchiveAccount
<1>5. challenge[c].target \in User
  BY <1>1 DEF Row, ArchiveAccount, MayConsumeLink, HoldsFresh, Holds
<1>6. challenge[c].source # challenge[c].target
  BY DEF ArchiveAccount, Archivable
<1> QED
  BY <1>2, <1>3, <1>4, <1>5, <1>6

LEMMA ArchiveTyped ==
    ASSUME TInv, NEW c \in DeviceChallenge, ArchiveAccount(c), UNCHANGED deliveryVars
    PROVE  TInv'
<1> DEFINE source == challenge[c].source
           target == challenge[c].target
<1>1. source \in User /\ target \in User
  BY ArchiveEnds
<1>2. identity' = Moved(source, target)
      /\ archive' = archive \union {[source |-> source, target |-> target]}
  BY DEF ArchiveAccount
<1>3. UNCHANGED <<pending, login>>
  BY DEF ArchiveAccount
<1>4. PICK D, X : /\ session' = WithoutSessions(D) /\ challenge' = WithoutRequests(D, X)
                  /\ prompt' = WithoutPrompts(D)
  BY DEF ArchiveAccount
<1> HIDE DEF source, target
<1>5. identity' \in [Sender \X User -> {"none", "active", "revoked"}]
  BY <1>1, <1>2, MovedIs
<1>6. \A s \in Sender : Known(s)' <=> Known(s)
  BY <1>1, <1>2, MovedKnown
<1>7. archive' \subseteq [source : User, target : User]
  BY <1>1, <1>2 DEF TInv, TypeOK, AccountsTypeOK
<1> QED
  BY <1>3, <1>4, <1>5, <1>6, <1>7, WithoutTypedAll

LEMMA LinkEnds ==
    ASSUME TInv, NEW c \in Challenge, ConsumeLink(c)
    PROVE  challenge[c].sender \in Sender /\ challenge[c].target \in User
<1>1. challenge[c] \in Row
  BY DEF TInv, TypeOK, AccountsTypeOK
<1>2. challenge[c].sender \in Sender
  BY <1>1 DEF Row, TInv, RowsOK, ConsumeLink, MayConsumeLink
<1>3. challenge[c].target \in User
  BY <1>1 DEF Row, ConsumeLink, MayConsumeLink, HoldsFresh, Holds
<1> QED
  BY <1>2, <1>3

LEMMA ConsumeLinkTyped ==
    ASSUME TInv, NEW c \in Challenge, ConsumeLink(c), UNCHANGED deliveryVars
    PROVE  TInv'
<1> DEFINE s == challenge[c].sender
           u == challenge[c].target
           r == Over(c)
<1>1. s \in Sender /\ u \in User
  BY LinkEnds
<1>2. identity' = [identity EXCEPT ![<<s, u>>] = "active"]
      /\ pending' = (IF Known(s) THEN pending ELSE pending \ {s})
  BY DEF ConsumeLink, LinkIdentity
<1>3. challenge' = [challenge EXCEPT ![c] = r] /\ UNCHANGED <<session, login, archive, prompt>>
  BY DEF ConsumeLink, Finished
<1>4. r \in Row /\ r.status = "closed"
  BY OverTyped
<1> HIDE DEF s, u, r
<1>5. challenge' \in [Challenge -> Row] /\ RowsOK'
  BY <1>3, <1>4, RowReplaced DEF Open
<1>6. AccountsTypeOK'
  BY <1>1, <1>2, <1>3, <1>5 DEF TInv, TypeOK, AccountsTypeOK
<1>7. \A x \in pending' : ~Known(x)'
  <2>1. \A x \in pending : ~Known(x) /\ x \in Sender
    BY DEF TInv, TypeOK, AccountsTypeOK
  <2>2. pending' \subseteq pending \ {s}
    BY <1>2, <2>1
  <2>3. \A x \in Sender, v \in User : x # s => identity'[<<x, v>>] = identity[<<x, v>>]
    BY <1>1, <1>2 DEF TInv, TypeOK, AccountsTypeOK
  <2> QED
    BY <2>1, <2>2, <2>3 DEF Known
<1> QED
  BY <1>3, <1>5, <1>6, <1>7 DEF TInv, TypeOK, deliveryVars

LEMMA ConsumeLoginTyped ==
    ASSUME TInv, NEW c \in Challenge, NEW u \in User, ConsumeLogin(c, u), UNCHANGED deliveryVars
    PROVE  TInv'
<1> DEFINE r == Over(c)
           l == [sender |-> challenge[c].sender, user |-> u, holder |-> challenge[c].holder]
<1>1. challenge' = [challenge EXCEPT ![c] = r] /\ login' = login \union {l}
      /\ UNCHANGED <<identity, pending, session, archive, prompt>>
  BY DEF ConsumeLogin, Finished
<1>2. r \in Row /\ r.status = "closed"
  BY OverTyped
<1>3. l \in [sender : Sender, user : User, holder : User \union {None}]
  <2>1. challenge[c] \in Row
    BY DEF TInv, TypeOK, AccountsTypeOK
  <2> QED
    BY <2>1 DEF Row, TInv, RowsOK, ConsumeLogin
<1> HIDE DEF r, l
<1>4. challenge' \in [Challenge -> Row] /\ RowsOK'
  BY <1>1, <1>2, RowReplaced DEF Open
<1>5. AccountsTypeOK'
  BY <1>1, <1>3, <1>4 DEF TInv, TypeOK, AccountsTypeOK
<1> QED
  BY <1>1, <1>4, <1>5, QuietTyped DEF deliveryVars

LEMMA AccountsTyped ==
    ASSUME TInv, AccountNext, UNCHANGED deliveryVars PROVE TInv'
<1>1. ASSUME NEW s \in Sender, RecordContact(s) PROVE TInv'
  <2>1. AccountsTypeOK' /\ RowsOK'
    BY <1>1 DEF RecordContact, TInv, TypeOK, AccountsTypeOK, RowsOK, Open
  <2>2. \A x \in pending' : ~Known(x)'
    BY <1>1 DEF RecordContact, TInv, TypeOK, Known
  <2> QED
    BY <1>1, <2>1, <2>2 DEF RecordContact, TInv, TypeOK, deliveryVars
<1>2. ASSUME NEW c \in Challenge, ExpireChallenge(c) PROVE TInv'
  <2> DEFINE r == Over(c)
  <2>1. challenge' = [challenge EXCEPT ![c] = r]
    BY <1>2 DEF ExpireChallenge, Finished
  <2>2. r \in Row /\ r.status = "closed"
    BY OverTyped
  <2> HIDE DEF r
  <2> QED
    BY <1>2, <2>1, <2>2, QuietRow DEF ExpireChallenge, Open
<1>3. ASSUME NEW l \in login, DropLogin(l) PROVE TInv'
  <2>1. AccountsTypeOK' /\ RowsOK'
    BY <1>3 DEF DropLogin, TInv, TypeOK, AccountsTypeOK, RowsOK, Open
  <2> QED
    BY <1>3, <2>1, QuietTyped DEF DropLogin, deliveryVars
<1>4. ASSUME NEW l \in login, NEW i \in SessionId, IssueSession(l, i) PROVE TInv'
  <2>1. AccountsTypeOK' /\ RowsOK'
    BY <1>4 DEF IssueSession, TInv, TypeOK, AccountsTypeOK, RowsOK, Open
  <2> QED
    BY <1>4, <2>1, QuietTyped DEF IssueSession, deliveryVars
<1>5. ASSUME DeviceNext PROVE TInv'
  BY <1>5, DeviceRowsTyped, ArchiveTyped DEF DeviceNext
<1> QED
  BY <1>1, <1>2, <1>3, <1>4, <1>5, BrowserTyped, SessionsTyped, RevokeTyped,
     ConsumeLinkTyped, ConsumeLoginTyped DEF AccountNext

-----------------------------------------------------------------------------
\* Types of the prompts.

PromptStatus == {"none", "queued", "dispatching", "sent", "uncertain",
                 "failed", "cancelled", "deleted"}
Recipients(p) ==
    \A c \in Challenge : p[c].sender = None <=> p[c].status \in {"none", "deleted"}

LEMMA PromptFields ==
    ASSUME NEW row \in PromptRow, NEW v \in PromptStatus, NEW b \in BOOLEAN
    PROVE  /\ [row EXCEPT !.status = v] \in PromptRow
           /\ [row EXCEPT !.status = v, !.lapsed = b] \in PromptRow
           /\ [row EXCEPT !.lapsed = b] \in PromptRow
  BY DEF PromptRow, PromptStatus

LEMMA RetiredTyped ==
    ASSUME TInv
    PROVE  /\ Retired \in [Challenge -> PromptRow]
           /\ \A c \in Challenge : /\ Retired[c].status = RetiredStatus(c)
                                   /\ Retired[c].sender = prompt[c].sender
           /\ Recipients(Retired)
<1>1. prompt \in [Challenge -> PromptRow] /\ Recipients(prompt)
  BY DEF TInv, TypeOK, AccountsTypeOK, Recipients
<1>2. \A c \in Challenge :
          RetiredStatus(c) \in PromptStatus
              /\ (RetiredStatus(c) \in {"none", "deleted"} <=> prompt[c].status \in {"none", "deleted"})
  BY <1>1 DEF RetiredStatus, PromptRow, PromptStatus
<1>3. ASSUME NEW c \in Challenge
      PROVE  Retired[c] \in PromptRow /\ Retired[c].status = RetiredStatus(c)
                 /\ Retired[c].sender = prompt[c].sender
  <2> DEFINE v == RetiredStatus(c)
             q == [prompt[c] EXCEPT !.status = v, !.lapsed = FALSE]
  <2>1. v \in PromptStatus
    BY <1>2
  <2>2. Retired[c] = IF v = prompt[c].status THEN prompt[c] ELSE q
    BY DEF Retired
  <2> HIDE DEF v
  <2>3. prompt[c] \in PromptRow
    BY <1>1
  <2>4. q \in PromptRow
    BY <2>1, <2>3, PromptFields
  <2>5. q.status = v /\ q.sender = prompt[c].sender
    BY <2>3 DEF PromptRow
  <2> HIDE DEF q
  <2> QED
    BY <2>2, <2>3, <2>4, <2>5 DEF v
<1>4. Retired \in [Challenge -> PromptRow]
  BY <1>3 DEF Retired
<1> QED
  BY <1>1, <1>2, <1>3, <1>4 DEF Recipients

\* What a claim or a settlement writes.
LEMMA StatusWritten ==
    ASSUME TInv, NEW c \in BrowserChallenge, NEW v \in PromptStatus \ {"none", "deleted"},
           RetiredStatus(c) \notin {"none", "deleted"},
           prompt' = [Retired EXCEPT ![c].status = v]
    PROVE  /\ prompt' \in [Challenge -> PromptRow] /\ Recipients(prompt')
           /\ prompt'[c].status = v
           /\ \A o \in Challenge : /\ prompt'[o].sender = prompt[o].sender
                                   /\ o # c => prompt'[o].status = RetiredStatus(o)
<1> DEFINE p == Retired
           row == [p[c] EXCEPT !.status = v]
<1>1. /\ p \in [Challenge -> PromptRow] /\ Recipients(p)
      /\ \A o \in Challenge : p[o].status = RetiredStatus(o) /\ p[o].sender = prompt[o].sender
  BY RetiredTyped
<1>2. prompt' = [p EXCEPT ![c] = row]
  OBVIOUS
<1> HIDE DEF p
<1>3. row \in PromptRow
  BY <1>1, PromptFields
<1>4. row.status = v /\ row.sender = p[c].sender
  BY <1>1 DEF PromptRow
<1> HIDE DEF row
<1>5. c \in Challenge
  BY DEF Challenge
<1>6. prompt' \in [Challenge -> PromptRow]
  BY <1>1, <1>2, <1>3
<1>7. prompt'[c] = row /\ \A o \in Challenge \ {c} : prompt'[o] = p[o]
  BY <1>1, <1>2, <1>5
<1>8. row.sender # None /\ row.status \notin {"none", "deleted"}
  BY <1>1, <1>4, <1>5 DEF Recipients
<1>9. Recipients(prompt')
  BY <1>1, <1>7, <1>8 DEF Recipients
<1>10. \A o \in Challenge : /\ prompt'[o].sender = prompt[o].sender
                            /\ o # c => prompt'[o].status = RetiredStatus(o)
  BY <1>1, <1>4, <1>7
<1> QED
  BY <1>4, <1>6, <1>7, <1>9, <1>10

LEMMA PromptsTyped ==
    ASSUME TInv, OnlyPrompt, prompt' \in [Challenge -> PromptRow], Recipients(prompt'),
           delivery' \in [BrowserChallenge -> {"idle", "claimed", "calling", "accepted",
                                               "rejected", "unsure"}],
           request' \in [BrowserChallenge -> {"none", "open", "over"}],
           copies' \in [BrowserChallenge -> 0 .. 2]
    PROVE  TInv'
<1>1. AccountsTypeOK'
  BY DEF TInv, TypeOK, AccountsTypeOK, OnlyPrompt
<1>2. RowsOK'
  BY DEF TInv, RowsOK, Open, OnlyPrompt
<1>3. \A s \in pending' : ~Known(s)'
  BY DEF TInv, TypeOK, Known, OnlyPrompt
<1> QED
  BY <1>1, <1>2, <1>3 DEF TInv, TypeOK, Recipients

LEMMA PrepareTyped ==
    ASSUME TInv, NEW c \in BrowserChallenge, NEW s \in Sender, Prepare(c, s) PROVE TInv'
<1> USE RetiredTyped
<1>1. CASE prompt' = [Retired EXCEPT ![c] = [status |-> "queued", sender |-> s, lapsed |-> FALSE]]
  <2> DEFINE q == [status |-> "queued", sender |-> s, lapsed |-> FALSE]
  <2>1. q \in PromptRow /\ q.status = "queued" /\ q.sender = s
    BY DEF PromptRow
  <2>2. prompt' = [Retired EXCEPT ![c] = q]
    BY <1>1
  <2> HIDE DEF q
  <2>3. prompt' \in [Challenge -> PromptRow] /\ Recipients(prompt')
    BY <2>1, <2>2 DEF Recipients
  <2> QED
    BY <2>3, PromptsTyped DEF Prepare, deliveryVars, TInv, TypeOK
<1>2. CASE prompt[c].sender = s
           /\ prompt' = IF RetiredStatus(c) = "queued" /\ ~Previewable(c, s)
                        THEN [Retired EXCEPT ![c].status = "cancelled"] ELSE Retired
  <2>1. prompt' \in [Challenge -> PromptRow] /\ Recipients(prompt')
    <3>1. CASE RetiredStatus(c) = "queued" /\ prompt' = [Retired EXCEPT ![c].status = "cancelled"]
      <4>1. "cancelled" \in PromptStatus \ {"none", "deleted"}
        BY DEF PromptStatus
      <4> QED
        BY <3>1, <4>1, StatusWritten
    <3>2. CASE prompt' = Retired
      BY <3>2
    <3> QED
      BY <1>2, <3>1, <3>2
  <2> QED
    BY <2>1, PromptsTyped DEF Prepare, deliveryVars, TInv, TypeOK
<1> QED
  BY <1>1, <1>2 DEF Prepare

ClaimedStatus(c, readable) ==
    IF RetiredStatus(c) # "queued" THEN RetiredStatus(c)
    ELSE IF ~readable THEN "failed"
    ELSE IF ~Previewable(c, prompt[c].sender) THEN "cancelled"
    ELSE "dispatching"

LEMMA ClaimWrites ==
    ASSUME TInv, NEW c \in BrowserChallenge, Claim(c)
    PROVE  /\ prompt[c].status = "queued"
           /\ \E v \in {"failed", "cancelled", "dispatching"} :
                  /\ prompt' = [Retired EXCEPT ![c].status = v]
                  /\ delivery' = IF v = "dispatching" THEN [delivery EXCEPT ![c] = "claimed"]
                                 ELSE delivery
                  /\ v = "dispatching" => Previewable(c, prompt[c].sender)
           /\ RetiredStatus(c) \in {"queued", "cancelled"}
           /\ OnlyPrompt /\ UNCHANGED <<request, copies>>
<1>1. RetiredStatus(c) \in {"queued", "cancelled"}
  BY DEF Claim, RetiredStatus
<1>2. PICK readable \in BOOLEAN :
          /\ prompt' = [Retired EXCEPT ![c].status = ClaimedStatus(c, readable)]
          /\ delivery' = IF ClaimedStatus(c, readable) = "dispatching"
                         THEN [delivery EXCEPT ![c] = "claimed"] ELSE delivery
  BY DEF Claim, ClaimedStatus
<1>3. /\ ClaimedStatus(c, readable) \in {"failed", "cancelled", "dispatching"}
      /\ ClaimedStatus(c, readable) = "dispatching" => Previewable(c, prompt[c].sender)
  BY <1>1 DEF ClaimedStatus
<1> QED
  BY <1>1, <1>2, <1>3 DEF Claim

LEMMA PromptStepTyped ==
    ASSUME TInv, PromptNext PROVE TInv'
<1> USE DEF TInv, TypeOK
<1>1. CASE Pending
  BY <1>1, RetiredTyped, PromptsTyped DEF Pending, deliveryVars
<1>2. ASSUME NEW c \in BrowserChallenge, Claim(c) PROVE TInv'
  <2>1. PICK v \in {"failed", "cancelled", "dispatching"} :
            /\ prompt' = [Retired EXCEPT ![c].status = v]
            /\ delivery' = IF v = "dispatching" THEN [delivery EXCEPT ![c] = "claimed"]
                           ELSE delivery
    BY <1>2, ClaimWrites
  <2>2. RetiredStatus(c) \in {"queued", "cancelled"} /\ OnlyPrompt /\ UNCHANGED <<request, copies>>
    BY <1>2, ClaimWrites
  <2>3. v \in PromptStatus \ {"none", "deleted"}
    BY DEF PromptStatus
  <2>4. prompt' \in [Challenge -> PromptRow] /\ Recipients(prompt')
    BY <2>1, <2>2, <2>3, StatusWritten
  <2> QED
    BY <2>1, <2>2, <2>4, PromptsTyped
<1>3. ASSUME NEW c \in BrowserChallenge, CheckLease(c) PROVE TInv'
  BY <1>3, RetiredTyped, PromptsTyped DEF CheckLease
<1>4. ASSUME NEW c \in BrowserChallenge, Settle(c) PROVE TInv'
  <2>1. Verdict(c) \in PromptStatus \ {"none", "deleted"}
    BY DEF Verdict, PromptStatus
  <2>2. prompt' = IF RetiredStatus(c) = "dispatching"
                  THEN [Retired EXCEPT ![c].status = Verdict(c)] ELSE Retired
    BY <1>4 DEF Settle
  <2>3. prompt' \in [Challenge -> PromptRow] /\ Recipients(prompt')
    <3>1. CASE prompt' = [Retired EXCEPT ![c].status = Verdict(c)] /\ RetiredStatus(c) = "dispatching"
      BY <2>1, <3>1, StatusWritten
    <3> QED
      BY <2>2, <3>1, RetiredTyped
  <2> QED
    BY <1>4, <2>3, PromptsTyped DEF Settle
<1>5. ASSUME NEW c \in BrowserChallenge, Lapse(c) PROVE TInv'
  <2> DEFINE q == [prompt[c] EXCEPT !.lapsed = TRUE]
  <2>0. prompt[c] \in PromptRow
    BY DEF AccountsTypeOK
  <2>1. q \in PromptRow /\ q.status = prompt[c].status /\ q.sender = prompt[c].sender
    <3>1. "queued" \in PromptStatus
      BY DEF PromptStatus
    <3>2. q \in PromptRow
      BY <2>0, <3>1, PromptFields
    <3> QED
      BY <2>0, <3>2 DEF PromptRow
  <2>2. prompt' = [prompt EXCEPT ![c] = q]
    BY <1>5 DEF Lapse
  <2> HIDE DEF q
  <2>3. prompt' \in [Challenge -> PromptRow] /\ Recipients(prompt')
    BY <2>1, <2>2 DEF AccountsTypeOK, Recipients
  <2> QED
    BY <1>5, <2>3, PromptsTyped DEF Lapse, deliveryVars
<1>6. ASSUME NEW c \in BrowserChallenge, Refuse(c) \/ Arrive(c) \/ Answer(c) \/ Crash(c)
      PROVE TInv'
  <2>1. UNCHANGED accountVars
    BY <1>6 DEF Refuse, Arrive, Answer, Crash
  <2>2. /\ delivery' \in [BrowserChallenge -> {"idle", "claimed", "calling", "accepted",
                                               "rejected", "unsure"}]
        /\ request' \in [BrowserChallenge -> {"none", "open", "over"}]
    BY <1>6 DEF Refuse, Arrive, Answer, Crash
  <2>3. copies' \in [BrowserChallenge -> 0 .. 2]
    BY <1>6 DEF Refuse, Arrive, Answer, Crash
  <2>4. prompt' \in [Challenge -> PromptRow] /\ Recipients(prompt') /\ OnlyPrompt
    BY <2>1 DEF accountVars, AccountsTypeOK, Recipients, OnlyPrompt
  <2> QED
    BY <2>2, <2>3, <2>4, PromptsTyped
<1> QED
  BY <1>1, <1>2, <1>3, <1>4, <1>5, <1>6, PrepareTyped DEF PromptNext

LEMMA Typed == Spec => []TInv
<1>1. TInv /\ [Next]_vars => TInv'
  <2> SUFFICES ASSUME TInv, [Next]_vars PROVE TInv'
    OBVIOUS
  <2>1. CASE AccountNext /\ UNCHANGED deliveryVars
    BY <2>1, AccountsTyped
  <2>2. CASE PromptNext
    BY <2>2, PromptStepTyped
  <2>3. CASE UNCHANGED vars
    BY <2>3 DEF vars, accountVars, deliveryVars, TInv, TypeOK, AccountsTypeOK, RowsOK, Open, Known
  <2> QED
    BY <2>1, <2>2, <2>3 DEF Next
<1> QED
  BY <1>1, InitTyped, PTL DEF Spec

\* Rows, sessions, prompts and deliveries keep within the states of the code; a prompt has
\* a recipient until it is deleted, and an address that waits was never linked
\* (server/accounts/, server/channel-auth/prompts.ts).
THEOREM TypeCorrect == Spec => []TypeOK
  BY Typed, PTL DEF TInv

-----------------------------------------------------------------------------
\* Addresses, sessions and logins.

LEMMA InitAddresses == PromptInit => AInv
<1> SUFFICES ASSUME PromptInit PROVE AInv
  OBVIOUS
<1>1. PICK owner \in [Sender -> ChannelFirstUser \union {None}] :
          identity = [row \in Sender \X User |->
                          IF owner[row[1]] = row[2] THEN "active" ELSE "none"]
  BY DEF PromptInit, Init
<1>2. \A s \in Sender, u \in User : Active(s, u) => owner[s] = u
  BY <1>1 DEF Active
<1>3. Sole
  BY <1>2 DEF Sole
<1>4. Left /\ Via /\ Consumed
  BY DEF PromptInit, Init, Left, Via, Consumed, NoSession
<1>5. Approved
  BY DEF PromptInit, Init, Approved, ApprovedRow, Blank
<1> QED
  BY <1>3, <1>4, <1>5 DEF AInv

\* A session that is kept, or is opened for an account that has the address.
SessionOK(i) ==
    session'[i].user # None =>
        \/ session'[i].user = session[i].user /\ session'[i].via = session[i].via
        \/ /\ \A a \in archive : session'[i].user # a.source
           /\ session'[i].via # None => Active(session'[i].via, session'[i].user)

LEMMA AddressesStay ==
    ASSUME AInv, UNCHANGED <<identity, archive>>,
           \A i \in SessionId : SessionOK(i),
           \A c \in Challenge : challenge'[c] = challenge[c] \/ ApprovedRow(challenge'[c]),
           \A l \in login' : Became(l.holder, l.user)
    PROVE  AInv'
<1>1. Sole'
  BY DEF AInv, Sole, Active
<1>2. Left' /\ Via'
  BY DEF AInv, Left, Via, Active, SessionOK
<1>3. Approved'
  BY DEF AInv, Approved, ApprovedRow, Known, Active, Became
<1>4. Consumed'
  BY DEF Consumed, Became
<1> QED
  BY <1>1, <1>2, <1>3, <1>4 DEF AInv

LEMMA OneChallenge ==
    ASSUME TInv, AInv, UNCHANGED <<identity, session, login, archive>>, NEW c \in Challenge,
           NEW r, challenge' = [challenge EXCEPT ![c] = r], ApprovedRow(r)
    PROVE  AInv'
<1>1. \A o \in Challenge : challenge'[o] = challenge[o] \/ ApprovedRow(challenge'[o])
  BY DEF TInv, TypeOK, AccountsTypeOK
<1>2. \A i \in SessionId : SessionOK(i)
  BY DEF SessionOK
<1>3. \A l \in login' : Became(l.holder, l.user)
  BY DEF AInv, Consumed
<1> QED
  BY <1>1, <1>2, <1>3, AddressesStay

LEMMA OwnerSole ==
    ASSUME Sole, NEW s \in Sender, NEW u \in User, Active(s, u)
    PROVE  Owner(s) = u /\ Linked(s) /\ Known(s)
  BY DEF Sole, Owner, Linked, Known, Active

LEMMA BrowserKeeps == ASSUME TInv, AInv, BrowserNext PROVE AInv'
<1>0. \A c \in Challenge : challenge[c] \in Row
  BY DEF TInv, TypeOK, AccountsTypeOK
<1>1. ASSUME NEW c \in BrowserChallenge, IssueLogin(c) PROVE AInv'
  <2> DEFINE r == [challenge[c] EXCEPT !.status = "open"]
  <2>1. challenge' = [challenge EXCEPT ![c] = r] /\ UNCHANGED <<identity, session, login, archive>>
    BY <1>1 DEF IssueLogin
  <2>2. r.status = "open"
    BY <1>0 DEF Row
  <2> HIDE DEF r
  <2> QED
    BY <2>1, <2>2, OneChallenge DEF ApprovedRow
<1>2. ASSUME NEW c \in BrowserChallenge, NEW i \in SessionId, IssueLink(c, i) PROVE AInv'
  <2> DEFINE r == [challenge[c] EXCEPT !.status = "open", !.purpose = "link",
                                       !.target = session[i].user, !.session = i]
  <2>1. challenge' = [challenge EXCEPT ![c] = r] /\ UNCHANGED <<identity, session, login, archive>>
    BY <1>2 DEF IssueLink
  <2>2. r.status = "open"
    BY <1>0 DEF Row
  <2> HIDE DEF r
  <2> QED
    BY <2>1, <2>2, OneChallenge DEF ApprovedRow
<1>3. ASSUME NEW c \in BrowserChallenge, NEW s \in Sender, Confirm(c, s) PROVE AInv'
  <2> DEFINE h == Owner(s)
             r == [challenge[c] EXCEPT !.status = "confirmed", !.sender = s, !.holder = h]
  <2>1. challenge' = [challenge EXCEPT ![c] = r] /\ UNCHANGED <<identity, session, login, archive>>
    BY <1>3 DEF Confirm
  <2>2. challenge[c].purpose = "login" => Linked(s)
    BY <1>3 DEF Confirm
  <2>3. \A u \in User : Active(s, u) => h = u /\ Known(s)
    BY OwnerSole DEF AInv
  <2> HIDE DEF h
  <2>4. r.sender = s /\ r.holder = h /\ r.purpose = challenge[c].purpose
    BY <1>0 DEF Row
  <2> HIDE DEF r
  <2>5. ApprovedRow(r)
    BY <2>2, <2>3, <2>4 DEF ApprovedRow, Linked, Became
  <2> QED
    BY <2>1, <2>5, OneChallenge
<1> QED
  BY <1>1, <1>2, <1>3 DEF BrowserNext

LEMMA DeviceRowsKeep ==
    ASSUME TInv, AInv, NEW c \in DeviceChallenge,
           \/ \E p \in {"login", "link"}, s \in Sender, u \in User : IssueDevice(c, p, s, u)
           \/ BindLogin(c) \/ \E i \in SessionId : BindLink(c, i)
           \/ ConfirmDevice(c)
    PROVE  AInv'
<1>0. challenge[c] \in Row
  BY DEF TInv, TypeOK, AccountsTypeOK
<1>1. ASSUME NEW p \in {"login", "link"}, NEW s \in Sender, NEW u \in User,
             IssueDevice(c, p, s, u)
      PROVE AInv'
  <2> DEFINE r == [challenge[c] EXCEPT !.status = "open", !.purpose = p, !.intended = <<s, u>>]
  <2>1. challenge' = [challenge EXCEPT ![c] = r] /\ UNCHANGED <<identity, session, login, archive>>
    BY <1>1 DEF IssueDevice
  <2>2. r.status = "open"
    BY <1>0 DEF Row
  <2> HIDE DEF r
  <2> QED
    BY <2>1, <2>2, OneChallenge DEF ApprovedRow
<1>2. ASSUME BindLogin(c) PROVE AInv'
  <2> DEFINE r == [challenge[c] EXCEPT !.bound = TRUE]
  <2>1. challenge' = [challenge EXCEPT ![c] = r] /\ UNCHANGED <<identity, session, login, archive>>
    BY <1>2 DEF BindLogin
  <2>2. r.status = "open"
    BY <1>0, <1>2 DEF Row, BindLogin, Bindable
  <2> HIDE DEF r
  <2> QED
    BY <2>1, <2>2, OneChallenge DEF ApprovedRow
<1>3. ASSUME NEW i \in SessionId, BindLink(c, i) PROVE AInv'
  <2> DEFINE v == IF session[i].user = challenge[c].intended[2] THEN None
                  ELSE challenge[c].intended[2]
             r == [challenge[c] EXCEPT !.bound = TRUE, !.target = session[i].user,
                                       !.session = i, !.source = v]
  <2>1. challenge' = [challenge EXCEPT ![c] = r] /\ UNCHANGED <<identity, session, login, archive>>
    BY <1>3 DEF BindLink
  <2> HIDE DEF v
  <2>2. r.status = "open"
    BY <1>0, <1>3 DEF Row, BindLink, Bindable
  <2> HIDE DEF r
  <2> QED
    BY <2>1, <2>2, OneChallenge DEF ApprovedRow
<1>4. ASSUME ConfirmDevice(c) PROVE AInv'
  <2> DEFINE pair == challenge[c].intended
             s == pair[1]
             h == pair[2]
             r == [challenge[c] EXCEPT !.status = "confirmed", !.sender = s, !.holder = h]
  <2>1. challenge' = [challenge EXCEPT ![c] = r]
    BY <1>4 DEF ConfirmDevice
  <2>2. UNCHANGED <<identity, session, login, archive>>
    BY <1>4 DEF ConfirmDevice
  <2>3. pair \in Sender \X User
    <3>1. Open(challenge[c])
      BY <1>4 DEF ConfirmDevice, Open
    <3>2. challenge[c].intended # None
      BY <3>1 DEF TInv, RowsOK
    <3> QED
      BY <1>0, <3>2 DEF Row
  <2>4. s \in Sender /\ h \in User /\ Active(s, h)
    BY <1>4, <2>3 DEF ConfirmDevice, Active
  <2> HIDE DEF s, h
  <2>5. \A u \in User : Active(s, u) => h = u
    BY <2>4 DEF AInv, Sole
  <2>6. Known(s)
    BY <2>4 DEF Known, Active
  <2>7. r.sender = s /\ r.holder = h
    BY <1>0 DEF Row
  <2> HIDE DEF r
  <2>8. ApprovedRow(r)
    BY <2>5, <2>6, <2>7 DEF ApprovedRow, Became
  <2> QED
    BY <2>1, <2>2, <2>8, OneChallenge
<1> QED
  BY <1>1, <1>2, <1>3, <1>4

LEMMA SessionsKeep == ASSUME TInv, AInv, SessionNext PROVE AInv'
<1>0. \A l \in login : Became(l.holder, l.user)
  BY DEF AInv, Consumed
<1>1. ASSUME NEW i \in SessionId, GrowStale(i) PROVE AInv'
  <2>1. \A o \in SessionId : SessionOK(o)
    BY <1>1 DEF GrowStale, SessionOK, TInv, TypeOK, AccountsTypeOK
  <2> QED
    BY <1>0, <1>1, <2>1, AddressesStay DEF GrowStale
<1>2. ASSUME NEW i \in SessionId, NEW u \in User, SignIn(u, i) PROVE AInv'
  <2>1. \A a \in archive : u # a.source
    BY <1>2 DEF SignIn, AInv, Left
  <2>2. \A o \in SessionId : SessionOK(o)
    BY <1>2, <2>1 DEF SignIn, SessionOK, TInv, TypeOK, AccountsTypeOK
  <2> QED
    BY <1>0, <1>2, <2>2, AddressesStay DEF SignIn
<1>3. ASSUME NEW i \in SessionId, EndSession(i) PROVE AInv'
  <2>1. \A o \in SessionId : SessionOK(o)
    BY <1>3 DEF EndSession, WithoutSessions, NoSession, SessionOK
  <2>2. \A c \in Challenge : challenge'[c] = challenge[c] \/ ApprovedRow(challenge'[c])
    BY <1>3, WithoutTyped DEF EndSession, ApprovedRow
  <2> QED
    BY <1>0, <1>3, <2>1, <2>2, AddressesStay DEF EndSession
<1> QED
  BY <1>1, <1>2, <1>3 DEF SessionNext

LEMMA LoginsKeep ==
    ASSUME TInv, AInv,
           \/ \E c \in Challenge : ExpireChallenge(c) \/ \E u \in User : ConsumeLogin(c, u)
           \/ \E l \in login : DropLogin(l) \/ \E i \in SessionId : IssueSession(l, i)
    PROVE  AInv'
<1>0. \A l \in login : Became(l.holder, l.user)
  BY DEF AInv, Consumed
<1>1. ASSUME NEW c \in Challenge, ExpireChallenge(c) PROVE AInv'
  <2> DEFINE r == Over(c)
  <2>1. challenge' = [challenge EXCEPT ![c] = r] /\ UNCHANGED <<identity, session, login, archive>>
    BY <1>1 DEF ExpireChallenge, Finished
  <2>2. r.status = "closed"
    BY OverTyped
  <2> HIDE DEF r
  <2> QED
    BY <2>1, <2>2, OneChallenge DEF ApprovedRow
<1>2. ASSUME NEW c \in Challenge, NEW u \in User, ConsumeLogin(c, u) PROVE AInv'
  <2> DEFINE r == Over(c)
             l == [sender |-> challenge[c].sender, user |-> u, holder |-> challenge[c].holder]
  <2>1. challenge' = [challenge EXCEPT ![c] = r] /\ UNCHANGED <<identity, session, archive>>
        /\ login' = login \union {l}
    BY <1>2 DEF ConsumeLogin, Finished
  <2>2. r.status = "closed"
    BY OverTyped
  <2>3. Became(l.holder, l.user)
    BY <1>2 DEF ConsumeLogin, AInv, Approved, ApprovedRow
  <2> HIDE DEF r, l
  <2>4. \A o \in Challenge : challenge'[o] = challenge[o] \/ ApprovedRow(challenge'[o])
    BY <2>1, <2>2 DEF ApprovedRow, TInv, TypeOK, AccountsTypeOK
  <2>5. \A i \in SessionId : SessionOK(i)
    BY <2>1 DEF SessionOK
  <2> QED
    BY <1>0, <2>1, <2>3, <2>4, <2>5, AddressesStay
<1>3. ASSUME NEW l \in login, DropLogin(l) PROVE AInv'
  BY <1>0, <1>3, AddressesStay DEF DropLogin, SessionOK
<1>4. ASSUME NEW l \in login, NEW i \in SessionId, IssueSession(l, i) PROVE AInv'
  <2>1. l.sender \in Sender /\ l.user \in User
    BY DEF TInv, TypeOK, AccountsTypeOK
  <2>2. \A a \in archive : l.user # a.source
    BY <1>4, <2>1 DEF IssueSession, AInv, Left
  <2>3. \A o \in SessionId : SessionOK(o)
    BY <1>4, <2>2 DEF IssueSession, SessionOK, TInv, TypeOK, AccountsTypeOK
  <2> QED
    BY <1>0, <1>4, <2>3, AddressesStay DEF IssueSession
<1> QED
  BY <1>1, <1>2, <1>3, <1>4

\* A link either finds the address at the account already, or is its first.
LEMMA LinkIs ==
    ASSUME TInv, AInv, NEW c \in Challenge, ConsumeLink(c)
    PROVE  LET s == challenge[c].sender
               u == challenge[c].target
           IN  /\ UNCHANGED <<session, login, archive>>
               /\ \A a \in archive : u # a.source
               /\ \/ UNCHANGED identity
                  \/ ~Known(s) /\ identity' = [identity EXCEPT ![<<s, u>>] = "active"]
<1> DEFINE s == challenge[c].sender
           u == challenge[c].target
<1>1. s \in Sender /\ u \in User
  BY LinkEnds
<1>2. /\ NotInactive(s) /\ (Linked(s) => Active(s, u))
      /\ identity' = [identity EXCEPT ![<<s, u>>] = "active"]
      /\ UNCHANGED <<session, login, archive>>
  BY DEF ConsumeLink, LinkIdentity
<1>3. \A a \in archive : u # a.source
  <2>1. challenge[c].session \in SessionId /\ session[challenge[c].session].user = u
    BY DEF ConsumeLink, MayConsumeLink, HoldsFresh, Holds, TInv, TypeOK, AccountsTypeOK, Row
  <2> QED
    BY <2>1 DEF AInv, Left
<1> HIDE DEF s, u
<1>4. CASE Known(s)
  <2>1. identity[<<s, u>>] = "active"
    BY <1>2, <1>4 DEF NotInactive, Active
  <2>2. identity' = identity
    BY <1>1, <1>2, <2>1 DEF TInv, TypeOK, AccountsTypeOK
  <2> QED
    BY <1>2, <1>3, <2>2 DEF s, u
<1>5. CASE ~Known(s)
  BY <1>2, <1>3, <1>5 DEF s, u
<1> QED
  BY <1>4, <1>5

LEMMA LinkKeeps == ASSUME TInv, AInv, NEW c \in Challenge, ConsumeLink(c) PROVE AInv'
<1> DEFINE s == challenge[c].sender
           u == challenge[c].target
<1>1. s \in Sender /\ u \in User
  BY LinkEnds
<1>2. /\ UNCHANGED <<session, login, archive>>
      /\ \A a \in archive : u # a.source
      /\ \/ UNCHANGED identity
         \/ ~Known(s) /\ identity' = [identity EXCEPT ![<<s, u>>] = "active"]
  BY LinkIs
<1>3. \A o \in Challenge : challenge'[o] = challenge[o] \/ challenge'[o].status = "closed"
  BY OverTyped DEF ConsumeLink, Finished, TInv, TypeOK, AccountsTypeOK
<1> HIDE DEF s, u
<1>4. CASE UNCHANGED identity
  <2>1. \A l \in login : Became(l.holder, l.user)
    BY DEF AInv, Consumed
  <2> QED
    BY <1>2, <1>3, <1>4, <2>1, AddressesStay DEF SessionOK, ApprovedRow
<1>5. CASE ~Known(s) /\ identity' = [identity EXCEPT ![<<s, u>>] = "active"]
  <2>1. \A x \in Sender, v \in User :
            identity'[<<x, v>>] = IF x = s /\ v = u THEN "active" ELSE identity[<<x, v>>]
    BY <1>1, <1>5 DEF TInv, TypeOK, AccountsTypeOK
  <2>2. Sole'
    <3>1. \A v \in User : identity[<<s, v>>] = "none"
      BY <1>5 DEF Known
    <3>2. \A x \in Sender, v \in User :
              Active(x, v)' <=> Active(x, v) \/ (x = s /\ v = u)
      BY <2>1 DEF Active
    <3>3. \A v \in User : ~Active(s, v)
      BY <3>1 DEF Active
    <3> QED
      BY <3>2, <3>3 DEF AInv, Sole
  <2>3. Left'
    BY <1>1, <1>2, <2>1 DEF AInv, Left, Active, TInv, TypeOK, AccountsTypeOK
  <2>4. Via'
    BY <1>1, <1>2, <2>1 DEF AInv, Via, Active, TInv, TypeOK, AccountsTypeOK
  <2>5. Approved'
    <3> SUFFICES ASSUME NEW o \in Challenge, challenge'[o].status = "confirmed",
                        challenge'[o].purpose = "login"
                 PROVE  /\ Known(challenge[o].sender)'
                        /\ \A v \in User : Active(challenge[o].sender, v)' =>
                                               Became(challenge[o].holder, v)'
      BY <1>3 DEF Approved, ApprovedRow
    <3> DEFINE x == challenge[o].sender
    <3>1. challenge'[o] = challenge[o]
      BY <1>3
    <3>2. /\ Known(x)
          /\ \A v \in User : Active(x, v) => Became(challenge[o].holder, v)
      BY <3>1 DEF AInv, Approved, ApprovedRow
    <3>3. x \in Sender
      BY <3>1 DEF TInv, TypeOK, AccountsTypeOK, RowsOK, Row
    <3>4. x # s
      BY <1>5, <3>2
    <3> HIDE DEF x
    <3>5. \A v \in User : identity'[<<x, v>>] = identity[<<x, v>>]
      BY <2>1, <3>3, <3>4
    <3> QED
      BY <1>2, <3>1, <3>2, <3>5 DEF Known, Active, Became, x
  <2>6. Consumed'
    BY <1>2 DEF AInv, Consumed, Became
  <2> QED
    BY <2>2, <2>3, <2>4, <2>5, <2>6 DEF AInv
<1> QED
  BY <1>2, <1>4, <1>5

LEMMA RevokeKeeps ==
    ASSUME TInv, AInv, NEW s \in Sender, NEW u \in User, RevokeIdentity(s, u)
    PROVE  AInv'
<1>1. \A x \in Sender, v \in User :
          identity'[<<x, v>>] = IF x = s /\ v = u THEN "revoked" ELSE identity[<<x, v>>]
  BY DEF RevokeIdentity, TInv, TypeOK, AccountsTypeOK
<1>2. UNCHANGED <<login, archive>>
  BY DEF RevokeIdentity
<1>3. \A i \in SessionId : \/ session'[i] = NoSession
                           \/ session'[i] = session[i] /\ session[i].user # u
  BY DEF RevokeIdentity, WithoutSessions, SessionsOf
<1>4. \A o \in Challenge : challenge'[o] = challenge[o] \/ challenge'[o].status = "closed"
  BY WithoutTyped DEF RevokeIdentity
<1>5. Sole'
  BY <1>1 DEF AInv, Sole, Active
<1>6. Left'
  BY <1>1, <1>2, <1>3 DEF AInv, Left, Active, NoSession, TInv, TypeOK, AccountsTypeOK
<1>7. Via'
  BY <1>1, <1>3 DEF AInv, Via, Active, NoSession, TInv, TypeOK, AccountsTypeOK
<1>8. Approved'
  <2> SUFFICES ASSUME NEW o \in Challenge, challenge'[o].status = "confirmed",
                      challenge'[o].purpose = "login"
               PROVE  /\ Known(challenge[o].sender)'
                      /\ \A v \in User : Active(challenge[o].sender, v)' =>
                                             Became(challenge[o].holder, v)'
    BY <1>4 DEF Approved, ApprovedRow
  <2> DEFINE x == challenge[o].sender
  <2>1. challenge'[o] = challenge[o]
    BY <1>4
  <2>2. /\ Known(x)
        /\ \A v \in User : Active(x, v) => Became(challenge[o].holder, v)
    BY <2>1 DEF AInv, Approved, ApprovedRow
  <2>3. x \in Sender
    BY <2>1 DEF TInv, TypeOK, AccountsTypeOK, RowsOK, Row
  <2> HIDE DEF x
  <2>4. \E v \in User : identity'[<<x, v>>] # "none"
    BY <1>1, <2>2, <2>3 DEF Known
  <2>5. \A v \in User : identity'[<<x, v>>] = "active" => Active(x, v)
    BY <1>1, <2>3 DEF Active
  <2> QED
    BY <1>2, <2>1, <2>2, <2>4, <2>5 DEF Known, Active, Became, x
<1>9. Consumed'
  BY <1>2 DEF AInv, Consumed, Became
<1> QED
  BY <1>5, <1>6, <1>7, <1>8, <1>9 DEF AInv

LEMMA ArchiveKeeps ==
    ASSUME TInv, AInv, NEW c \in DeviceChallenge, ArchiveAccount(c) PROVE AInv'
<1> DEFINE source == challenge[c].source
           target == challenge[c].target
           new == [source |-> source, target |-> target]
<1>1. source \in User /\ target \in User /\ source # target
  BY ArchiveEnds
<1>2. /\ identity' = Moved(source, target) /\ archive' = archive \union {new}
      /\ Archivable(source, target) /\ UNCHANGED login
  BY DEF ArchiveAccount
<1>3. \A i \in SessionId : \/ session'[i] = NoSession
                           \/ session'[i] = session[i] /\ session[i].user # source
  BY DEF ArchiveAccount, WithoutSessions, SessionsOf
<1>4. \A o \in Challenge : challenge'[o] = challenge[o] \/ challenge'[o].status = "closed"
  BY WithoutTyped DEF ArchiveAccount
<1>5. new.source = source /\ new.target = target
  OBVIOUS
<1>6. /\ source \in ChannelFirstUser
      /\ \A a \in archive : a.source # source /\ a.source # target /\ a.target # source
  BY <1>2 DEF Archivable
<1> HIDE DEF source, target
<1>7. \A s \in Sender, u \in User :
          Active(s, u)' <=> /\ u # source
                            /\ Active(s, u) \/ (u = target /\ Active(s, source))
  BY <1>1, <1>2, MovedActive
<1> HIDE DEF new
<1>8. Sole'
  BY <1>1, <1>7 DEF AInv, Sole
<1>9. Left'
  <2> SUFFICES ASSUME NEW a \in archive'
               PROVE  /\ a.source \in ChannelFirstUser
                      /\ \A s \in Sender : ~Active(s, a.source)'
                      /\ \A i \in SessionId : session'[i].user # a.source
                      /\ \A b \in archive' : b.target # a.source
    BY DEF Left
  <2>1. a.source \in User /\ a.source # target /\ a.source \in ChannelFirstUser
    BY <1>1, <1>2, <1>5, <1>6 DEF AInv, Left
  <2>2. a.source = source \/ a \in archive
    BY <1>2, <1>5
  <2>3. \A s \in Sender : ~Active(s, a.source)'
    BY <1>7, <2>1, <2>2 DEF AInv, Left
  <2>4. \A i \in SessionId : session'[i].user # a.source
    BY <1>1, <1>3, <2>1, <2>2 DEF AInv, Left, NoSession
  <2>5. \A b \in archive' : b.target # a.source
    BY <1>2, <1>5, <1>6, <2>1, <2>2 DEF AInv, Left
  <2> QED
    BY <2>1, <2>3, <2>4, <2>5
<1>10. Via'
  <2> SUFFICES ASSUME NEW i \in SessionId, session'[i].user # None, session'[i].via # None
               PROVE  Active(session[i].via, session[i].user)' /\ session'[i] = session[i]
    BY DEF Via
  <2>1. session'[i] = session[i] /\ session[i].user # source
    BY <1>3 DEF NoSession
  <2>2. session[i].user \in User /\ session[i].via \in Sender
    BY <2>1 DEF TInv, TypeOK, AccountsTypeOK
  <2>3. Active(session[i].via, session[i].user)
    BY <2>1 DEF AInv, Via
  <2> DEFINE s == session[i].via
             u == session[i].user
  <2>4. s \in Sender /\ u \in User /\ u # source /\ Active(s, u)
    BY <2>1, <2>2, <2>3
  <2> HIDE DEF s, u
  <2>5. identity'[<<s, u>>] = "active"
    BY <1>7, <2>4 DEF Active
  <2> QED
    BY <2>1, <2>5 DEF Active, s, u
<1>11. ASSUME NEW h, NEW u \in User, Became(h, u) PROVE Became(h, u)'
  BY <1>2, <1>11 DEF Became
<1>12. Approved'
  <2> SUFFICES ASSUME NEW o \in Challenge, challenge'[o].status = "confirmed",
                      challenge'[o].purpose = "login"
               PROVE  /\ Known(challenge[o].sender)'
                      /\ \A v \in User : Active(challenge[o].sender, v)' =>
                                             Became(challenge[o].holder, v)'
    BY <1>4 DEF Approved, ApprovedRow
  <2> DEFINE x == challenge[o].sender
             h == challenge[o].holder
  <2>1. challenge'[o] = challenge[o]
    BY <1>4
  <2>2. Known(x) /\ \A v \in User : Active(x, v) => Became(h, v)
    BY <2>1 DEF AInv, Approved, ApprovedRow
  <2>3. x \in Sender
    BY <2>1 DEF TInv, TypeOK, AccountsTypeOK, RowsOK, Row
  <2> HIDE DEF x, h
  <2>4. \E v \in User : identity'[<<x, v>>] # "none"
    BY <1>1, <1>2, <2>2, <2>3, MovedKnown DEF Known
  <2>5. ASSUME NEW v \in User, identity'[<<x, v>>] = "active"
        PROVE  h = v \/ [source |-> h, target |-> v] \in archive'
    <3>1. CASE Active(x, v)
      BY <1>2, <2>2, <3>1 DEF Became
    <3>2. CASE v = target /\ Active(x, source)
      <4>1. h = source \/ [source |-> h, target |-> source] \in archive
        BY <1>1, <2>2, <3>2 DEF Became
      <4>2. h = source
        BY <1>6, <4>1
      <4> QED
        BY <1>2, <3>2, <4>2 DEF new
    <3> QED
      BY <1>7, <2>3, <2>5, <3>1, <3>2 DEF Active
  <2> QED
    BY <2>1, <2>4, <2>5 DEF Known, Active, Became, x, h
<1>13. Consumed'
  BY <1>2 DEF AInv, Consumed, Became
<1> QED
  BY <1>8, <1>9, <1>10, <1>12, <1>13 DEF AInv

LEMMA AccountsKeep == ASSUME TInv, AInv, AccountNext PROVE AInv'
<1>1. ASSUME NEW s \in Sender, RecordContact(s) PROVE AInv'
  <2>1. \A l \in login : Became(l.holder, l.user)
    BY DEF AInv, Consumed
  <2> QED
    BY <1>1, <2>1, AddressesStay DEF RecordContact, SessionOK
<1>2. CASE DeviceNext
  BY <1>2, DeviceRowsKeep, ArchiveKeeps DEF DeviceNext
<1> QED
  BY <1>1, <1>2, BrowserKeeps, SessionsKeep, RevokeKeeps, LinkKeeps, LoginsKeep
     DEF AccountNext

LEMMA PromptsKeep == ASSUME AInv, OnlyPrompt \/ UNCHANGED accountVars PROVE AInv'
<1>1. UNCHANGED <<identity, session, challenge, login, archive>>
  BY DEF OnlyPrompt, accountVars
<1>2. \A l \in login : Became(l.holder, l.user)
  BY DEF AInv, Consumed
<1> QED
  BY <1>1, <1>2, AddressesStay DEF SessionOK

\* What the steps of a prompt leave alone.
LEMMA PromptsOnly == PromptNext => OnlyPrompt \/ UNCHANGED accountVars
  BY DEF PromptNext, Pending, Prepare, Claim, CheckLease, Refuse, Arrive, Answer, Settle,
         Crash, Lapse

LEMMA Addressed == Spec => []AInv
<1>1. TInv /\ AInv /\ [Next]_vars => AInv'
  <2> SUFFICES ASSUME TInv, AInv, [Next]_vars PROVE AInv'
    OBVIOUS
  <2>1. CASE AccountNext
    BY <2>1, AccountsKeep
  <2>2. CASE PromptNext
    BY <2>2, PromptsKeep, PromptsOnly
  <2>3. CASE UNCHANGED vars
    BY <2>3, PromptsKeep DEF vars
  <2> QED
    BY <2>1, <2>2, <2>3 DEF Next
<1> QED
  BY <1>1, InitAddresses, Typed, PTL DEF Spec

\* A session from a messenger is of an account that still has the address, an archived
\* account has none, and a login opens the account that confirmed it or the one it was
\* archived into (server/accounts/index.ts, device.ts, archive-transfer.ts).
THEOREM SessionsFollow == Spec => []SessionsFollowAddresses
<1>1. TInv /\ AInv => SessionsFollowAddresses
  <2> SUFFICES ASSUME TInv, AInv PROVE SessionsFollowAddresses
    OBVIOUS
  <2>1. ASSUME NEW i \in SessionId, session[i].user # None
        PROVE  /\ session[i].via # None => Active(session[i].via, session[i].user)
               /\ \A a \in archive : session[i].user # a.source
    BY <2>1 DEF AInv, Via, Left
  <2>2. \A l \in login :
            l.holder = l.user \/ [source |-> l.holder, target |-> l.user] \in archive
    BY DEF AInv, Consumed, Became
  <2> QED
    BY <2>1, <2>2 DEF SessionsFollowAddresses
<1> QED
  BY <1>1, Typed, Addressed, PTL

-----------------------------------------------------------------------------
\* The promise of an address.

LEMMA HeldPairs ==
    /\ Holdings \subseteq Sender \X User
    /\ \A s \in Sender, u \in User : <<s, u>> \in Holdings <=> Active(s, u)
  BY DEF Holdings, Active

LEMMA HeldPairsNext ==
    /\ Holdings' \subseteq Sender \X User
    /\ \A s \in Sender, u \in User : <<s, u>> \in Holdings' <=> Active(s, u)'
  BY DEF Holdings, Active

LEMMA AddressesStutter ==
    ASSUME UNCHANGED <<identity, archive>> PROVE UNCHANGED Promise!promiseVars
  BY DEF Promise!promiseVars, Holdings, KnownAddresses, Known

LEMMA LinkImplements ==
    ASSUME TInv, AInv, NEW c \in Challenge, ConsumeLink(c)
    PROVE  Promise!Next \/ UNCHANGED Promise!promiseVars
<1>1. PICK s \in Sender, u \in User : s = challenge[c].sender /\ u = challenge[c].target
  BY LinkEnds
<1>2. /\ UNCHANGED archive
      /\ \A a \in archive : u # a.source
      /\ \/ UNCHANGED identity
         \/ ~Known(s) /\ identity' = [identity EXCEPT ![<<s, u>>] = "active"]
  BY <1>1, LinkIs
<1>3. CASE UNCHANGED identity
  BY <1>2, <1>3, AddressesStutter
<1>4. CASE ~Known(s) /\ identity' = [identity EXCEPT ![<<s, u>>] = "active"]
  <2>1. \A x \in Sender, v \in User :
            identity'[<<x, v>>] = IF x = s /\ v = u THEN "active" ELSE identity[<<x, v>>]
    BY <1>1, <1>4 DEF TInv, TypeOK, AccountsTypeOK
  <2>2. Holdings' = Holdings \union {<<s, u>>}
    <3>1. \A x \in Sender, v \in User : Active(x, v)' <=> Active(x, v) \/ (x = s /\ v = u)
      BY <2>1 DEF Active
    <3> QED
      BY <3>1, HeldPairs, HeldPairsNext
  <2>3. KnownAddresses' = KnownAddresses \union {s}
    <3>1. Known(s)'
      BY <2>1 DEF Known
    <3>2. \A x \in Sender : x # s => (Known(x)' <=> Known(x))
      BY <2>1 DEF Known
    <3> QED
      BY <3>1, <3>2 DEF KnownAddresses
  <2>4. s \notin KnownAddresses /\ u \notin Promise!Archived
    BY <1>2, <1>4 DEF KnownAddresses, Promise!Archived
  <2>5. Promise!Link(s, u)
    BY <1>2, <2>2, <2>3, <2>4 DEF Promise!Link
  <2> QED
    BY <2>5 DEF Promise!Next
<1> QED
  BY <1>2, <1>3, <1>4

LEMMA RevokeImplements ==
    ASSUME TInv, AInv, NEW s \in Sender, NEW u \in User, RevokeIdentity(s, u)
    PROVE  Promise!Next
<1>1. \A x \in Sender, v \in User :
          identity'[<<x, v>>] = IF x = s /\ v = u THEN "revoked" ELSE identity[<<x, v>>]
  BY DEF RevokeIdentity, TInv, TypeOK, AccountsTypeOK
<1>2. UNCHANGED archive /\ Active(s, u)
  BY DEF RevokeIdentity
<1>3. PICK other \in Sender \ {s} : Active(other, u)
  BY DEF RevokeIdentity
<1>4. Holdings' = Holdings \ {<<s, u>>}
  <2>1. \A x \in Sender, v \in User : Active(x, v)' <=> Active(x, v) /\ ~(x = s /\ v = u)
    BY <1>1 DEF Active
  <2> QED
    BY <2>1, HeldPairs, HeldPairsNext
<1>5. KnownAddresses' = KnownAddresses
  <2>1. \A x \in Sender : Known(x)' <=> Known(x)
    BY DEF RevokeIdentity, Known, Active, TInv, TypeOK, AccountsTypeOK
  <2> QED
    BY <2>1 DEF KnownAddresses
<1>6. {x \in Sender : <<x, u>> \in Holdings} # {s}
  BY <1>3, HeldPairs
<1>7. Promise!Retire(s, u)
  BY <1>2, <1>4, <1>5, <1>6, HeldPairs
     DEF Promise!Retire, Promise!AddressesOf
<1> QED
  BY <1>7 DEF Promise!Next

LEMMA ArchiveImplements ==
    ASSUME TInv, AInv, NEW c \in DeviceChallenge, ArchiveAccount(c)
    PROVE  Promise!Next
<1>1. PICK source \in User, target \in User :
          source = challenge[c].source /\ target = challenge[c].target /\ source # target
  BY ArchiveEnds
<1> DEFINE Addresses == {x \in Sender : <<x, source>> \in Holdings}
<1>2. /\ identity' = Moved(source, target)
      /\ archive' = archive \union {[source |-> source, target |-> target]}
      /\ Archivable(source, target)
  BY <1>1 DEF ArchiveAccount
<1>3. challenge[c].sender \in Sender /\ Active(challenge[c].sender, source)
  BY <1>1, ArchiveEnds DEF ArchiveAccount
<1>4. \A a \in archive : a.source \notin {source, target} /\ a.target # source
  BY <1>2 DEF Archivable
<1>6. \A s \in Sender, u \in User :
          Active(s, u)' <=> /\ u # source
                            /\ Active(s, u) \/ (u = target /\ Active(s, source))
  BY <1>1, <1>2, MovedActive
<1>7. Holdings' = {r \in Holdings : r[2] # source} \union (Addresses \X {target})
  BY <1>1, <1>6, HeldPairs, HeldPairsNext
<1>8. KnownAddresses' = KnownAddresses
  BY <1>1, <1>2, MovedKnown DEF KnownAddresses
<1>9. Addresses # {}
  BY <1>1, <1>3, HeldPairs
<1>10. Promise!Move(source, target)
  <2>1. target \notin Promise!Archived /\ \A a \in archive : source \notin {a.source, a.target}
    BY <1>4 DEF Promise!Archived
  <2> QED
    BY <1>1, <1>2, <1>7, <1>8, <1>9, <2>1 DEF Promise!Move, Promise!AddressesOf
<1> QED
  BY <1>10 DEF Promise!Next

LEMMA AccountsImplement ==
    ASSUME TInv, AInv, AccountNext PROVE Promise!Next \/ UNCHANGED Promise!promiseVars
<1>1. CASE BrowserNext
  BY <1>1, AddressesStutter DEF BrowserNext, IssueLogin, IssueLink, Confirm
<1>2. CASE SessionNext
  BY <1>2, AddressesStutter DEF SessionNext, GrowStale, EndSession, SignIn
<1>3. CASE DeviceNext
  BY <1>3, AddressesStutter, ArchiveImplements
     DEF DeviceNext, IssueDevice, BindLogin, BindLink, ConfirmDevice
<1>4. ASSUME NEW s \in Sender, RecordContact(s) \/ \E u \in User : RevokeIdentity(s, u)
      PROVE  Promise!Next \/ UNCHANGED Promise!promiseVars
  BY <1>4, AddressesStutter, RevokeImplements DEF RecordContact
<1>5. ASSUME NEW c \in Challenge,
             ExpireChallenge(c) \/ ConsumeLink(c) \/ \E u \in User : ConsumeLogin(c, u)
      PROVE  Promise!Next \/ UNCHANGED Promise!promiseVars
  BY <1>5, AddressesStutter, LinkImplements DEF ExpireChallenge, ConsumeLogin
<1>6. ASSUME NEW l \in login, DropLogin(l) \/ \E i \in SessionId : IssueSession(l, i)
      PROVE  Promise!Next \/ UNCHANGED Promise!promiseVars
  BY <1>6, AddressesStutter DEF DropLogin, IssueSession
<1> QED
  BY <1>1, <1>2, <1>3, <1>4, <1>5, <1>6 DEF AccountNext

\* Linking, revoking and archiving implement the abstract address, for every set of
\* addresses and accounts: one account, moved only by archiving it as a whole once, never
\* back after its revocation, and never the last one revoked.
THEOREM AddressesKeepPromise == Spec => KeepsPromise
<1>1. PromptInit => Promise!Init
  <2> SUFFICES ASSUME PromptInit PROVE Promise!Init
    OBVIOUS
  <2>1. PICK owner \in [Sender -> ChannelFirstUser \union {None}] :
            identity = [row \in Sender \X User |->
                            IF owner[row[1]] = row[2] THEN "active" ELSE "none"]
    BY DEF PromptInit, Init
  <2>2. \A s \in Sender, u \in User : identity[<<s, u>>] = "active" <=> owner[s] = u
    BY <2>1
  <2>3. \A s \in Sender, u \in User : identity[<<s, u>>] # "none" <=> owner[s] = u
    BY <2>1
  <2>4. \A s \in Sender : Known(s) <=> owner[s] \in User
    BY <2>3 DEF Known
  <2> DEFINE o == [s \in KnownAddresses |-> owner[s]]
  <2>5. o \in [KnownAddresses -> User]
    BY <2>4 DEF KnownAddresses
  <2>6. Holdings = {<<s, o[s]>> : s \in KnownAddresses}
    BY <2>2, <2>4 DEF Holdings, KnownAddresses
  <2>7. archive = {} /\ KnownAddresses \subseteq Sender
    BY DEF PromptInit, Init, KnownAddresses
  <2> HIDE DEF o
  <2> QED
    BY <2>5, <2>6, <2>7 DEF Promise!Init
<1>2. TInv /\ AInv /\ [Next]_vars => [Promise!Next]_(Promise!promiseVars)
  <2> SUFFICES ASSUME TInv, AInv, [Next]_vars
               PROVE  Promise!Next \/ UNCHANGED Promise!promiseVars
    OBVIOUS
  <2>1. CASE AccountNext
    BY <2>1, AccountsImplement
  <2>2. CASE PromptNext
    BY <2>2, PromptsOnly, AddressesStutter DEF OnlyPrompt, accountVars
  <2>3. CASE UNCHANGED vars
    BY <2>3, AddressesStutter DEF vars, accountVars
  <2> QED
    BY <2>1, <2>2, <2>3 DEF Next
<1> QED
  BY <1>1, <1>2, Typed, Addressed, PTL DEF Spec, KeepsPromise, Promise!Spec

-----------------------------------------------------------------------------
\* Prompts.

\* What the accounts do to a prompt and to the challenge it asks.
PromptKept ==
    \A c \in BrowserChallenge :
        /\ \/ prompt'[c] = prompt[c]
           \/ prompt'[c].status = "deleted" /\ prompt'[c].sender = None
        /\ challenge'[c].status = "confirmed" =>
               \/ challenge'[c] = challenge[c]
               \/ prompt[c].sender \in {None, challenge'[c].sender}

LEMMA RowsKeepPrompts ==
    ASSUME TInv, NEW c \in Challenge, NEW r, challenge' = [challenge EXCEPT ![c] = r],
           r.status # "confirmed" \/ c \in DeviceChallenge, UNCHANGED prompt
    PROVE  PromptKept
  BY DEF PromptKept, TInv, TypeOK, AccountsTypeOK

LEMMA DeletionsKeepPrompts ==
    ASSUME TInv, NEW D, NEW X, challenge' = WithoutRequests(D, X), prompt' = WithoutPrompts(D)
    PROVE  PromptKept
  BY WithoutTyped DEF PromptKept

LEMMA AccountsKeepPrompts == ASSUME TInv, AccountNext PROVE PromptKept
<1>0. \A c \in Challenge : challenge[c] \in Row
  BY DEF TInv, TypeOK, AccountsTypeOK
<1>1. ASSUME NEW c \in BrowserChallenge, IssueLogin(c) PROVE PromptKept
  <2> DEFINE r == [challenge[c] EXCEPT !.status = "open"]
  <2>1. challenge' = [challenge EXCEPT ![c] = r] /\ UNCHANGED prompt
    BY <1>1 DEF IssueLogin
  <2>2. r.status = "open"
    BY <1>0 DEF Row
  <2> HIDE DEF r
  <2> QED
    BY <2>1, <2>2, RowsKeepPrompts
<1>2. ASSUME NEW c \in BrowserChallenge, NEW i \in SessionId, IssueLink(c, i) PROVE PromptKept
  <2> DEFINE r == [challenge[c] EXCEPT !.status = "open", !.purpose = "link",
                                       !.target = session[i].user, !.session = i]
  <2>1. challenge' = [challenge EXCEPT ![c] = r] /\ UNCHANGED prompt
    BY <1>2 DEF IssueLink
  <2>2. r.status = "open"
    BY <1>0 DEF Row
  <2> HIDE DEF r
  <2> QED
    BY <2>1, <2>2, RowsKeepPrompts
<1>3. ASSUME NEW c \in BrowserChallenge, NEW s \in Sender, Confirm(c, s) PROVE PromptKept
  <2> DEFINE h == Owner(s)
             r == [challenge[c] EXCEPT !.status = "confirmed", !.sender = s, !.holder = h]
  <2>1. challenge' = [challenge EXCEPT ![c] = r] /\ UNCHANGED prompt
    BY <1>3 DEF Confirm
  <2>2. prompt[c].sender \in {None, s}
    BY <1>3 DEF Confirm
  <2> HIDE DEF h
  <2>3. r.sender = s
    BY <1>0 DEF Row
  <2> HIDE DEF r
  <2> QED
    BY <2>1, <2>2, <2>3 DEF PromptKept, TInv, TypeOK, AccountsTypeOK
<1>4. ASSUME NEW c \in DeviceChallenge,
             \/ \E p \in {"login", "link"}, s \in Sender, u \in User : IssueDevice(c, p, s, u)
             \/ BindLogin(c) \/ \E i \in SessionId : BindLink(c, i)
             \/ ConfirmDevice(c)
      PROVE  PromptKept
  <2>1. \A o \in BrowserChallenge : challenge'[o] = challenge[o]
    BY <1>4 DEF IssueDevice, BindLogin, BindLink, ConfirmDevice, TInv, TypeOK, AccountsTypeOK
  <2>2. UNCHANGED prompt
    BY <1>4 DEF IssueDevice, BindLogin, BindLink, ConfirmDevice
  <2> QED
    BY <2>1, <2>2 DEF PromptKept
<1>5. ASSUME NEW c \in Challenge,
             ExpireChallenge(c) \/ ConsumeLink(c) \/ \E u \in User : ConsumeLogin(c, u)
      PROVE  PromptKept
  <2> DEFINE r == Over(c)
  <2>1. challenge' = [challenge EXCEPT ![c] = r] /\ UNCHANGED prompt
    BY <1>5 DEF ExpireChallenge, ConsumeLink, ConsumeLogin, Finished
  <2>2. r.status = "closed"
    BY OverTyped
  <2> HIDE DEF r
  <2> QED
    BY <2>1, <2>2, RowsKeepPrompts
<1>6. ASSUME NEW c \in DeviceChallenge, ArchiveAccount(c) PROVE PromptKept
  BY <1>6, DeletionsKeepPrompts DEF ArchiveAccount
<1>7. ASSUME NEW s \in Sender, NEW u \in User, RevokeIdentity(s, u) PROVE PromptKept
  BY <1>7, DeletionsKeepPrompts DEF RevokeIdentity
<1>8. ASSUME NEW i \in SessionId, EndSession(i) PROVE PromptKept
  BY <1>8, DeletionsKeepPrompts DEF EndSession
<1>9. ASSUME UNCHANGED <<challenge, prompt>> PROVE PromptKept
  BY <1>9 DEF PromptKept
<1>10. ASSUME NEW i \in SessionId, GrowStale(i) \/ \E u \in User : SignIn(u, i)
       PROVE  PromptKept
  BY <1>9, <1>10 DEF GrowStale, SignIn
<1>11. ASSUME NEW l \in login, DropLogin(l) \/ \E i \in SessionId : IssueSession(l, i)
       PROVE  PromptKept
  BY <1>9, <1>11 DEF DropLogin, IssueSession
<1>12. ASSUME NEW s \in Sender, RecordContact(s) PROVE PromptKept
  BY <1>9, <1>12 DEF RecordContact
<1>13. CASE BrowserNext
  BY <1>1, <1>2, <1>3, <1>13 DEF BrowserNext
<1>14. CASE DeviceNext
  BY <1>4, <1>6, <1>14 DEF DeviceNext
<1>15. CASE SessionNext
  BY <1>8, <1>10, <1>15 DEF SessionNext
<1> QED
  BY <1>5, <1>7, <1>11, <1>12, <1>13, <1>14, <1>15 DEF AccountNext

LEMMA AccountsKeepTruth ==
    ASSUME TInv, PInv, AccountNext, UNCHANGED deliveryVars PROVE PInv'
<1>1. PromptKept
  BY AccountsKeepPrompts
<1>2. Calls'
  BY DEF PInv, Calls, deliveryVars
<1>3. Statuses'
  BY <1>1 DEF PInv, Statuses, Agrees, PromptKept, deliveryVars
<1>4. Answered'
  BY <1>1 DEF PInv, Answered, PromptKept
<1> QED
  BY <1>2, <1>3, <1>4 DEF PInv

\* A step of the prompt of c retires others at most.
LEMMA OnePrompt ==
    ASSUME TInv, PInv, UNCHANGED challenge, NEW c \in BrowserChallenge,
           \A o \in BrowserChallenge \ {c} :
               /\ prompt'[o].status \in {prompt[o].status, RetiredStatus(o)}
               /\ delivery'[o] = delivery[o] /\ request'[o] = request[o] /\ copies'[o] = copies[o],
           \A o \in BrowserChallenge :
               prompt'[o].sender = prompt[o].sender \/ challenge[o].status # "confirmed",
           Agrees(prompt'[c].status, delivery'[c], request'[c]),
           CallOK(delivery'[c], request'[c], copies'[c])
    PROVE  PInv'
<1>1. Calls'
  BY DEF PInv, Calls
<1>2. \A o \in BrowserChallenge :
          Agrees(prompt[o].status, delivery[o], request[o]) =>
              Agrees(RetiredStatus(o), delivery[o], request[o])
  BY DEF Agrees, RetiredStatus
<1>3. Statuses'
  BY <1>2 DEF PInv, Statuses
<1>4. Answered'
  BY DEF PInv, Answered
<1> QED
  BY <1>1, <1>3, <1>4 DEF PInv

LEMMA RetireAgrees ==
    ASSUME PInv, NEW c \in BrowserChallenge
    PROVE  Agrees(RetiredStatus(c), delivery[c], request[c])
  BY DEF PInv, Statuses, Agrees, RetiredStatus

LEMMA PrepareKeeps ==
    ASSUME TInv, PInv, NEW c \in BrowserChallenge, NEW s \in Sender, Prepare(c, s) PROVE PInv'
<1>0. UNCHANGED challenge /\ UNCHANGED <<delivery, request, copies>>
  BY DEF Prepare, OnlyPrompt, deliveryVars
<1>1. Agrees(prompt[c].status, delivery[c], request[c]) /\ CallOK(delivery[c], request[c], copies[c])
  BY DEF PInv, Statuses, Calls
<1>2. CASE /\ prompt[c].status = "none" /\ Previewable(c, s)
           /\ prompt' = [Retired EXCEPT ![c] = [status |-> "queued", sender |-> s, lapsed |-> FALSE]]
  <2> DEFINE q == [status |-> "queued", sender |-> s, lapsed |-> FALSE]
  <2>1. prompt' = [Retired EXCEPT ![c] = q] /\ q.status = "queued"
    BY <1>2
  <2> HIDE DEF q
  <2>2. prompt'[c].status = "queued" /\ \A o \in Challenge \ {c} : prompt'[o] = Retired[o]
    BY <2>1, RetiredTyped
  <2>3. challenge[c].status = "open"
    BY <1>2 DEF Previewable
  <2>4. Agrees(prompt'[c].status, delivery'[c], request'[c])
    BY <1>0, <1>1, <1>2, <2>2 DEF Agrees
  <2>5. \A o \in BrowserChallenge :
            /\ prompt'[o].sender = prompt[o].sender \/ challenge[o].status # "confirmed"
            /\ o # c => prompt'[o].status = RetiredStatus(o)
    BY <2>2, <2>3, RetiredTyped
  <2> QED
    BY <1>0, <1>1, <2>4, <2>5, OnePrompt
<1>3. CASE prompt' = Retired
  <2>1. \A o \in BrowserChallenge :
            prompt'[o].sender = prompt[o].sender /\ prompt'[o].status = RetiredStatus(o)
    BY <1>3, RetiredTyped
  <2> QED
    BY <1>0, <1>1, <2>1, RetireAgrees, OnePrompt
<1>4. CASE RetiredStatus(c) = "queued" /\ prompt' = [Retired EXCEPT ![c].status = "cancelled"]
  <2>1. "cancelled" \in PromptStatus \ {"none", "deleted"}
    BY DEF PromptStatus
  <2>2. /\ prompt'[c].status = "cancelled"
        /\ \A o \in Challenge : /\ prompt'[o].sender = prompt[o].sender
                                /\ o # c => prompt'[o].status = RetiredStatus(o)
    BY <1>4, <2>1, StatusWritten
  <2>3. Agrees(prompt'[c].status, delivery'[c], request'[c])
    BY <1>0, <1>4, <2>2, RetireAgrees DEF Agrees
  <2> QED
    BY <1>0, <1>1, <2>2, <2>3, OnePrompt
<1> QED
  BY <1>2, <1>3, <1>4 DEF Prepare

LEMMA ClaimKeeps == ASSUME TInv, PInv, NEW c \in BrowserChallenge, Claim(c) PROVE PInv'
<1>1. Agrees(prompt[c].status, delivery[c], request[c]) /\ CallOK(delivery[c], request[c], copies[c])
  BY DEF PInv, Statuses, Calls
<1>2. PICK v \in {"failed", "cancelled", "dispatching"} :
          /\ prompt' = [Retired EXCEPT ![c].status = v]
          /\ delivery' = IF v = "dispatching" THEN [delivery EXCEPT ![c] = "claimed"] ELSE delivery
  BY ClaimWrites
<1>3. /\ prompt[c].status = "queued" /\ RetiredStatus(c) \in {"queued", "cancelled"}
      /\ UNCHANGED challenge /\ UNCHANGED <<request, copies>>
  BY ClaimWrites DEF OnlyPrompt
<1>4. v \in PromptStatus \ {"none", "deleted"}
  BY DEF PromptStatus
<1>5. /\ prompt'[c].status = v
      /\ \A o \in Challenge : /\ prompt'[o].sender = prompt[o].sender
                              /\ o # c => prompt'[o].status = RetiredStatus(o)
  BY <1>2, <1>3, <1>4, StatusWritten
<1>6. /\ delivery'[c] = IF v = "dispatching" THEN "claimed" ELSE delivery[c]
      /\ \A o \in BrowserChallenge \ {c} : delivery'[o] = delivery[o]
  BY <1>2 DEF TInv, TypeOK
<1>7. Agrees(prompt'[c].status, delivery'[c], request'[c])
  BY <1>1, <1>3, <1>5, <1>6 DEF Agrees
<1>8. CallOK(delivery'[c], request'[c], copies'[c])
  BY <1>1, <1>3, <1>6 DEF CallOK, Agrees
<1> QED
  BY <1>3, <1>5, <1>6, <1>7, <1>8, OnePrompt

LEMMA CheckLeaseKeeps ==
    ASSUME TInv, PInv, NEW c \in BrowserChallenge, CheckLease(c) PROVE PInv'
<1>1. Agrees(RetiredStatus(c), delivery[c], request[c]) /\ CallOK(delivery[c], request[c], copies[c])
  BY RetireAgrees DEF PInv, Calls
<1>2. prompt' = Retired /\ delivery[c] = "claimed" /\ UNCHANGED challenge /\ UNCHANGED copies
  BY DEF CheckLease, OnlyPrompt
<1>3. \A o \in BrowserChallenge :
          prompt'[o].sender = prompt[o].sender /\ prompt'[o].status = RetiredStatus(o)
  BY <1>2, RetiredTyped
<1>4. \/ delivery' = [delivery EXCEPT ![c] = "calling"] /\ request' = [request EXCEPT ![c] = "open"]
         /\ RetiredStatus(c) = "dispatching"
      \/ delivery' = [delivery EXCEPT ![c] = "idle"] /\ UNCHANGED request
  BY DEF CheckLease
<1>5. \A o \in BrowserChallenge \ {c} : delivery'[o] = delivery[o] /\ request'[o] = request[o]
  BY <1>4 DEF TInv, TypeOK
<1>6. \/ delivery'[c] = "calling" /\ request'[c] = "open" /\ RetiredStatus(c) = "dispatching"
      \/ delivery'[c] = "idle" /\ request'[c] = request[c]
  BY <1>4 DEF TInv, TypeOK
<1>7. Agrees(prompt'[c].status, delivery'[c], request'[c])
  BY <1>1, <1>3, <1>6 DEF Agrees
<1>8. CallOK(delivery'[c], request'[c], copies'[c])
  BY <1>1, <1>2, <1>6 DEF CallOK
<1> QED
  BY <1>2, <1>3, <1>5, <1>7, <1>8, OnePrompt

LEMMA SettleKeeps == ASSUME TInv, PInv, NEW c \in BrowserChallenge, Settle(c) PROVE PInv'
<1>1. Agrees(RetiredStatus(c), delivery[c], request[c]) /\ CallOK(delivery[c], request[c], copies[c])
  BY RetireAgrees DEF PInv, Calls
<1>2. /\ delivery[c] \in {"accepted", "rejected", "unsure"}
      /\ delivery' = [delivery EXCEPT ![c] = "idle"]
      /\ UNCHANGED challenge /\ UNCHANGED <<request, copies>>
  BY DEF Settle, OnlyPrompt
<1>3. delivery'[c] = "idle" /\ \A o \in BrowserChallenge \ {c} : delivery'[o] = delivery[o]
  BY <1>2 DEF TInv, TypeOK
<1>4. CallOK(delivery'[c], request'[c], copies'[c])
  BY <1>1, <1>2, <1>3 DEF CallOK
<1>5. CASE prompt' = Retired
  <2>1. \A o \in BrowserChallenge :
            prompt'[o].sender = prompt[o].sender /\ prompt'[o].status = RetiredStatus(o)
    BY <1>5, RetiredTyped
  <2>2. Agrees(prompt'[c].status, delivery'[c], request'[c])
    BY <1>1, <1>2, <1>3, <2>1 DEF Agrees
  <2> QED
    BY <1>2, <1>3, <1>4, <2>1, <2>2, OnePrompt
<1>6. CASE RetiredStatus(c) = "dispatching" /\ prompt' = [Retired EXCEPT ![c].status = Verdict(c)]
  <2>1. Verdict(c) \in PromptStatus \ {"none", "deleted"}
    BY DEF Verdict, PromptStatus
  <2>2. /\ prompt'[c].status = Verdict(c)
        /\ \A o \in Challenge : /\ prompt'[o].sender = prompt[o].sender
                                /\ o # c => prompt'[o].status = RetiredStatus(o)
    BY <1>6, <2>1, StatusWritten
  <2>3. Agrees(prompt'[c].status, delivery'[c], request'[c])
    BY <1>1, <1>2, <1>3, <2>2 DEF Verdict, Agrees, CallOK
  <2> QED
    BY <1>2, <1>3, <1>4, <2>2, <2>3, OnePrompt
<1> QED
  BY <1>5, <1>6 DEF Settle

\* The steps outside of a transaction: the provider, its answer, and a crash.
LEMMA CallKeeps ==
    ASSUME TInv, PInv, NEW c \in BrowserChallenge, Refuse(c) \/ Arrive(c) \/ Answer(c) \/ Crash(c)
    PROVE  PInv'
<1>1. Agrees(prompt[c].status, delivery[c], request[c]) /\ CallOK(delivery[c], request[c], copies[c])
  BY DEF PInv, Statuses, Calls
<1>2. UNCHANGED challenge /\ UNCHANGED prompt
  BY DEF Refuse, Arrive, Answer, Crash, accountVars
<1>3. \A o \in BrowserChallenge \ {c} :
          delivery'[o] = delivery[o] /\ request'[o] = request[o] /\ copies'[o] = copies[o]
  BY DEF Refuse, Arrive, Answer, Crash, TInv, TypeOK
<1>4. CASE Refuse(c)
  <2>1. delivery[c] = "claimed" /\ delivery'[c] = "rejected" /\ UNCHANGED <<request, copies>>
    BY <1>4 DEF Refuse, TInv, TypeOK
  <2> QED
    BY <1>1, <1>2, <1>3, <2>1, OnePrompt DEF Agrees, CallOK
<1>5. CASE Arrive(c)
  <2>1. request[c] = "open" /\ request'[c] = "over" /\ UNCHANGED delivery
    BY <1>5 DEF Arrive, TInv, TypeOK
  <2>2. copies[c] = 0
    BY <1>1, <2>1 DEF CallOK
  <2>3. copies'[c] = 1
    BY <1>5, <2>2 DEF Arrive, TInv, TypeOK
  <2>4. Agrees(prompt'[c].status, delivery'[c], request'[c])
    BY <1>1, <1>2, <2>1 DEF Agrees
  <2>5. CallOK(delivery'[c], request'[c], copies'[c])
    BY <1>1, <2>1, <2>3 DEF CallOK
  <2> QED
    BY <1>2, <1>3, <2>4, <2>5, OnePrompt
<1>6. CASE Answer(c)
  <2>1. /\ delivery[c] = "calling" /\ UNCHANGED copies
        /\ \/ request[c] = "over" /\ delivery'[c] = "accepted" /\ request'[c] = request[c]
           \/ request[c] = "open" /\ request'[c] = "none" /\ delivery'[c] \in {"rejected", "idle"}
           \/ delivery'[c] = "unsure" /\ request'[c] = request[c]
    BY <1>6 DEF Answer, TInv, TypeOK
  <2>2. Agrees(prompt'[c].status, delivery'[c], request'[c])
    BY <1>1, <1>2, <2>1 DEF Agrees
  <2>3. CallOK(delivery'[c], request'[c], copies'[c])
    BY <1>1, <2>1 DEF CallOK
  <2> QED
    BY <1>2, <1>3, <2>2, <2>3, OnePrompt
<1>7. CASE Crash(c)
  <2>1. delivery'[c] = "idle" /\ UNCHANGED <<request, copies>>
    BY <1>7 DEF Crash, TInv, TypeOK
  <2> QED
    BY <1>1, <1>2, <1>3, <2>1, OnePrompt DEF Agrees, CallOK
<1> QED
  BY <1>4, <1>5, <1>6, <1>7

LEMMA PromptsKeepTruth == ASSUME TInv, PInv, PromptNext PROVE PInv'
<1>1. CASE Pending
  <2>1. UNCHANGED challenge /\ UNCHANGED <<delivery, request, copies>> /\ prompt' = Retired
    BY <1>1 DEF Pending, OnlyPrompt, deliveryVars
  <2>2. \A o \in BrowserChallenge :
            prompt'[o].sender = prompt[o].sender /\ prompt'[o].status = RetiredStatus(o)
    BY <2>1, RetiredTyped
  <2>3. Calls' /\ Answered'
    BY <2>1, <2>2 DEF PInv, Calls, Answered
  <2>4. Statuses'
    BY <2>1, <2>2, RetireAgrees DEF Statuses
  <2> QED
    BY <2>3, <2>4 DEF PInv
<1>2. ASSUME NEW c \in BrowserChallenge, Lapse(c) PROVE PInv'
  <2> DEFINE q == [prompt[c] EXCEPT !.lapsed = TRUE]
  <2>1. UNCHANGED challenge /\ UNCHANGED <<delivery, request, copies>>
    BY <1>2 DEF Lapse, OnlyPrompt, deliveryVars
  <2>2. q.status = prompt[c].status /\ q.sender = prompt[c].sender
    BY DEF TInv, TypeOK, AccountsTypeOK, PromptRow
  <2>3. prompt' = [prompt EXCEPT ![c] = q]
    BY <1>2 DEF Lapse
  <2> HIDE DEF q
  <2>4. \A o \in BrowserChallenge :
            prompt'[o].sender = prompt[o].sender /\ prompt'[o].status = prompt[o].status
    BY <2>2, <2>3 DEF TInv, TypeOK, AccountsTypeOK
  <2> QED
    BY <2>1, <2>4 DEF PInv, Calls, Statuses, Answered
<1> QED
  BY <1>1, <1>2, PrepareKeeps, ClaimKeeps, CheckLeaseKeeps, SettleKeeps, CallKeeps DEF PromptNext

\* A challenge asks once, only the recipient of its prompt answers, and the prompt's status
\* is true of the message, whatever dies, lapses, arrives late or is deleted meanwhile
\* (server/channel-auth/prompts.ts, server/channels/dispatch.ts).
THEOREM PromptsTellTheTruth == Spec => []PromptTellsTheTruth
<1>1. PromptInit => PInv
  BY DEF PromptInit, Init, PInv, Calls, CallOK, Statuses, Agrees, Answered, NoPrompt
<1>2. TInv /\ PInv /\ [Next]_vars => PInv'
  <2> SUFFICES ASSUME TInv, PInv, [Next]_vars PROVE PInv'
    OBVIOUS
  <2>1. CASE AccountNext /\ UNCHANGED deliveryVars
    BY <2>1, AccountsKeepTruth
  <2>2. CASE PromptNext
    BY <2>2, PromptsKeepTruth
  <2>3. CASE UNCHANGED vars
    BY <2>3 DEF vars, accountVars, deliveryVars, PInv, Calls, Statuses, Answered
  <2> QED
    BY <2>1, <2>2, <2>3 DEF Next
<1>3. PInv => PromptTellsTheTruth
  BY DEF PInv, Calls, CallOK, Statuses, Agrees, Answered, PromptTellsTheTruth
<1> QED
  BY <1>1, <1>2, <1>3, Typed, PTL DEF Spec
================================================================================
