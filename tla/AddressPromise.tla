---------------------------- MODULE AddressPromise ----------------------------
(***************************************************************************)
(* What the accounts promise of a messenger address, whatever links,       *)
(* revokes or archives: it stands for one account at most; it changes      *)
(* hands only when the account is archived as a whole, once and into an    *)
(* account that was not; a revoked address stands for nobody again; and    *)
(* revoking leaves the account another address.                            *)
(***************************************************************************)
CONSTANTS Sender, User

VARIABLES
    holds,    \* pairs of an address and the account that it stands for
    known,    \* addresses that were linked once
    archive   \* pairs of an archived account and the account it went into

promiseVars == <<holds, known, archive>>

Archived == {a.source : a \in archive}
AddressesOf(u) == {s \in Sender : <<s, u>> \in holds}

Init ==
    /\ known \subseteq Sender
    /\ \E owner \in [known -> User] : holds = {<<s, owner[s]>> : s \in known}
    /\ archive = {}

Link(s, u) ==
    /\ s \notin known /\ u \notin Archived
    /\ holds' = holds \union {<<s, u>>}
    /\ known' = known \union {s}
    /\ UNCHANGED archive

Retire(s, u) ==
    /\ <<s, u>> \in holds /\ AddressesOf(u) # {s}
    /\ holds' = holds \ {<<s, u>>}
    /\ UNCHANGED <<known, archive>>

Move(u, t) ==
    /\ AddressesOf(u) # {} /\ u # t /\ t \notin Archived
    /\ \A a \in archive : u \notin {a.source, a.target}
    /\ holds' = {r \in holds : r[2] # u} \union (AddressesOf(u) \X {t})
    /\ archive' = archive \union {[source |-> u, target |-> t]}
    /\ UNCHANGED known

Next ==
    \/ \E s \in Sender, u \in User : Link(s, u) \/ Retire(s, u)
    \/ \E u, t \in User : Move(u, t)

Spec == Init /\ [][Next]_promiseVars
================================================================================
