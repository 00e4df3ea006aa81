------------------------------ MODULE TaskPromise ------------------------------
(***************************************************************************)
(* What the agent network promises of a task, whatever delivers, cancels   *)
(* or revokes it: it ends at most once, an outcome is told in the room     *)
(* only after it exists, and a revoked grant says nothing more.            *)
(***************************************************************************)
CONSTANT Task

VARIABLES
    fate,     \* "absent", "open", "completed", "failed", "cancelled" or "gone"
    posted,   \* tasks whose outcome the Matrix room shows
    revoked   \* the grant is revoked or deleted

promiseVars == <<fate, posted, revoked>>

Outcome == {"completed", "failed"}

Init == fate = [t \in Task |-> "absent"] /\ posted = {} /\ revoked = FALSE

Accept(t) ==
    /\ fate[t] = "absent" /\ ~revoked
    /\ fate' = [fate EXCEPT ![t] = "open"]
    /\ UNCHANGED <<posted, revoked>>

End(t) ==
    /\ fate[t] = "open"
    /\ \E outcome \in Outcome \union {"cancelled"} : fate' = [fate EXCEPT ![t] = outcome]
    /\ UNCHANGED <<posted, revoked>>

Post(t) ==
    /\ fate[t] \in Outcome /\ ~revoked
    /\ posted' = posted \union {t}
    /\ UNCHANGED <<fate, revoked>>

\* Revoking leaves nothing open; deleting leaves nothing at all.
Revoke ==
    /\ revoked' = TRUE
    /\ \/ fate' = [t \in Task |-> IF fate[t] = "open" THEN "cancelled" ELSE fate[t]]
       \/ fate' = [t \in Task |-> IF fate[t] = "absent" THEN "absent" ELSE "gone"]
    /\ UNCHANGED posted

Next == (\E t \in Task : Accept(t) \/ End(t) \/ Post(t)) \/ Revoke

Spec == Init /\ [][Next]_promiseVars
================================================================================
