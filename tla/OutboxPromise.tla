---------------------------- MODULE OutboxPromise ----------------------------
(***************************************************************************)
(* What the outbound lane of one channel identity promises to whoever      *)
(* enqueued a message and to the person who reads the conversation.        *)
(*                                                                         *)
(* A message has a fate, the copies of it that the provider put into the   *)
(* conversation, and the permits to put one there: one comes with the      *)
(* message, and each further one is an operator's acknowledged             *)
(* "duplicate_delivery_risk_accepted".  An operator may also vouch for a   *)
(* delivery nobody saw.  The lane itself promises:                         *)
(*   - no message is delivered more often than it has permits;             *)
(*   - no message is delivered before every earlier one is settled;        *)
(*   - "sent" means delivered, or vouched for;                             *)
(*   - "failed" means not delivered, unless a duplicate was permitted;     *)
(*   - a settled message stays settled.                                    *)
(* "cancelled" promises nothing about copies: the message may have been on *)
(* its way.                                                                *)
(***************************************************************************)
EXTENDS Naturals

CONSTANT Message   \* a set of numbers, in the order the messages are enqueued

VARIABLES fate, copies, permits, vouched

vars == <<fate, copies, permits, vouched>>

Settled == {"sent", "failed", "cancelled"}

Init ==
    /\ fate = [m \in Message |-> "absent"]
    /\ copies = [m \in Message |-> 0]
    /\ permits = [m \in Message |-> 0]
    /\ vouched = {}

\* A text is enqueued whole: all its messages at once.
Accept(text) ==
    /\ \A m \in text : fate[m] = "absent"
    /\ fate' = [m \in Message |-> IF m \in text THEN "open" ELSE fate[m]]
    /\ permits' = [m \in Message |-> IF m \in text THEN 1 ELSE permits[m]]
    /\ UNCHANGED <<copies, vouched>>

Deliver(m) ==
    /\ copies[m] < permits[m]
    /\ fate[m] = "failed" => permits[m] > 1
    /\ \A earlier \in Message : earlier < m => fate[earlier] \in Settled
    /\ copies' = [copies EXCEPT ![m] = @ + 1]
    /\ UNCHANGED <<fate, permits, vouched>>

Settle(m, verdict) ==
    /\ fate[m] = "open"
    /\ verdict = "sent" => copies[m] > 0
    /\ verdict = "failed" => copies[m] = 0 \/ permits[m] > 1
    /\ fate' = [fate EXCEPT ![m] = verdict]
    /\ UNCHANGED <<copies, permits, vouched>>

Vouch(m) ==
    /\ fate[m] = "open"
    /\ fate' = [fate EXCEPT ![m] = "sent"]
    /\ vouched' = vouched \union {m}
    /\ UNCHANGED <<copies, permits>>

Cancel(dropped) ==
    /\ \A m \in dropped : fate[m] = "open"
    /\ fate' = [m \in Message |-> IF m \in dropped THEN "cancelled" ELSE fate[m]]
    /\ UNCHANGED <<copies, permits, vouched>>

Permit(m) ==
    /\ fate[m] = "open"
    /\ permits' = [permits EXCEPT ![m] = @ + 1]
    /\ UNCHANGED <<fate, copies, vouched>>

Next ==
    \/ \E some \in SUBSET Message : Accept(some) \/ Cancel(some)
    \/ \E m \in Message : Deliver(m) \/ Vouch(m) \/ Permit(m)
    \/ \E m \in Message, verdict \in {"sent", "failed"} : Settle(m, verdict)

Spec == Init /\ [][Next]_vars
=============================================================================
