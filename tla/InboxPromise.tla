----------------------------- MODULE InboxPromise -----------------------------
(***************************************************************************)
(* What the inbound lane promises: of the events a provider posts, each    *)
(* arrives once, and is heard by Eve at most once, in the order of arrival *)
(* of its identity.  It ends recorded as accepted, which only a heard one  *)
(* may, or refused, and then Eve never hears it.                           *)
(***************************************************************************)
EXTENDS Naturals

CONSTANTS Slot, Event, NoEvent, Lane

VARIABLES
    event,   \* the event that arrived as the n-th
    lane,    \* the identity it arrived for
    fate     \* "absent", "waiting", "heard", "recorded" or "refused"

vars == <<event, lane, fate>>

Init ==
    /\ event = [n \in Slot |-> NoEvent]
    /\ lane = [n \in Slot |-> 0]   \* no identity yet
    /\ fate = [n \in Slot |-> "absent"]

Arrive(n, e, i) ==
    /\ fate[n] = "absent" /\ \A m \in Slot : m < n => fate[m] # "absent"
    /\ \A m \in Slot : event[m] # e
    /\ event' = [event EXCEPT ![n] = e]
    /\ lane' = [lane EXCEPT ![n] = i]
    /\ fate' = [fate EXCEPT ![n] = "waiting"]

Becomes(n, f) == fate' = [fate EXCEPT ![n] = f] /\ UNCHANGED <<event, lane>>

Hear(n) ==
    /\ fate[n] = "waiting"
    /\ \A m \in Slot : m < n /\ lane[m] = lane[n] => fate[m] \in {"recorded", "refused"}
    /\ Becomes(n, "heard")

Record(n) == fate[n] = "heard" /\ Becomes(n, "recorded")

Refuse(n) == fate[n] = "waiting" /\ Becomes(n, "refused")

Next == \E n \in Slot :
    \/ \E e \in Event, i \in Lane : Arrive(n, e, i)
    \/ Hear(n) \/ Record(n) \/ Refuse(n)

Spec == Init /\ [][Next]_vars
===============================================================================
