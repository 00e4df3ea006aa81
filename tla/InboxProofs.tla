----------------------------- MODULE InboxProofs -----------------------------
(***************************************************************************)
(* Proofs about InboxHandoff for every number of rows, drains, identities, *)
(* contents and faults: its safety properties, and that it implements      *)
(* InboxPromise.                                                           *)
(***************************************************************************)
EXTENDS InboxHandoff, TLAPS

-----------------------------------------------------------------------------
\* The inductive invariant.

Begun(n) == inbox[n].status \notin {"absent", "queued"}

\* Rows are inserted in order, and claimed when those before them are settled.
Ordered ==
    \A n \in Slot : \A m \in Slot : m < n =>
        /\ inbox[n].status # "absent" => inbox[m].status # "absent"
        /\ Begun(n) /\ inbox[m].identity = inbox[n].identity => Settled(m)

\* "accepted" has been heard; "failed" was told to the sender and never prepared, so
\* that no drain, however late, has anything of it to send.
Verdicts ==
    \A n \in Slot :
        /\ inbox[n].status = "accepted" => eve[n] # "none"
        /\ inbox[n].status = "failed" => n \in told /\ inbox[n].content = "empty"

\* What a drain believes of its row stays true when it has lost its lease: a content,
\* once written, is the row's for good.  That nothing is prepared is sure only of the
\* drain that holds the lease.
Informed(d) ==
    LET e == drain[d]  r == inbox[e.row] IN
    e.pc # "idle" =>
        /\ Begun(e.row)
        /\ e.pc # "claimed" => e.content # "unclaimed"
        /\ e.pc \in {"found", "recovering", "reading", "loaded", "ready", "sending", "sent"} =>
               e.content \in Content
        /\ e.pc \in {"loading", "refused", "telling", "failing"} => e.content = "empty"
        /\ e.pc # "loaded" /\ e.content \in Content => r.content = e.content
        /\ (e.pc = "loaded" \/ e.content = "empty") /\ r.lease = d => r.content = "empty"
        /\ e.pc \in {"found", "recovering", "sent"} => eve[e.row] # "none"
        /\ e.pc = "failing" => e.row \in told

Drains == \A d \in Drain : Informed(d)

IInv == TypeOK /\ Ordered /\ Verdicts /\ SnapshotIsWhatEveGets /\ Drains

-----------------------------------------------------------------------------
\* Values.

RowContent == {"unclaimed", "empty"} \union Content
DrainState == [pc : Place, row : 0 .. MaxRows, content : RowContent]

LEMMA Values ==
    /\ NoRow \in Row /\ Idle \in DrainState /\ Idle.pc = "idle"
    /\ NoDrain \notin Drain /\ NoEvent \notin Event
    /\ {"unclaimed", "empty", "none"} \intersect Content = {}
  BY InboxAssumption DEF NoRow, Row, Idle, DrainState, RowContent, Place

\* A row keeps what the other parts rely on.
Keeps(n) ==
    /\ inbox'[n].identity = inbox[n].identity
    /\ inbox'[n].status = "absent" <=> inbox[n].status = "absent"
    /\ Begun(n) => Begun(n)'
    /\ Begun(n)' /\ ~Begun(n) => \A m \in Slot :
           m < n /\ inbox[m].identity = inbox[n].identity => Settled(m)
    /\ Settled(n) => Settled(n)'
    /\ inbox[n].content \in Content => inbox'[n].content = inbox[n].content

\* No row comes under the lease of x, and none of x's is written by another drain.
LeavesTo(x) == \A n \in Slot :
    inbox'[n].lease = x => inbox[n].lease = x /\ inbox'[n].content = inbox[n].content

LEMMA StaysInformed ==
    ASSUME IInv, NEW x \in Drain, drain'[x] = drain[x], \A n \in Slot : Keeps(n), LeavesTo(x),
           \A n \in Slot : eve[n] # "none" => eve'[n] # "none", told \subseteq told'
    PROVE  Informed(x)'
<1> SUFFICES ASSUME drain[x].pc # "idle" PROVE Informed(x)'
  BY DEF Informed
<1>1. drain[x].row \in Slot /\ Informed(x)
  BY DEF IInv, TypeOK, Drains
<1>2. QED
  BY <1>1 DEF Informed, Keeps, LeavesTo

LEMMA StepKeeps ==
    ASSUME IInv, TypeOK', Verdicts', SnapshotIsWhatEveGets', \A n \in Slot : Keeps(n),
           \A n \in Slot : eve[n] # "none" => eve'[n] # "none", told \subseteq told',
           \A x \in Drain : Informed(x)' \/ (drain'[x] = drain[x] /\ LeavesTo(x))
    PROVE  IInv'
<1>1. Ordered'
  <2> SUFFICES ASSUME NEW n \in Slot, NEW m \in Slot, m < n
               PROVE  /\ inbox'[n].status # "absent" => inbox'[m].status # "absent"
                      /\ Begun(n)' /\ inbox'[m].identity = inbox'[n].identity => Settled(m)'
    BY DEF Ordered
  <2>1. /\ inbox[n].status # "absent" => inbox[m].status # "absent"
        /\ Begun(n) /\ inbox[m].identity = inbox[n].identity => Settled(m)
    BY DEF IInv, Ordered
  <2>2. QED
    BY <2>1 DEF Keeps
<1>2. Drains'
  BY StaysInformed DEF Drains
<1>3. QED
  BY <1>1, <1>2 DEF IInv

\* A step of drain d that leaves the rows alone.
LEMMA DrainStep ==
    ASSUME IInv, NEW d \in Drain, NEW e \in DrainState, drain' = [drain EXCEPT ![d] = e],
           e.pc # "idle" => e.row \in Slot, e.pc = "idle" \/ Informed(d)',
           UNCHANGED <<inbox, sender>>, artifact' \in [Media -> {"none", "kept", "deleted"}],
           told' \subseteq Slot, told \subseteq told', eve' \in [Slot -> {"none"} \union Content],
           stray' \subseteq Slot \X Content, faults' \in 0 .. MaxFaults,
           \A n \in Slot : eve[n] # "none" => eve'[n] # "none", SnapshotIsWhatEveGets'
    PROVE  IInv'
<1>1. TypeOK'
  <2>1. drain' \in [Drain -> DrainState]
    BY DEF IInv, TypeOK, DrainState, RowContent
  <2>2. \A x \in Drain : drain'[x].pc # "idle" => drain'[x].row \in Slot
    BY DEF IInv, TypeOK
  <2>3. QED
    BY <2>1, <2>2 DEF IInv, TypeOK, DrainState, RowContent, sender
<1>2. Verdicts'
  BY DEF IInv, Verdicts
<1>3. \A n \in Slot : Keeps(n)
  BY DEF Keeps, Begun, Settled
<1>4. ASSUME NEW x \in Drain PROVE Informed(x)' \/ (drain'[x] = drain[x] /\ LeavesTo(x))
  <2>1. CASE x # d
    BY <2>1 DEF IInv, TypeOK, LeavesTo
  <2>2. CASE x = d
    BY <2>2 DEF IInv, TypeOK, Informed
  <2>3. QED
    BY <2>1, <2>2
<1>5. QED
  BY <1>1, <1>2, <1>3, <1>4, StepKeeps

LEMMA SameSnapshot ==
    ASSUME IInv, UNCHANGED <<inbox, eve, stray>>
    PROVE  SnapshotIsWhatEveGets'
  BY DEF IInv, SnapshotIsWhatEveGets

LEMMA EndKeeps ==
    ASSUME IInv, NEW d \in Drain, Ends(d), UNCHANGED <<inbox, sender, outside, faults>>
    PROVE  IInv'
<1>1. UNCHANGED <<artifact, told, eve, stray>> /\ SnapshotIsWhatEveGets'
  BY SameSnapshot DEF outside
<1>2. QED
  BY <1>1, Values, DrainStep DEF Ends, IInv, TypeOK

\* A drain goes on with the content it has.
LEMMA GoKeeps ==
    ASSUME IInv, NEW d \in Drain, NEW pc \in Place \ {"idle", "claimed", "loaded"}, Goes(d, pc),
           drain[d].pc \notin {"idle", "claimed", "loaded"},
           pc \in {"found", "recovering", "reading", "ready", "sending", "sent"} =>
               drain[d].content \in Content,
           pc \in {"loading", "refused", "telling", "failing"} => drain[d].content = "empty",
           pc \in {"found", "recovering", "sent"} => eve'[drain[d].row] # "none",
           pc = "failing" => drain[d].row \in told',
           UNCHANGED <<inbox, sender>>, artifact' \in [Media -> {"none", "kept", "deleted"}],
           told' \subseteq Slot, told \subseteq told', eve' \in [Slot -> {"none"} \union Content],
           stray' \subseteq Slot \X Content, faults' \in 0 .. MaxFaults,
           \A n \in Slot : eve[n] # "none" => eve'[n] # "none", SnapshotIsWhatEveGets'
    PROVE  IInv'
<1> DEFINE e == [drain[d] EXCEPT !.pc = pc]
<1>1. drain[d] \in DrainState /\ drain[d].row \in Slot
  BY DEF IInv, TypeOK, DrainState, RowContent
<1>2. e \in DrainState /\ e.pc = pc /\ e.row = drain[d].row /\ e.content = drain[d].content
  BY <1>1 DEF DrainState
<1>3. drain' = [drain EXCEPT ![d] = e] /\ drain'[d] = e
  BY DEF Goes, IInv, TypeOK
<1>4. Informed(d)
  BY DEF IInv, Drains
<1> HIDE DEF e
<1>5. Informed(d)'
  BY <1>1, <1>2, <1>3, <1>4 DEF Informed, Begun
<1>6. QED
  BY <1>1, <1>2, <1>3, <1>5, DrainStep
-----------------------------------------------------------------------------
\* The steps of a drain.

LEMMA QuietKeeps ==
    ASSUME IInv, NEW d \in Drain,
           \/ TakesSnapshot(d) \/ EveAnswers(d) \/ Recovers(d) \/ Prepares(d) \/ ReadsArtifacts(d)
           \/ ChecksLease(d, "found", "recovering") \/ ChecksLease(d, "refused", "telling")
           \/ ChecksLease(d, "ready", "sending")
    PROVE  IInv'
<1> DEFINE n == drain[d].row
<1>1. /\ Informed(d) /\ drain[d] \in DrainState
      /\ UNCHANGED <<inbox, sender, outside, faults>>
      /\ drain[d].pc # "idle" => n \in Slot /\ inbox[n].content \in RowContent
  BY DEF TakesSnapshot, EveAnswers, Recovers, Prepares, ReadsArtifacts, ChecksLease,
         IInv, TypeOK, Drains, Row, DrainState, RowContent
<1>2. UNCHANGED <<artifact, told, eve, stray>> /\ SnapshotIsWhatEveGets'
  BY <1>1, SameSnapshot DEF outside
<1>3. CASE Ends(d)
  BY <1>1, <1>3, EndKeeps
<1>4. ASSUME NEW pc \in Place \ {"idle", "claimed", "loaded"}, Goes(d, pc),
             drain[d].pc \notin {"idle", "claimed", "loaded"}, pc # "failing",
             pc \in {"found", "recovering", "reading", "ready", "sending", "sent"} =>
                 drain[d].content \in Content,
             pc \in {"loading", "refused", "telling"} => drain[d].content = "empty",
             pc \in {"found", "recovering", "sent"} => eve[n] # "none"
      PROVE  IInv'
  BY <1>1, <1>2, <1>4, GoKeeps DEF IInv, TypeOK
<1>5. drain[d].pc \notin {"idle", "claimed"} => drain[d].content \in {"empty"} \union Content
  BY <1>1 DEF Informed, DrainState, RowContent
<1>6. CASE TakesSnapshot(d) /\ ~Ends(d)
  <2> DEFINE e == [[drain[d] EXCEPT !.pc = "asking"] EXCEPT !.content = inbox[n].content]
  <2>1. drain[d].pc = "claimed" /\ HoldsLease(d) /\ drain' = [drain EXCEPT ![d] = e]
    BY <1>6 DEF TakesSnapshot
  <2>2. /\ e \in DrainState
        /\ e.pc = "asking" /\ e.row = n /\ e.content = inbox[n].content
    BY <1>1, <2>1 DEF DrainState, Place
  <2>3. drain'[d] = e
    BY <2>1 DEF IInv, TypeOK
  <2> HIDE DEF e
  <2>4. inbox[n].content # "unclaimed" /\ Begun(n)
    BY <1>1, <2>1 DEF IInv, TypeOK, HoldsLease, Begun
  <2>5. Informed(d)'
    BY <1>1, <2>1, <2>2, <2>3, <2>4 DEF Informed, Begun
  <2>6. QED
    BY <1>1, <1>2, <2>1, <2>2, <2>5, DrainStep DEF IInv, TypeOK
<1>7. CASE EveAnswers(d)
  <2>1. CASE eve[n] = "none"
    BY <1>7, <2>1, <1>4 DEF EveAnswers, Place
  <2>2. CASE eve[n] # "none" /\ drain[d].content = "empty"
    BY <1>7, <2>2, <1>4 DEF EveAnswers, Place
  <2>3. CASE eve[n] # "none" /\ drain[d].content # "empty"
    BY <1>7, <2>3, <1>4, <1>5 DEF EveAnswers, Place
  <2>4. QED
    BY <2>1, <2>2, <2>3
<1>8. CASE Recovers(d)
  BY <1>1, <1>8, <1>4 DEF Recovers, Informed, Place
<1>9. CASE Prepares(d) /\ ~Ends(d)
  BY <1>9, <1>4, <1>5 DEF Prepares, NextPlaceOf, Place
<1>10. CASE ReadsArtifacts(d) /\ ~Ends(d)
  BY <1>1, <1>10, <1>4 DEF ReadsArtifacts, Informed, Place
<1>11. CASE ChecksLease(d, "found", "recovering") /\ ~Ends(d)
  BY <1>1, <1>11, <1>4 DEF ChecksLease, Informed, Place
<1>12. CASE ChecksLease(d, "refused", "telling") /\ ~Ends(d)
  BY <1>1, <1>12, <1>4 DEF ChecksLease, Informed, Place
<1>13. CASE ChecksLease(d, "ready", "sending") /\ ~Ends(d)
  BY <1>1, <1>13, <1>4 DEF ChecksLease, Informed, Place
<1>14. QED
  BY <1>3, <1>6, <1>7, <1>8, <1>9, <1>10, <1>11, <1>12, <1>13

LEMMA LoadKeeps ==
    ASSUME IInv, NEW d \in Drain, LoadFails(d) \/ \E c \in Content : Loads(d, c)
    PROVE  IInv'
<1> DEFINE n == drain[d].row
<1>1. /\ Informed(d) /\ drain[d] \in DrainState /\ drain[d].pc = "loading" /\ n \in Slot
      /\ UNCHANGED <<inbox, sender, told, eve, stray, faults>>
      /\ artifact' \in [Media -> {"none", "kept", "deleted"}]
  BY DEF LoadFails, Loads, IInv, TypeOK, Drains, DrainState, RowContent
<1>2. SnapshotIsWhatEveGets'
  BY <1>1, SameSnapshot
<1>3. CASE LoadFails(d)
  BY <1>1, <1>2, <1>3, GoKeeps DEF LoadFails, Informed, Place, IInv, TypeOK
<1>4. ASSUME NEW c \in Content, Loads(d, c) PROVE IInv'
  <2> DEFINE e == [[drain[d] EXCEPT !.pc = "loaded"] EXCEPT !.content = c]
  <2>1. drain' = [drain EXCEPT ![d] = e]
    BY <1>4 DEF Loads
  <2>2. e \in DrainState /\ e.pc = "loaded" /\ e.row = n /\ e.content = c
    BY <1>1 DEF DrainState, Place, RowContent
  <2>3. drain'[d] = e
    BY <2>1 DEF IInv, TypeOK
  <2> HIDE DEF e
  <2>4. Informed(d)'
    BY <1>1, <2>2, <2>3, Values DEF Informed, Begun
  <2>5. QED
    BY <1>1, <1>2, <2>1, <2>2, <2>4, DrainStep DEF IInv, TypeOK
<1>5. QED
  BY <1>3, <1>4

LEMMA TellKeeps ==
    ASSUME IInv, NEW d \in Drain, TellsSender(d)
    PROVE  IInv'
<1>1. /\ Informed(d) /\ drain[d].pc = "telling" /\ drain[d].row \in Slot
      /\ UNCHANGED <<inbox, sender, artifact, eve, stray, faults>> /\ SnapshotIsWhatEveGets'
  BY SameSnapshot DEF TellsSender, IInv, TypeOK, Drains
<1>2. CASE Live(inbox[drain[d].row].identity)
  BY <1>1, <1>2, GoKeeps DEF TellsSender, Informed, Place, IInv, TypeOK
<1>3. CASE ~Live(inbox[drain[d].row].identity)
  BY <1>1, <1>3, EndKeeps DEF TellsSender, outside
<1>4. QED
  BY <1>2, <1>3

\* Eve takes a content of a prepared row, in time or late.
LEMMA KeyedSnapshot ==
    ASSUME IInv, NEW n \in Slot, NEW c \in Content, inbox[n].content = c, Keyed(n, c),
           stray' \subseteq stray, UNCHANGED inbox
    PROVE  /\ SnapshotIsWhatEveGets' /\ eve' \in [Slot -> {"none"} \union Content]
           /\ eve'[n] # "none" /\ \A m \in Slot : eve[m] # "none" => eve'[m] # "none"
  BY Values DEF IInv, TypeOK, SnapshotIsWhatEveGets, Keyed

LEMMA AcceptKeeps ==
    ASSUME IInv, NEW d \in Drain, EveAccepts(d)
    PROVE  IInv'
<1>1. /\ Informed(d) /\ drain[d].pc = "sending" /\ drain[d].row \in Slot
      /\ drain[d].content \in Content /\ inbox[drain[d].row].content = drain[d].content
      /\ Keyed(drain[d].row, drain[d].content)
      /\ UNCHANGED <<inbox, sender, artifact, told, stray, faults>>
  BY DEF EveAccepts, IInv, TypeOK, Drains, Informed
<1>2. /\ SnapshotIsWhatEveGets' /\ eve' \in [Slot -> {"none"} \union Content]
      /\ eve'[drain[d].row] # "none" /\ \A m \in Slot : eve[m] # "none" => eve'[m] # "none"
  BY <1>1, KeyedSnapshot
<1>3. QED
  BY <1>1, <1>2, GoKeeps DEF EveAccepts, Place, IInv, TypeOK

\* A request of a drain that was sending carries what the row says.
LEMMA FailKeeps ==
    ASSUME IInv, NEW d \in Drain, Fails(d)
    PROVE  IInv'
<1> DEFINE n == drain[d].row
<1>1. /\ Informed(d) /\ drain[d].pc # "idle" /\ n \in Slot
      /\ UNCHANGED <<inbox, sender, artifact, told, eve>> /\ faults' \in 0 .. MaxFaults
  BY InboxAssumption DEF Fails, SendUnknown, AnswerUnknown, Dies, Fault, IInv, TypeOK, Drains, outside
<1>2. /\ stray' \subseteq Slot \X Content /\ SnapshotIsWhatEveGets'
  <2>1. CASE UNCHANGED stray
    BY <1>1, <2>1, SameSnapshot DEF IInv, TypeOK
  <2>2. CASE drain[d].pc = "sending" /\ stray' = stray \union {<<n, drain[d].content>>}
    <3>1. drain[d].content \in Content /\ inbox[n].content = drain[d].content
      BY <1>1, <2>2 DEF Informed
    <3>2. QED
      BY <1>1, <2>2, <3>1 DEF IInv, TypeOK, SnapshotIsWhatEveGets
  <2>3. QED
    BY <2>1, <2>2 DEF Fails, SendUnknown, AnswerUnknown, Dies, outside
<1>3. CASE Ends(d)
  BY <1>1, <1>2, <1>3, Values, DrainStep DEF Ends, IInv, TypeOK
<1>4. CASE Goes(d, "unknown") /\ drain[d].pc \in {"sending", "asking", "recovering"}
  BY <1>1, <1>2, <1>4, GoKeeps DEF Place, IInv, TypeOK
<1>5. QED
  BY <1>3, <1>4 DEF Fails, SendUnknown, AnswerUnknown, Dies

-----------------------------------------------------------------------------
\* The statements that write rows.

WellKept(r) ==
    /\ r \in Row
    /\ r.status = "dispatching" <=> r.lease # NoDrain
    /\ r.status = "dispatching" <=> r.expires # "null"
    /\ r.status \in {"absent", "queued"} <=> r.content = "unclaimed"

LEMMA RowsKept ==
    ASSUME TypeOK, NEW n \in Slot
    PROVE  WellKept(inbox[n])
  BY DEF TypeOK, WellKept

LEMMA RowsStep ==
    ASSUME IInv, inbox' = [n \in Slot |-> inbox'[n]],
           \A n \in Slot : WellKept(inbox'[n]) /\ Keeps(n),
           \A n \in Slot : /\ inbox'[n].status = "accepted" => eve[n] # "none"
                           /\ inbox'[n].status = "failed" =>
                                  n \in told /\ inbox'[n].content = "empty",
           current' \in 1 .. MaxIdentities, active' \in BOOLEAN,
           drain' \in [Drain -> DrainState],
           \A x \in Drain : drain'[x].pc # "idle" => drain'[x].row \in Slot,
           \A x \in Drain : Informed(x)' \/ (drain'[x] = drain[x] /\ LeavesTo(x)),
           UNCHANGED outside, faults' \in 0 .. MaxFaults
    PROVE  IInv'
<1>1. UNCHANGED <<artifact, told, eve, stray>>
  BY DEF outside
<1>2. inbox' \in [Slot -> Row]
  BY DEF WellKept
<1>3. TypeOK'
  BY <1>1, <1>2 DEF IInv, TypeOK, WellKept, DrainState, RowContent
<1>4. Verdicts'
  BY <1>1 DEF Verdicts
<1>5. SnapshotIsWhatEveGets'
  BY <1>1 DEF IInv, SnapshotIsWhatEveGets, Keeps
<1>6. QED
  BY <1>1, <1>3, <1>4, <1>5, StepKeeps

LEMMA UnleasedRow ==
    ASSUME NEW r, WellKept(r), NEW s \in {"uncertain", "accepted", "failed"},
           r.status \notin {"absent", "queued"}
    PROVE  /\ WellKept(Unleased(r, s)) /\ Unleased(r, s).status = s
           /\ Unleased(r, s).lease = NoDrain
           /\ Unleased(r, s).identity = r.identity /\ Unleased(r, s).content = r.content
           /\ Unleased(r, s).event = r.event
  BY DEF WellKept, Row, Unleased

\* A statement of drain d that is fenced by its lease, and writes its row.
LEMMA FencedStep ==
    ASSUME IInv, NEW d \in Drain, drain[d].pc # "idle", HoldsLease(d), NEW row, WellKept(row),
           NEW e \in DrainState, e.pc # "idle" => e.row = drain[d].row,
           inbox' = [inbox EXCEPT ![drain[d].row] = row], drain' = [drain EXCEPT ![d] = e],
           row.identity = inbox[drain[d].row].identity, row.status \notin {"absent", "queued"},
           row.lease \in {d, NoDrain},
           row.status = "accepted" => eve[drain[d].row] # "none",
           row.status = "failed" => drain[d].row \in told /\ row.content = "empty",
           inbox[drain[d].row].content \in Content => row.content = inbox[drain[d].row].content,
           e.pc = "idle" \/ Informed(d)', UNCHANGED <<sender, outside, faults>>
    PROVE  IInv'
<1> DEFINE n == drain[d].row
<1>1. /\ n \in Slot /\ inbox[n].status = "dispatching" /\ inbox[n].lease = d
      /\ inbox \in [Slot -> Row] /\ drain \in [Drain -> DrainState]
  BY DEF IInv, TypeOK, HoldsLease, DrainState, RowContent
<1>2. inbox' = [m \in Slot |-> inbox'[m]] /\ inbox'[n] = row
      /\ \A m \in Slot : m # n => inbox'[m] = inbox[m]
  BY <1>1
<1>3. drain' \in [Drain -> DrainState] /\ drain'[d] = e
      /\ \A x \in Drain : x # d => drain'[x] = drain[x]
  BY <1>1
<1> HIDE DEF n
<1>4. ASSUME NEW m \in Slot
      PROVE  /\ WellKept(inbox'[m]) /\ Keeps(m)
             /\ inbox'[m].status = "accepted" => eve[m] # "none"
             /\ inbox'[m].status = "failed" => m \in told /\ inbox'[m].content = "empty"
  <2>1. CASE m = n
    BY <1>1, <1>2, <2>1 DEF Keeps, Begun, Settled, n
  <2>2. CASE m # n
    BY <1>2, <2>2, RowsKept DEF Keeps, Begun, Settled, IInv, Verdicts
  <2>3. QED
    BY <2>1, <2>2
<1>5. ASSUME NEW x \in Drain
      PROVE  /\ drain'[x].pc # "idle" => drain'[x].row \in Slot
             /\ Informed(x)' \/ (drain'[x] = drain[x] /\ LeavesTo(x))
  <2>1. CASE x = d
    BY <1>1, <1>3, <2>1 DEF Informed, n
  <2>2. CASE x # d
    BY <1>1, <1>2, <1>3, <2>2, Values DEF LeavesTo, IInv, TypeOK
  <2>3. QED
    BY <2>1, <2>2
<1>6. QED
  BY <1>2, <1>3, <1>4, <1>5, RowsStep DEF IInv, TypeOK, sender

LEMMA MarkKeeps ==
    ASSUME IInv, NEW d \in Drain, MarkInboxFailed(d) \/ MarkAccepted(d) \/ MarkInboxUncertain(d)
    PROVE  IInv'
<1> DEFINE n == drain[d].row
<1>1. /\ Informed(d) /\ n \in Slot /\ drain[d].pc # "idle" /\ WellKept(inbox[n])
      /\ UNCHANGED <<sender, outside, faults>>
  BY RowsKept DEF MarkInboxFailed, MarkAccepted, MarkInboxUncertain, Marks, IInv, TypeOK, Drains
<1>2. CASE ~HoldsLease(d)
  BY <1>1, <1>2, EndKeeps DEF MarkInboxFailed, MarkAccepted, MarkInboxUncertain, Marks
<1>3. CASE HoldsLease(d)
  <2>1. PICK s \in {"failed", "accepted", "uncertain"} :
            /\ inbox' = [inbox EXCEPT ![n] = Unleased(inbox[n], s)]
            /\ drain' = [drain EXCEPT ![d] = Idle]
            /\ s = "failed" => drain[d].pc = "failing"
            /\ s = "accepted" => drain[d].pc = "sent"
    BY <1>3 DEF MarkInboxFailed, MarkAccepted, MarkInboxUncertain, Marks
  <2>2. inbox[n].status = "dispatching" /\ inbox[n].lease = d
    BY <1>3 DEF HoldsLease
  <2>3. /\ s = "failed" => n \in told /\ inbox[n].content = "empty"
        /\ s = "accepted" => eve[n] # "none"
    BY <1>1, <2>1, <2>2 DEF Informed
  <2> DEFINE row == Unleased(inbox[n], s)
  <2>4. /\ WellKept(row) /\ row.status = s /\ row.lease = NoDrain
        /\ row.identity = inbox[n].identity /\ row.content = inbox[n].content
    BY <1>1, <2>2, UnleasedRow
  <2>5. inbox' = [inbox EXCEPT ![n] = row]
    BY <2>1
  <2> HIDE DEF row
  <2>6. QED
    BY <1>1, <1>3, <2>1, <2>3, <2>4, <2>5, FencedStep, Values
<1>4. QED
  BY <1>2, <1>3

LEMMA PrepareKeeps ==
    ASSUME IInv, NEW d \in Drain, PrepareInboxHandoff(d)
    PROVE  IInv'
<1> DEFINE n == drain[d].row
           row == [inbox[n] EXCEPT !.content = drain[d].content]
           e == [drain[d] EXCEPT !.pc = "ready"]
<1>1. /\ Informed(d) /\ n \in Slot /\ drain[d].pc = "loaded" /\ WellKept(inbox[n])
      /\ drain[d] \in DrainState /\ UNCHANGED <<sender, outside, faults>>
      /\ drain[d].content \in Content
  BY RowsKept DEF PrepareInboxHandoff, Marks, IInv, TypeOK, Drains, Informed, DrainState, RowContent
<1>2. CASE Ends(d) /\ UNCHANGED inbox
  BY <1>1, <1>2, EndKeeps
<1>3. CASE HoldsLease(d) /\ inbox' = [inbox EXCEPT ![n] = row] /\ drain' = [drain EXCEPT ![d] = e]
  <2>1. inbox[n].status = "dispatching" /\ inbox[n].lease = d
    BY <1>3 DEF HoldsLease
  <2>2. inbox[n].content = "empty"
    BY <1>1, <2>1 DEF Informed
  <2>3. /\ WellKept(row) /\ row.status = "dispatching" /\ row.lease = d
        /\ row.identity = inbox[n].identity /\ row.content = drain[d].content
    BY <1>1, <2>1, Values DEF WellKept, Row
  <2>4. e \in DrainState /\ e.pc = "ready" /\ e.row = n /\ e.content = drain[d].content
    BY <1>1 DEF DrainState, Place
  <2>5. drain'[d] = e /\ inbox'[n] = row
    BY <1>1, <1>3 DEF IInv, TypeOK
  <2> HIDE DEF row, e
  <2>6. Informed(d)'
    BY <1>1, <2>3, <2>4, <2>5, Values DEF Informed, Begun
  <2>7. QED
    BY <1>1, <1>3, <2>2, <2>3, <2>4, <2>6, FencedStep, Values
<1>4. QED
  BY <1>2, <1>3 DEF PrepareInboxHandoff, Marks

-----------------------------------------------------------------------------
\* Claims, arrivals, the clock and the account.

LEMMA SweptRows ==
    ASSUME IInv, NEW i, NEW n \in Slot
    PROVE  /\ WellKept(Swept(i)[n])
           /\ Swept(i)[n].identity = inbox[n].identity /\ Swept(i)[n].content = inbox[n].content
           /\ Swept(i)[n].event = inbox[n].event
           /\ \/ Swept(i)[n] = inbox[n]
              \/ /\ inbox[n].status = "dispatching"
                 /\ Swept(i)[n].status = "uncertain" /\ Swept(i)[n].lease = NoDrain
<1>1. WellKept(inbox[n])
  BY RowsKept DEF IInv
<1>2. CASE inbox[n].identity = i /\ inbox[n].status = "dispatching" /\ inbox[n].expires = "past"
  BY <1>1, <1>2, UnleasedRow DEF Swept
<1>3. CASE ~(inbox[n].identity = i /\ inbox[n].status = "dispatching" /\ inbox[n].expires = "past")
  BY <1>1, <1>3 DEF Swept
<1>4. QED
  BY <1>2, <1>3

LEMMA SweepKeeps ==
    ASSUME IInv, NEW i \in 1 .. MaxIdentities, ClaimNothing(i)
    PROVE  IInv'
<1>1. inbox' = Swept(i) /\ UNCHANGED <<sender, drain, outside, faults>>
  BY DEF ClaimNothing
<1>2. inbox' = [n \in Slot |-> inbox'[n]]
  BY <1>1 DEF Swept
<1>3. ASSUME NEW n \in Slot
      PROVE  /\ WellKept(inbox'[n]) /\ Keeps(n)
             /\ inbox'[n].status = "accepted" => eve[n] # "none"
             /\ inbox'[n].status = "failed" => n \in told /\ inbox'[n].content = "empty"
             /\ \A x \in Drain : inbox'[n].lease = x =>
                    inbox[n].lease = x /\ inbox'[n].content = inbox[n].content
  BY <1>1, SweptRows, Values DEF IInv, Verdicts, Keeps, Begun, Settled
<1>4. QED
  BY <1>1, <1>2, <1>3, RowsStep DEF LeavesTo, IInv, TypeOK, sender, DrainState, RowContent

LEMMA LeasedRow ==
    ASSUME NEW r, WellKept(r), NEW d \in Drain, r.status # "absent"
    PROVE  /\ WellKept(Leased(r, d)) /\ Leased(r, d).status = "dispatching"
           /\ Leased(r, d).lease = d /\ Leased(r, d).identity = r.identity
           /\ Leased(r, d).event = r.event
           /\ Leased(r, d).content = (IF r.content = "unclaimed" THEN "empty" ELSE r.content)
<1> DEFINE c == IF r.content = "unclaimed" THEN "empty" ELSE r.content
           s == [[[[r EXCEPT !.status = "dispatching"] EXCEPT !.lease = d]
                     EXCEPT !.expires = "ahead"] EXCEPT !.content = c]
<1>1. Leased(r, d) = s
  BY DEF Leased, WellKept, Row
<1>2. c \in RowContent \ {"unclaimed"}
  BY Values DEF WellKept, Row, RowContent
<1> HIDE DEF c
<1>3. /\ s \in Row /\ s.status = "dispatching" /\ s.lease = d /\ s.expires = "ahead"
      /\ s.content = c /\ s.identity = r.identity /\ s.event = r.event
  BY <1>2 DEF WellKept, Row, RowContent
<1> HIDE DEF s
<1>4. QED
  BY <1>1, <1>2, <1>3, Values DEF WellKept, c

\* The head of an unblocked lane: every row before it is settled.
LEMMA HeadIsNext ==
    ASSUME IInv, NEW n \in Slot, IsHead(Swept(inbox[n].identity), n),
           ~Blocked(Swept(inbox[n].identity), inbox[n].identity)
    PROVE  /\ inbox[n].status \notin {"absent", "accepted", "failed"}
           /\ \A m \in Slot : m < n /\ inbox[m].identity = inbox[n].identity => Settled(m)
<1> DEFINE rows == Swept(inbox[n].identity)
<1>1. \A m \in Slot : /\ rows[m].identity = inbox[m].identity
                      /\ \/ rows[m] = inbox[m]
                         \/ inbox[m].status = "dispatching" /\ rows[m].status = "uncertain"
  BY SweptRows
<1>2. rows[n].status \in {"queued", "uncertain"}
  BY DEF IsHead, Claimable, Recoverable
<1>3. ASSUME NEW m \in Slot, m < n, inbox[m].identity = inbox[n].identity PROVE Settled(m)
  <2>1. ~Claimable(rows[m])
    BY <1>1, <1>3 DEF IsHead
  <2>2. rows[m].status # "dispatching" /\ ~(rows[m].status = "uncertain" /\ ~Recoverable(rows[m]))
    BY <1>1, <1>3 DEF Blocked
  <2>3. rows[m].status \notin {"queued", "dispatching", "uncertain"}
    BY <2>1, <2>2 DEF Claimable
  <2>4. inbox[m].status \notin {"queued", "dispatching", "uncertain"}
    BY <1>1, <2>3
  <2>5. inbox[m].status # "absent"
    BY <1>1, <1>2, <1>3 DEF IInv, Ordered
  <2>6. inbox[m] \in Row
    BY DEF IInv, TypeOK
  <2>7. QED
    BY <2>4, <2>5, <2>6 DEF Row, Settled
<1>4. QED
  BY <1>1, <1>2, <1>3

LEMMA ClaimKeeps ==
    ASSUME IInv, NEW d \in Drain, NEW n \in Slot, ClaimInbox(d, n)
    PROVE  IInv'
<1> DEFINE rows == Swept(inbox[n].identity)
           row == Leased(rows[n], d)
           e == [[Idle EXCEPT !.pc = "claimed"] EXCEPT !.row = n]
<1>1. /\ inbox' = [rows EXCEPT ![n] = row] /\ drain' = [drain EXCEPT ![d] = e]
      /\ UNCHANGED <<sender, outside, faults>>
  BY DEF ClaimInbox
<1>2. /\ inbox[n].status \notin {"absent", "accepted", "failed"}
      /\ \A m \in Slot : m < n /\ inbox[m].identity = inbox[n].identity => Settled(m)
  BY HeadIsNext DEF ClaimInbox
<1>3. rows[n].status # "absent" /\ WellKept(rows[n]) /\ WellKept(inbox[n])
  BY <1>2, SweptRows, RowsKept DEF IInv
<1>4. /\ WellKept(row) /\ row.status = "dispatching" /\ row.lease = d
      /\ row.identity = inbox[n].identity
      /\ row.content = (IF inbox[n].content = "unclaimed" THEN "empty" ELSE inbox[n].content)
  BY <1>3, LeasedRow, SweptRows
<1>5. /\ e \in DrainState /\ e.pc = "claimed" /\ e.row = n /\ e.content = "unclaimed"
  <2>1. Idle \in DrainState /\ Idle.content = "unclaimed"
    BY Values DEF Idle
  <2>2. n \in 0 .. MaxRows /\ "claimed" \in Place
    BY InboxAssumption DEF Slot, Place
  <2>3. QED
    BY <2>1, <2>2 DEF DrainState
<1>6. rows = [m \in Slot |-> rows[m]]
  BY DEF Swept
<1> HIDE DEF row, e
<1>7. /\ inbox' = [m \in Slot |-> inbox'[m]] /\ inbox'[n] = row
      /\ \A m \in Slot : m # n => inbox'[m] = rows[m]
  BY <1>1, <1>6
<1>8. drain' \in [Drain -> DrainState] /\ drain'[d] = e
      /\ \A x \in Drain : x # d => drain'[x] = drain[x]
  BY <1>1, <1>5 DEF IInv, TypeOK, DrainState, RowContent
<1>9. ASSUME NEW m \in Slot
      PROVE  /\ WellKept(inbox'[m]) /\ Keeps(m)
             /\ inbox'[m].status = "accepted" => eve[m] # "none"
             /\ inbox'[m].status = "failed" => m \in told /\ inbox'[m].content = "empty"
             /\ \A x \in Drain \ {d} : inbox'[m].lease = x =>
                    inbox[m].lease = x /\ inbox'[m].content = inbox[m].content
  <2>1. CASE m = n
    BY <1>2, <1>4, <1>7, <2>1, Values DEF Keeps, Begun, Settled
  <2>2. CASE m # n
    BY <1>7, <2>2, SweptRows, Values DEF IInv, Verdicts, Keeps, Begun, Settled
  <2>3. QED
    BY <2>1, <2>2
<1>10. Informed(d)'
  BY <1>4, <1>5, <1>7, <1>8, Values DEF Informed, Begun
<1>11. ASSUME NEW x \in Drain
       PROVE  /\ drain'[x].pc # "idle" => drain'[x].row \in Slot
              /\ Informed(x)' \/ (drain'[x] = drain[x] /\ LeavesTo(x))
  <2>1. CASE x = d
    BY <1>5, <1>8, <1>10, <2>1
  <2>2. CASE x # d
    BY <1>8, <1>9, <2>2 DEF LeavesTo, IInv, TypeOK
  <2>3. QED
    BY <2>1, <2>2
<1>12. QED
  BY <1>1, <1>7, <1>8, <1>9, <1>11, RowsStep DEF IInv, TypeOK, sender

LEMMA ArrivalKeeps ==
    ASSUME IInv, NEW n \in Slot, NEW e \in Event, Accept(n, e)
    PROVE  IInv'
<1> DEFINE row == [[[NoRow EXCEPT !.event = e] EXCEPT !.identity = current]
                       EXCEPT !.status = "queued"]
<1>1. inbox' = [inbox EXCEPT ![n] = row] /\ inbox[n].status = "absent"
      /\ (\A m \in Slot : m < n => inbox[m].status # "absent")
      /\ UNCHANGED <<sender, drain, outside, faults>>
  BY DEF Accept
<1>2. /\ WellKept(row) /\ row.status = "queued" /\ row.lease = NoDrain
      /\ row.content = "unclaimed"
  <2>1. /\ NoRow \in Row /\ NoRow.content = "unclaimed" /\ NoRow.lease = NoDrain
        /\ NoRow.expires = "null"
    BY Values DEF NoRow
  <2>2. current \in 0 .. MaxIdentities
    BY InboxAssumption DEF IInv, TypeOK
  <2>3. QED
    BY <2>1, <2>2 DEF WellKept, Row
<1> HIDE DEF row
<1>3. /\ inbox' = [m \in Slot |-> inbox'[m]] /\ inbox'[n] = row
      /\ \A m \in Slot : m # n => inbox'[m] = inbox[m]
  BY <1>1 DEF IInv, TypeOK
<1>4. /\ UNCHANGED <<current, active, drain, artifact, told, eve, stray, faults>>
  BY <1>1 DEF sender, outside
<1>5. TypeOK'
  <2>1. \A m \in Slot : WellKept(inbox'[m])
    BY <1>2, <1>3, RowsKept DEF IInv
  <2>2. inbox' \in [Slot -> Row]
    BY <1>3, <2>1 DEF WellKept
  <2>3. QED
    BY <1>4, <2>1, <2>2 DEF IInv, TypeOK, WellKept
<1>6. Ordered'
  <2> SUFFICES ASSUME NEW k \in Slot, NEW m \in Slot, m < k
               PROVE  /\ inbox'[k].status # "absent" => inbox'[m].status # "absent"
                      /\ Begun(k)' /\ inbox'[m].identity = inbox'[k].identity => Settled(m)'
    BY DEF Ordered
  <2>1. /\ inbox[k].status # "absent" => inbox[m].status # "absent"
        /\ Begun(k) /\ inbox[m].identity = inbox[k].identity => Settled(m)
    BY DEF IInv, Ordered
  <2>2. QED
    BY <1>1, <1>2, <1>3, <2>1 DEF Begun, Settled
<1>7. Verdicts'
  BY <1>2, <1>3, <1>4 DEF IInv, Verdicts
<1>8. SnapshotIsWhatEveGets'
  <2>1. inbox[n].content = "unclaimed"
    BY <1>1 DEF IInv, TypeOK
  <2>2. QED
    BY <1>3, <1>4, <2>1, Values DEF IInv, SnapshotIsWhatEveGets
<1>9. Drains'
  <2> SUFFICES ASSUME NEW x \in Drain, drain[x].pc # "idle" PROVE Informed(x)'
    BY <1>4 DEF Drains, Informed
  <2>1. Informed(x) /\ drain[x].row \in Slot
    BY DEF IInv, TypeOK, Drains
  <2>2. drain[x].row # n
    BY <1>1, <2>1 DEF Informed, Begun
  <2>3. inbox'[drain[x].row] = inbox[drain[x].row]
    BY <1>3, <2>1, <2>2
  <2>4. QED
    BY <1>4, <2>1, <2>3 DEF Informed, Begun
<1>10. QED
  BY <1>5, <1>6, <1>7, <1>8, <1>9 DEF IInv

LEMMA ClockKeeps ==
    ASSUME IInv, NEW n \in Slot, LeaseRunsOut(n)
    PROVE  IInv'
<1> DEFINE row == [inbox[n] EXCEPT !.expires = "past"]
<1>1. /\ inbox' = [inbox EXCEPT ![n] = row] /\ inbox[n].expires = "ahead"
      /\ UNCHANGED <<sender, drain, outside>> /\ faults' \in 0 .. MaxFaults
  BY InboxAssumption DEF LeaseRunsOut, Fault, IInv, TypeOK
<1>2. WellKept(inbox[n])
  BY RowsKept DEF IInv
<1>3. /\ WellKept(row) /\ row.status = inbox[n].status /\ row.lease = inbox[n].lease
      /\ row.identity = inbox[n].identity /\ row.content = inbox[n].content
  BY <1>1, <1>2 DEF WellKept, Row
<1> HIDE DEF row
<1>4. /\ inbox' = [m \in Slot |-> inbox'[m]] /\ inbox'[n] = row
      /\ \A m \in Slot : m # n => inbox'[m] = inbox[m]
  BY <1>1 DEF IInv, TypeOK
<1>5. ASSUME NEW m \in Slot
      PROVE  /\ WellKept(inbox'[m]) /\ Keeps(m)
             /\ inbox'[m].status = "accepted" => eve[m] # "none"
             /\ inbox'[m].status = "failed" => m \in told /\ inbox'[m].content = "empty"
             /\ inbox'[m].lease = inbox[m].lease /\ inbox'[m].content = inbox[m].content
  BY <1>3, <1>4, RowsKept DEF IInv, Verdicts, Keeps, Begun, Settled
<1>6. \A x \in Drain : drain'[x] = drain[x] /\ LeavesTo(x)
  BY <1>1, <1>5 DEF LeavesTo
<1>7. QED
  BY <1>1, <1>4, <1>5, <1>6, RowsStep DEF IInv, TypeOK, sender, DrainState, RowContent

LEMMA AccountKeeps ==
    ASSUME IInv, Account
    PROVE  IInv'
<1>1. /\ UNCHANGED <<inbox, drain, told, eve, stray, faults>>
      /\ current' \in 1 .. MaxIdentities /\ active' \in BOOLEAN
      /\ artifact' \in [Media -> {"none", "kept", "deleted"}]
  <2>1. CASE RevokeIdentity
    BY <2>1 DEF RevokeIdentity, outside, IInv, TypeOK
  <2>2. CASE ArchiveAccount
    BY <2>2, InboxAssumption DEF ArchiveAccount, outside, IInv, TypeOK
  <2>3. ASSUME NEW e \in Media, DeleteArtifact(e)
        PROVE  /\ UNCHANGED <<inbox, drain, told, eve, stray, faults>>
               /\ current' \in 1 .. MaxIdentities /\ active' \in BOOLEAN
               /\ artifact' \in [Media -> {"none", "kept", "deleted"}]
    BY <2>3 DEF DeleteArtifact, sender, IInv, TypeOK
  <2>4. QED
    BY <2>1, <2>2, <2>3 DEF Account
<1>2. TypeOK'
  BY <1>1 DEF IInv, TypeOK
<1>3. /\ \A n \in Slot : Keeps(n)
      /\ \A x \in Drain : drain'[x] = drain[x] /\ LeavesTo(x)
  BY <1>1 DEF Keeps, LeavesTo, Begun, Settled
<1>4. QED
  BY <1>1, <1>2, <1>3, StepKeeps, SameSnapshot DEF IInv, Verdicts

LEMMA LandingKeeps ==
    ASSUME IInv, NEW n \in Slot, NEW c \in Content, LandsLate(n, c)
    PROVE  IInv'
<1>1. /\ inbox[n].content = c /\ Keyed(n, c) /\ stray' \subseteq stray
      /\ UNCHANGED <<inbox, sender, drain, artifact, told, faults>>
  BY DEF LandsLate, IInv, SnapshotIsWhatEveGets
<1>2. /\ SnapshotIsWhatEveGets' /\ eve' \in [Slot -> {"none"} \union Content]
      /\ \A m \in Slot : eve[m] # "none" => eve'[m] # "none"
  BY <1>1, KeyedSnapshot
<1>3. TypeOK'
  BY <1>1, <1>2 DEF IInv, TypeOK, sender
<1>4. /\ \A m \in Slot : Keeps(m)
      /\ \A x \in Drain : drain'[x] = drain[x] /\ LeavesTo(x)
  BY <1>1 DEF Keeps, LeavesTo, Begun, Settled
<1>5. Verdicts'
  BY <1>1, <1>2 DEF IInv, Verdicts
<1>6. QED
  BY <1>1, <1>2, <1>3, <1>4, <1>5, StepKeeps

-----------------------------------------------------------------------------
LEMMA InitiallyIInv == Init => IInv
<1> SUFFICES ASSUME Init PROVE IInv
  OBVIOUS
<1>1. TypeOK
  BY Values, InboxAssumption DEF Init, TypeOK, NoRow, Idle, DrainState, RowContent
<1>2. Ordered /\ Verdicts /\ Drains
  BY DEF Init, NoRow, Idle, Ordered, Verdicts, Drains, Informed, Begun
<1>3. SnapshotIsWhatEveGets
  BY Values DEF Init, SnapshotIsWhatEveGets
<1>4. QED
  BY <1>1, <1>2, <1>3 DEF IInv

LEMMA HandoffKeeps ==
    ASSUME IInv, NEW d \in Drain, Handoff(d)
    PROVE  IInv'
  BY QuietKeeps, LoadKeeps, TellKeeps, MarkKeeps, PrepareKeeps, AcceptKeeps DEF Handoff

LEMMA NextIInv == IInv /\ [Next]_vars => IInv'
<1> SUFFICES ASSUME IInv, [Next]_vars PROVE IInv'
  OBVIOUS
<1>1. ASSUME NEW n \in Slot, NEW e \in Event, Accept(n, e) PROVE IInv'
  BY <1>1, ArrivalKeeps
<1>2. CASE Account
  BY <1>2, AccountKeeps
<1>3. ASSUME NEW n \in Slot, LeaseRunsOut(n) PROVE IInv'
  BY <1>3, ClockKeeps
<1>4. CASE Claims
  BY <1>4, ClaimKeeps DEF Claims
<1>5. ASSUME NEW i \in 1 .. MaxIdentities, ClaimNothing(i) PROVE IInv'
  BY <1>5, SweepKeeps
<1>6. ASSUME NEW d \in Drain, Handoff(d) \/ Fails(d) PROVE IInv'
  BY <1>6, HandoffKeeps, FailKeeps
<1>7. ASSUME NEW n \in Slot, NEW c \in Content, LandsLate(n, c) PROVE IInv'
  BY <1>7, LandingKeeps
<1>8. CASE UNCHANGED vars
  <2>1. UNCHANGED <<inbox, current, active, drain, artifact, told, eve, stray, faults>>
    BY <1>8 DEF vars
  <2>2. TypeOK' /\ Ordered' /\ Verdicts' /\ SnapshotIsWhatEveGets' /\ Drains'
    BY <2>1 DEF IInv, TypeOK, Ordered, Verdicts, SnapshotIsWhatEveGets, Drains, Informed, Begun,
       Settled
  <2>3. QED
    BY <2>2 DEF IInv
<1>9. QED
  BY <1>1, <1>2, <1>3, <1>4, <1>5, <1>6, <1>7, <1>8 DEF Next

\* The invariant holds in every state of every instance.
THEOREM HandoffInvariant == Spec => []IInv
  BY InitiallyIInv, NextIInv, PTL DEF Spec

\* Rows, drains and Eve stay within their states, and a row has a lease exactly while
\* it is dispatched (channel_inbox_lease_check).
THEOREM TypeCorrect == Spec => []TypeOK
<1>1. IInv => TypeOK
  BY DEF IInv
<1>2. QED
  BY <1>1, HandoffInvariant, PTL

\* However often a hand-over is repeated, late or lost, Eve's input carries the content
\* that prepareInboxHandoff wrote in the row.
THEOREM SnapshotsAreSent == Spec => []SnapshotIsWhatEveGets
<1>1. IInv => SnapshotIsWhatEveGets
  BY DEF IInv
<1>2. QED
  BY <1>1, HandoffInvariant, PTL

\* No message is given up before its sender has been told.
THEOREM FailuresAreTold == Spec => []FailedWasTold
<1>1. IInv => FailedWasTold
  BY DEF IInv, Verdicts, FailedWasTold
<1>2. QED
  BY <1>1, HandoffInvariant, PTL

-----------------------------------------------------------------------------
\* The lane implements InboxPromise.

FateOf(status, heard) ==
    CASE status = "absent"   -> "absent"
      [] status = "accepted" -> "recorded"
      [] status = "failed"   -> "refused"
      [] OTHER -> IF heard = "none" THEN "waiting" ELSE "heard"

LEMMA FateRows ==
    /\ Fates = [n \in Slot |-> FateOf(inbox[n].status, eve[n])]
    /\ Fates' = [n \in Slot |-> FateOf(inbox'[n].status, eve'[n])]
  BY DEF Fates, Fate, FateOf

LEMMA FateValues ==
    ASSUME NEW status, NEW heard
    PROVE  /\ status = "absent" <=> FateOf(status, heard) = "absent"
           /\ status = "accepted" <=> FateOf(status, heard) = "recorded"
           /\ status = "failed" <=> FateOf(status, heard) = "refused"
           /\ status \notin {"absent", "accepted", "failed"} =>
                  FateOf(status, heard) = IF heard = "none" THEN "waiting" ELSE "heard"
  BY DEF FateOf

SameRows == \A n \in Slot :
    inbox'[n].event = inbox[n].event /\ inbox'[n].identity = inbox[n].identity

LEMMA SameArrivals ==
    ASSUME SameRows
    PROVE  UNCHANGED <<Arrivals, Lanes>>
  BY DEF SameRows, Arrivals, Lanes

\* What the promise does not see.
LEMMA PromiseStutters ==
    ASSUME SameRows,
           \A n \in Slot : FateOf(inbox'[n].status, eve'[n]) = FateOf(inbox[n].status, eve[n])
    PROVE  UNCHANGED Promise!vars
  BY SameArrivals, FateRows DEF Promise!vars

LEMMA PromiseBecomes ==
    ASSUME SameRows, NEW n \in Slot, NEW f, FateOf(inbox'[n].status, eve'[n]) = f,
           \A m \in Slot : m # n =>
               FateOf(inbox'[m].status, eve'[m]) = FateOf(inbox[m].status, eve[m])
    PROVE  Promise!Becomes(n, f)
<1>1. Fates' = [Fates EXCEPT ![n] = f]
  BY FateRows
<1>2. QED
  BY <1>1, SameArrivals DEF Promise!Becomes

\* Eve hears of a row whose predecessors are settled.
LEMMA PromiseHears ==
    ASSUME IInv, UNCHANGED inbox, NEW n \in Slot, NEW c \in Content, inbox[n].content = c,
           Keyed(n, c)
    PROVE  Promise!Next \/ UNCHANGED Promise!vars
<1>1. SameRows /\ \A m \in Slot : m # n => eve'[m] = eve[m]
  BY DEF SameRows, Keyed, IInv, TypeOK
<1>2. CASE eve[n] # "none"
  BY <1>1, <1>2, PromiseStutters DEF Keyed, IInv, TypeOK
<1>3. CASE eve[n] = "none"
  <2>1. Begun(n) /\ inbox[n].status \notin {"absent", "accepted", "failed"}
    BY <1>3, Values DEF IInv, TypeOK, Verdicts, Begun
  <2>2. eve'[n] # "none"
    BY <1>3, Values DEF Keyed, IInv, TypeOK
  <2>3. Fates[n] = "waiting" /\ FateOf(inbox'[n].status, eve'[n]) = "heard"
    BY <1>3, <2>1, <2>2, FateRows, FateValues
  <2>4. ASSUME NEW m \in Slot, m < n, Lanes[m] = Lanes[n]
        PROVE  Fates[m] \in {"recorded", "refused"}
    <3>1. Settled(m)
      BY <2>1, <2>4 DEF IInv, Ordered, Lanes
    <3>2. QED
      BY <3>1, FateRows, FateValues DEF Settled
  <2>5. Promise!Becomes(n, "heard")
    BY <1>1, <2>3, PromiseBecomes
  <2>6. QED
    BY <2>3, <2>4, <2>5 DEF Promise!Next, Promise!Hear
<1>4. QED
  BY <1>2, <1>3

LEMMA ArrivalImplements ==
    ASSUME IInv, NEW n \in Slot, NEW e \in Event, Accept(n, e)
    PROVE  Promise!Next
<1> DEFINE row == [[[NoRow EXCEPT !.event = e] EXCEPT !.identity = current]
                       EXCEPT !.status = "queued"]
<1>1. /\ inbox' = [inbox EXCEPT ![n] = row] /\ inbox[n].status = "absent"
      /\ \A m \in Slot : m < n => inbox[m].status # "absent"
      /\ ~Seen(e) /\ UNCHANGED eve
  BY DEF Accept, outside
<1>2. NoRow \in Row /\ current \in 1 .. MaxIdentities
  BY Values DEF IInv, TypeOK
<1>3. row.event = e /\ row.identity = current /\ row.status = "queued"
  BY <1>2 DEF Row
<1> HIDE DEF row
<1>4. inbox'[n] = row /\ \A m \in Slot : m # n => inbox'[m] = inbox[m]
  BY <1>1 DEF IInv, TypeOK
<1>5. eve[n] = "none"
  BY <1>1, Values DEF IInv, TypeOK, SnapshotIsWhatEveGets
<1>6. /\ Arrivals' = [Arrivals EXCEPT ![n] = e]
      /\ Lanes' = [Lanes EXCEPT ![n] = current]
  BY <1>3, <1>4 DEF Arrivals, Lanes
<1>7. Fates' = [Fates EXCEPT ![n] = "waiting"]
  BY <1>1, <1>3, <1>4, <1>5, FateRows, FateValues
<1>8. /\ Fates[n] = "absent" /\ \A m \in Slot : m < n => Fates[m] # "absent"
      /\ \A m \in Slot : Arrivals[m] # e
  BY <1>1, FateRows, FateValues DEF Seen, Arrivals
<1>9. Promise!Arrive(n, e, current)
  BY <1>6, <1>7, <1>8 DEF Promise!Arrive
<1>10. QED
  BY <1>2, <1>9 DEF Promise!Next

LEMMA ClaimImplements ==
    ASSUME IInv, Claims \/ \E i \in 1 .. MaxIdentities : ClaimNothing(i)
    PROVE  UNCHANGED Promise!vars
<1>1. ASSUME NEW i \in 1 .. MaxIdentities, ClaimNothing(i) PROVE UNCHANGED Promise!vars
  <2>1. inbox' = Swept(i) /\ UNCHANGED eve
    BY <1>1 DEF ClaimNothing, outside
  <2>2. QED
    BY <2>1, SweptRows, FateValues, PromiseStutters DEF SameRows
<1>2. ASSUME NEW d \in Drain, NEW n \in Slot, ClaimInbox(d, n) PROVE UNCHANGED Promise!vars
  <2> DEFINE rows == Swept(inbox[n].identity)
  <2>1. inbox' = [rows EXCEPT ![n] = Leased(@, d)] /\ UNCHANGED eve
    BY <1>2 DEF ClaimInbox, outside
  <2>2. inbox[n].status \notin {"absent", "accepted", "failed"}
    BY <1>2, HeadIsNext DEF ClaimInbox
  <2>3. rows[n].status # "absent" /\ WellKept(rows[n])
    BY <2>2, SweptRows
  <2>4. /\ Leased(rows[n], d).status = "dispatching"
        /\ Leased(rows[n], d).identity = inbox[n].identity
        /\ Leased(rows[n], d).event = inbox[n].event
    BY <2>3, LeasedRow, SweptRows
  <2>5. rows = [m \in Slot |-> rows[m]]
    BY DEF Swept
  <2>6. inbox'[n] = Leased(rows[n], d) /\ \A m \in Slot : m # n => inbox'[m] = rows[m]
    BY <2>1, <2>5
  <2> HIDE DEF rows
  <2>7. ASSUME NEW m \in Slot
        PROVE  /\ inbox'[m].event = inbox[m].event /\ inbox'[m].identity = inbox[m].identity
               /\ FateOf(inbox'[m].status, eve'[m]) = FateOf(inbox[m].status, eve[m])
    <3>1. CASE m = n
      BY <2>1, <2>2, <2>4, <2>6, <3>1, FateValues
    <3>2. CASE m # n
      BY <2>1, <2>6, <3>2, SweptRows, FateValues DEF rows
    <3>3. QED
      BY <3>1, <3>2
  <2>8. QED
    BY <2>7, PromiseStutters DEF SameRows
<1>3. QED
  BY <1>1, <1>2 DEF Claims

\* markAccepted, markInboxFailed and markInboxUncertain.
LEMMA MarkImplements ==
    ASSUME IInv, NEW d \in Drain, MarkInboxFailed(d) \/ MarkAccepted(d) \/ MarkInboxUncertain(d)
    PROVE  Promise!Next \/ UNCHANGED Promise!vars
<1> DEFINE n == drain[d].row
<1>1. /\ Informed(d) /\ n \in Slot /\ drain[d].pc # "idle" /\ WellKept(inbox[n]) /\ UNCHANGED eve
  BY RowsKept DEF MarkInboxFailed, MarkAccepted, MarkInboxUncertain, Marks, IInv, TypeOK, Drains,
     outside
<1>2. CASE UNCHANGED inbox
  BY <1>1, <1>2, PromiseStutters DEF SameRows
<1>3. ASSUME NEW s \in {"failed", "accepted", "uncertain"}, HoldsLease(d),
             inbox' = [inbox EXCEPT ![n] = Unleased(inbox[n], s)],
             s = "failed" => drain[d].pc = "failing", s = "accepted" => drain[d].pc = "sent"
      PROVE  Promise!Next \/ UNCHANGED Promise!vars
  <2>1. inbox[n].status = "dispatching" /\ inbox[n].lease = d
    BY <1>3 DEF HoldsLease
  <2>2. /\ Unleased(inbox[n], s).status = s /\ Unleased(inbox[n], s).event = inbox[n].event
        /\ Unleased(inbox[n], s).identity = inbox[n].identity
    BY <1>1, <2>1, UnleasedRow
  <2>3. inbox'[n] = Unleased(inbox[n], s) /\ \A m \in Slot : m # n => inbox'[m] = inbox[m]
    BY <1>1, <1>3 DEF IInv, TypeOK
  <2>4. SameRows
    BY <2>2, <2>3 DEF SameRows
  <2>5. Fates[n] = IF eve[n] = "none" THEN "waiting" ELSE "heard"
    BY <1>1, <2>1, FateRows, FateValues
  <2>6. CASE s = "uncertain"
    BY <1>1, <2>1, <2>2, <2>3, <2>4, <2>6, FateValues, PromiseStutters
  <2>7. CASE s = "accepted"
    <3>1. Fates[n] = "heard"
      BY <1>1, <1>3, <2>5, <2>7 DEF Informed
    <3>2. Promise!Becomes(n, "recorded")
      BY <1>1, <2>2, <2>3, <2>4, <2>7, FateValues, PromiseBecomes
    <3>3. QED
      BY <1>1, <3>1, <3>2 DEF Promise!Next, Promise!Record
  <2>8. CASE s = "failed"
    <3>1. inbox[n].content = "empty"
      BY <1>1, <1>3, <2>1, <2>8 DEF Informed
    <3>2. eve[n] = "none"
      BY <1>1, <3>1, Values DEF IInv, TypeOK, SnapshotIsWhatEveGets
    <3>3. Promise!Becomes(n, "refused")
      BY <1>1, <2>2, <2>3, <2>4, <2>8, FateValues, PromiseBecomes
    <3>4. QED
      BY <1>1, <2>5, <3>2, <3>3 DEF Promise!Next, Promise!Refuse
  <2>9. QED
    BY <2>6, <2>7, <2>8
<1>4. QED
  BY <1>2, <1>3 DEF MarkInboxFailed, MarkAccepted, MarkInboxUncertain, Marks

LEMMA HandoffImplements ==
    ASSUME IInv, NEW d \in Drain, Handoff(d) \/ Fails(d)
    PROVE  Promise!Next \/ UNCHANGED Promise!vars
<1>1. CASE MarkInboxFailed(d) \/ MarkAccepted(d) \/ MarkInboxUncertain(d)
  BY <1>1, MarkImplements
<1>2. CASE EveAccepts(d)
  BY <1>2, PromiseHears DEF EveAccepts, IInv, TypeOK, Drains, Informed
<1>3. CASE PrepareInboxHandoff(d)
  <2> DEFINE n == drain[d].row
  <2>1. UNCHANGED eve /\ n \in Slot /\ inbox[n] \in Row
    BY <1>3 DEF PrepareInboxHandoff, Marks, outside, IInv, TypeOK
  <2>2. \/ UNCHANGED inbox
        \/ inbox' = [inbox EXCEPT ![n] = [inbox[n] EXCEPT !.content = drain[d].content]]
    BY <1>3 DEF PrepareInboxHandoff, Marks
  <2>3. \A m \in Slot : /\ inbox'[m].event = inbox[m].event /\ inbox'[m].status = inbox[m].status
                        /\ inbox'[m].identity = inbox[m].identity
    BY <2>1, <2>2 DEF IInv, TypeOK, Row
  <2>4. QED
    BY <2>1, <2>3, PromiseStutters DEF SameRows
<1>4. CASE UNCHANGED <<inbox, eve>>
  BY <1>4, PromiseStutters DEF SameRows
<1>5. QED
  BY <1>1, <1>2, <1>3, <1>4 DEF Handoff, Fails, TakesSnapshot, EveAnswers, Recovers, Prepares,
     ReadsArtifacts, ChecksLease, LoadFails, Loads, TellsSender, SendUnknown, AnswerUnknown, Dies,
     outside

\* Whatever drains, deaths, lost answers and late requests there are, every event is heard
\* by Eve at most once, in the order of its identity's inbox, and what a settled row says
\* of it is true (store.ts, channel-session.ts).
THEOREM HandoffKeepsPromise == Spec => KeepsPromise
<1>1. Init => Promise!Init
  BY FateRows, FateValues DEF Init, NoRow, Promise!Init, Arrivals, Lanes
<1>2. IInv /\ [Next]_vars => [Promise!Next]_(Promise!vars)
  <2> SUFFICES ASSUME IInv, [Next]_vars PROVE Promise!Next \/ UNCHANGED Promise!vars
    OBVIOUS
  <2>1. ASSUME NEW n \in Slot, NEW e \in Event, Accept(n, e) PROVE Promise!Next
    BY <2>1, ArrivalImplements
  <2>2. CASE Account \/ UNCHANGED vars
    <3>1. UNCHANGED <<inbox, eve>>
      BY <2>2 DEF Account, RevokeIdentity, ArchiveAccount, DeleteArtifact, vars, outside
    <3>2. QED
      BY <3>1, PromiseStutters DEF SameRows
  <2>3. ASSUME NEW n \in Slot, LeaseRunsOut(n) PROVE UNCHANGED Promise!vars
    <3>1. inbox' = [inbox EXCEPT ![n].expires = "past"] /\ UNCHANGED eve
      BY <2>3 DEF LeaseRunsOut, outside
    <3>2. \A m \in Slot : /\ inbox'[m].event = inbox[m].event
                          /\ inbox'[m].status = inbox[m].status
                          /\ inbox'[m].identity = inbox[m].identity
      BY <3>1 DEF IInv, TypeOK, Row
    <3>3. QED
      BY <3>1, <3>2, PromiseStutters DEF SameRows
  <2>4. CASE Claims \/ \E i \in 1 .. MaxIdentities : ClaimNothing(i)
    BY <2>4, ClaimImplements
  <2>5. ASSUME NEW d \in Drain, Handoff(d) \/ Fails(d)
        PROVE  Promise!Next \/ UNCHANGED Promise!vars
    BY <2>5, HandoffImplements
  <2>6. ASSUME NEW n \in Slot, NEW c \in Content, LandsLate(n, c)
        PROVE  Promise!Next \/ UNCHANGED Promise!vars
    BY <2>6, PromiseHears DEF LandsLate, IInv, SnapshotIsWhatEveGets
  <2>7. QED
    BY <2>1, <2>2, <2>3, <2>4, <2>5, <2>6 DEF Next
<1>3. QED
  BY <1>1, <1>2, HandoffInvariant, PTL DEF Spec, KeepsPromise, Promise!Spec
=============================================================================
