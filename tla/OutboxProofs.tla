----------------------------- MODULE OutboxProofs -----------------------------
(***************************************************************************)
(* Proofs about Outbox for every number of messages, drains, rate limits   *)
(* and authorized retries: its safety properties, and that it implements   *)
(* OutboxPromise.                                                          *)
(***************************************************************************)
EXTENDS Outbox, FiniteSetTheorems, TLAPS

-----------------------------------------------------------------------------
\* The inductive invariant.

\* A drain with a request for m yet to make, under way, or answered by a refusal.  The
\* refusals count until they are recorded: their row is still dispatched.
Holds(e, m) == e.message = m /\ e.pc \in {"claimed", "sending", "limited", "rejected"}

Holders(ds, m) == {d \in Drainer : Holds(ds[d], m)}

Bit(b) == IF b THEN 1 ELSE 0

\* The copies of m, and the requests that may still put one there.
Load(m) == copies[m] + stray[m] + Cardinality(Holders(drain, m))

\* A row that is on its way, or was, has used the permit that its last claim took.
Spent(r) == r.status \notin {"absent", "queued", "failed"}

Budget == \A m \in Message : Load(m) <= retries[m] + Bit(Spent(outbox[m]))

Tried(m) == outbox[m].attempts # 0

\* Rows are enqueued in order, and tried only when every earlier one is settled.
Ordered ==
    \A m \in Message :
        /\ Tried(m) => \A n \in 1 .. m - 1 : outbox[n].status \in Settled
        /\ outbox[m].status # "absent" => \A n \in 1 .. m - 1 : outbox[n].status # "absent"

Fresh == \A m \in Message : outbox[m].status = "absent" => ~Tried(m) /\ retries[m] = 0

\* Copies, requests and drains only come from a claim, and receipts from a copy.
Traced ==
    /\ \A m \in Message : copies[m] # 0 \/ stray[m] # 0 => Tried(m)
    /\ \A d \in Drainer : drain[d].pc # "idle" => Tried(drain[d].message)
    /\ \A d \in Drainer : drain[d].pc = "receipt" => copies[drain[d].message] # 0

IInv == TypeOK /\ Budget /\ Ordered /\ Fresh /\ Traced

-----------------------------------------------------------------------------
\* Counting the drains that hold a message.

LEMMA HoldersFinite ==
    ASSUME NEW ds, NEW m
    PROVE  IsFiniteSet(Holders(ds, m)) /\ Cardinality(Holders(ds, m)) \in Nat
<1>1. Holders(ds, m) \in SUBSET Drainer
  BY DEF Holders
<1>2. QED
  BY <1>1, FS_Subset, FS_CardinalityType, OutboxAssumption

\* When one drain changes, the number of holders changes by what that drain held.
LEMMA HoldersChange ==
    ASSUME NEW ds \in [Drainer -> Drain], NEW d \in Drainer, NEW e \in Drain, NEW m
    PROVE  Cardinality(Holders([ds EXCEPT ![d] = e], m)) + Bit(Holds(ds[d], m))
               = Cardinality(Holders(ds, m)) + Bit(Holds(e, m))
<1> DEFINE next == [ds EXCEPT ![d] = e]
           rest == Holders(ds, m) \ {d}
<1>1. Holders(next, m) \ {d} = rest
  BY DEF Holders
<1>2. d \in Holders(ds, m) <=> Holds(ds[d], m)
  BY DEF Holders
<1>3. d \in Holders(next, m) <=> Holds(e, m)
  BY DEF Holders
<1>4. Cardinality(rest) = IF d \in Holders(ds, m) THEN Cardinality(Holders(ds, m)) - 1
                          ELSE Cardinality(Holders(ds, m))
  BY HoldersFinite, FS_RemoveElement
<1>5. Cardinality(rest) = IF d \in Holders(next, m) THEN Cardinality(Holders(next, m)) - 1
                          ELSE Cardinality(Holders(next, m))
  <2> HIDE DEF next
  <2>1. IsFiniteSet(Holders(next, m))
    BY HoldersFinite
  <2>2. QED
    BY <1>1, <2>1, FS_RemoveElement
<1>6. /\ Cardinality(rest) \in Nat
      /\ Cardinality(Holders(ds, m)) \in Nat
      /\ Cardinality(Holders(next, m)) \in Nat
  <2> HIDE DEF next
  <2> QED
    BY HoldersFinite, FS_RemoveElement, FS_CardinalityType
<1>7. Cardinality(Holders(ds, m)) = Cardinality(rest) + Bit(Holds(ds[d], m))
  BY <1>2, <1>4, <1>6 DEF Bit
<1> HIDE DEF next, rest
<1>8. Cardinality(Holders(next, m)) = Cardinality(rest) + Bit(Holds(e, m))
  BY <1>3, <1>5, <1>6 DEF Bit
<1>9. Bit(Holds(ds[d], m)) \in Nat /\ Bit(Holds(e, m)) \in Nat
  BY DEF Bit
<1>10. Cardinality(Holders(next, m)) + Bit(Holds(ds[d], m))
           = Cardinality(Holders(ds, m)) + Bit(Holds(e, m))
  BY <1>6, <1>7, <1>8, <1>9
<1>11. QED
  BY <1>10 DEF next

-----------------------------------------------------------------------------
\* What the statements do to a row.

WellLeased(r) == r.lease = (IF r.status = "dispatching" THEN r.attempts ELSE 0)

LEMMA RowValues ==
    /\ \A s \in {"absent", "queued", "dispatching", "uncertain", "sent", "failed", "cancelled"} :
           s \in Status
    /\ NoRow \in Row /\ WellLeased(NoRow)
    /\ NoDrain \in Drain
<1>1. \A s \in {"absent", "queued", "dispatching", "uncertain", "sent", "failed", "cancelled"} :
          s \in Status
  BY DEF Status, Settled
<1>2. NoRow \in Row /\ WellLeased(NoRow)
  BY <1>1 DEF NoRow, Row, WellLeased
<1>3. NoDrain \in Drain
  BY OutboxAssumption DEF NoDrain, Drain
<1>4. QED
  BY <1>1, <1>2, <1>3

LEMMA UnleasedRow ==
    ASSUME NEW r \in Row, NEW s \in Status, s # "dispatching"
    PROVE  /\ Unleased(r, s) \in Row /\ WellLeased(Unleased(r, s))
           /\ Unleased(r, s).status = s /\ Unleased(r, s).attempts = r.attempts
  BY DEF Unleased, WellLeased, Row

LEMMA LeasedRow ==
    ASSUME NEW r \in Row
    PROVE  /\ Leased(r) \in Row /\ WellLeased(Leased(r))
           /\ Leased(r).status = "dispatching" /\ Leased(r).attempts # 0
<1>1. r.attempts \in Nat /\ r.attempts + 1 \in Nat /\ r.attempts + 1 # 0
  BY DEF Row
<1>2. Leased(r) \in Row
  BY <1>1, RowValues DEF Leased, Row
<1>3. /\ WellLeased(Leased(r))
      /\ Leased(r).status = "dispatching" /\ Leased(r).attempts # 0
  BY <1>1 DEF Leased, WellLeased, Row
<1>4. QED
  BY <1>2, <1>3

\* r becomes s without a new attempt: enqueued rows stay, settled rows stay settled.
Moves(r, s) ==
    /\ s \in Row /\ WellLeased(s)
    /\ s.attempts = r.attempts
    /\ s.status = "absent" <=> r.status = "absent"
    /\ r.status \in Settled => s.status = r.status

LEMMA OutboxRows ==
    ASSUME TypeOK
    PROVE  \A m \in Message : outbox[m] \in Row /\ WellLeased(outbox[m])
                              /\ Moves(outbox[m], outbox[m])
  BY DEF TypeOK, WellLeased, Moves

\* The sweep of expired leases.
LEMMA SweptRows ==
    ASSUME TypeOK
    PROVE  \A m \in Message :
               /\ Moves(outbox[m], Swept[m])
               /\ \/ Swept[m].status = outbox[m].status
                  \/ outbox[m].status = "dispatching" /\ Swept[m].status = "uncertain"
<1> SUFFICES ASSUME NEW m \in Message
             PROVE  /\ Moves(outbox[m], Swept[m])
                    /\ \/ Swept[m].status = outbox[m].status
                       \/ outbox[m].status = "dispatching" /\ Swept[m].status = "uncertain"
  OBVIOUS
<1>1. outbox[m] \in Row
  BY OutboxRows
<1>2. CASE outbox[m].status = "dispatching" /\ outbox[m].expires = "past"
  <2>1. Swept[m] = Unleased(outbox[m], "uncertain")
    BY <1>2 DEF Swept
  <2>2. QED
    BY <1>1, <1>2, <2>1, UnleasedRow, RowValues DEF Moves, Settled
<1>3. CASE ~(outbox[m].status = "dispatching" /\ outbox[m].expires = "past")
  BY <1>3, OutboxRows DEF Swept
<1>4. QED
  BY <1>2, <1>3

LEMMA CancelledRows ==
    ASSUME TypeOK, NEW ms \in SUBSET Message,
           \A m \in ms : outbox[m].status \in {"queued", "dispatching"}
    PROVE  \A m \in Message :
               /\ Moves(outbox[m], Cancelled(ms)[m])
               /\ Cancelled(ms)[m].status = (IF m \in ms THEN "cancelled" ELSE outbox[m].status)
<1> SUFFICES ASSUME NEW m \in Message
             PROVE  /\ Moves(outbox[m], Cancelled(ms)[m])
                    /\ Cancelled(ms)[m].status
                           = (IF m \in ms THEN "cancelled" ELSE outbox[m].status)
  OBVIOUS
<1>1. CASE m \in ms
  <2>1. Cancelled(ms)[m] = Unleased(outbox[m], "cancelled")
    BY <1>1 DEF Cancelled
  <2>2. /\ Unleased(outbox[m], "cancelled") \in Row
        /\ WellLeased(Unleased(outbox[m], "cancelled"))
        /\ Unleased(outbox[m], "cancelled").status = "cancelled"
        /\ Unleased(outbox[m], "cancelled").attempts = outbox[m].attempts
    BY OutboxRows, UnleasedRow, RowValues
  <2>3. outbox[m].status \in {"queued", "dispatching"}
    BY <1>1
  <2>4. QED
    BY <1>1, <2>1, <2>2, <2>3 DEF Moves, Settled
<1>2. CASE m \notin ms
  BY <1>2, OutboxRows DEF Cancelled
<1>3. QED
  BY <1>1, <1>2

-----------------------------------------------------------------------------
\* What a step has to show to keep the invariant.

LEMMA LoadType ==
    ASSUME TypeOK, NEW m \in Message
    PROVE  Cardinality(Holders(drain, m)) \in Nat /\ Load(m) \in Nat
  BY HoldersFinite DEF TypeOK, Load

LEMMA StepKeeps ==
    ASSUME IInv, TypeOK', Budget', Traced',
           \A m \in Message : Moves(outbox[m], outbox'[m]),
           \A m \in Message : outbox[m].status = "absent" => retries'[m] = retries[m]
    PROVE  IInv'
<1>1. Ordered'
  <2>1. \A n \in Message : /\ outbox[n].status \in Settled => outbox'[n].status \in Settled
                           /\ outbox'[n].status = "absent" <=> outbox[n].status = "absent"
                           /\ Tried(n)' <=> Tried(n)
    BY DEF Moves, Tried
  <2>2. \A m \in Message : \A n \in 1 .. m - 1 : n \in Message
    BY OutboxAssumption DEF Message
  <2>3. QED
    BY <2>1, <2>2 DEF IInv, Ordered
<1>2. Fresh'
  BY DEF IInv, Fresh, Moves, Tried
<1>3. QED
  BY <1>1, <1>2 DEF IInv

\* A step that changes rows and audit records only.
LEMMA RowsStep ==
    ASSUME IInv, outbox' = [m \in Message |-> outbox'[m]],
           \A m \in Message : Moves(outbox[m], outbox'[m]),
           active' \in BOOLEAN, retries' \in [Message -> 0 .. MaxRetries],
           vouched' \subseteq Message, UNCHANGED <<drain, provider>>,
           \A m \in Message : outbox[m].status = "absent" => retries'[m] = retries[m],
           \A m \in Message : retries[m] + Bit(Spent(outbox[m]))
                                  <= retries'[m] + Bit(Spent(outbox'[m]))
    PROVE  IInv'
<1> USE DEF provider
<1>1. TypeOK'
  <2>1. \A m \in Message : outbox'[m] \in Row
    BY DEF Moves
  <2>2. outbox' \in [Message -> Row]
    BY <2>1
  <2>3. QED
    BY <2>2 DEF IInv, TypeOK, Moves, WellLeased
<1>2. Budget'
  <2> SUFFICES ASSUME NEW m \in Message
               PROVE  Load(m)' <= retries'[m] + Bit(Spent(outbox'[m]))
    BY DEF Budget
  <2>1. Load(m)' = Load(m) /\ Load(m) <= retries[m] + Bit(Spent(outbox[m])) /\ Load(m) \in Nat
    BY LoadType DEF Load, IInv, Budget
  <2>2. retries[m] \in Nat /\ retries'[m] \in Nat
    BY OutboxAssumption DEF IInv, TypeOK
  <2>3. Bit(Spent(outbox[m])) \in Nat /\ Bit(Spent(outbox'[m])) \in Nat
    BY DEF Bit
  <2>4. QED
    BY <2>1, <2>2, <2>3
<1>3. Traced'
  BY DEF IInv, TypeOK, Traced, Tried, Moves
<1>4. QED
  BY <1>1, <1>2, <1>3, StepKeeps

\* A step of drain d, which is e afterwards and may change the row of its message.
LEMMA DrainStep ==
    ASSUME IInv, NEW d \in Drainer, NEW e \in Drain, drain[d].pc # "idle",
           drain' = [drain EXCEPT ![d] = e],
           e.pc # "idle" => e.message = drain[d].message,
           e.pc = "receipt" => copies'[e.message] # 0,
           UNCHANGED <<active, audit>>, limits' \in 0 .. MaxLimits,
           copies' \in [Message -> Nat], stray' \in [Message -> Nat],
           \A m \in Message : copies[m] # 0 => copies'[m] # 0,
           \A m \in Message : m # drain[d].message => copies'[m] = copies[m] /\ stray'[m] = stray[m],
           outbox' = [m \in Message |-> outbox'[m]],
           \A m \in Message : Moves(outbox[m], outbox'[m]),
           \A m \in Message :
               copies'[m] + stray'[m] + Bit(Holds(e, m)) + Bit(Spent(outbox[m]))
                   <= copies[m] + stray[m] + Bit(Holds(drain[d], m)) + Bit(Spent(outbox'[m]))
    PROVE  IInv'
<1> USE DEF audit
<1>1. TypeOK'
  <2>1. outbox' \in [Message -> Row]
    BY DEF Moves
  <2>2. drain' \in [Drainer -> Drain]
    BY DEF IInv, TypeOK
  <2>3. \A c \in Drainer : drain'[c].pc # "idle" => drain'[c].message \in Message
    BY DEF IInv, TypeOK
  <2>4. QED
    BY <2>1, <2>2, <2>3 DEF IInv, TypeOK, Moves, WellLeased
<1>2. Budget'
  <2> SUFFICES ASSUME NEW m \in Message
               PROVE  Load(m)' <= retries'[m] + Bit(Spent(outbox'[m]))
    BY DEF Budget
  <2>1. Cardinality(Holders(drain', m)) + Bit(Holds(drain[d], m))
            = Cardinality(Holders(drain, m)) + Bit(Holds(e, m))
    BY HoldersChange DEF IInv, TypeOK
  <2>2. Cardinality(Holders(drain, m)) \in Nat /\ Cardinality(Holders(drain', m)) \in Nat
    BY HoldersFinite
  <2>3. /\ retries[m] \in Nat /\ retries'[m] = retries[m]
        /\ copies[m] \in Nat /\ copies'[m] \in Nat /\ stray[m] \in Nat /\ stray'[m] \in Nat
    BY OutboxAssumption DEF IInv, TypeOK
  <2>4. /\ Bit(Spent(outbox[m])) \in Nat /\ Bit(Spent(outbox'[m])) \in Nat
        /\ Bit(Holds(drain[d], m)) \in Nat /\ Bit(Holds(e, m)) \in Nat
    BY DEF Bit
  <2>5. copies[m] + stray[m] + Cardinality(Holders(drain, m)) <= retries[m] + Bit(Spent(outbox[m]))
    BY DEF IInv, Budget, Load
  <2>6. copies'[m] + stray'[m] + Bit(Holds(e, m)) + Bit(Spent(outbox[m]))
            <= copies[m] + stray[m] + Bit(Holds(drain[d], m)) + Bit(Spent(outbox'[m]))
    OBVIOUS
  <2>7. copies'[m] + stray'[m] + Cardinality(Holders(drain', m))
            <= retries'[m] + Bit(Spent(outbox'[m]))
    BY <2>1, <2>2, <2>3, <2>4, <2>5, <2>6
  <2>8. QED
    BY <2>7 DEF Load
<1>3. Traced'
  <2>1. \A m \in Message : Tried(m)' <=> Tried(m)
    BY DEF Moves, Tried
  <2>2. drain[d].message \in Message /\ Tried(drain[d].message)
    BY DEF IInv, TypeOK, Traced
  <2>3. \A c \in Drainer : drain[c].pc # "idle" => drain[c].message \in Message
    BY DEF IInv, TypeOK
  <2>4. \A m \in Message : copies'[m] # 0 \/ stray'[m] # 0 => Tried(m)'
    BY <2>1, <2>2 DEF IInv, Traced
  <2>5. ASSUME NEW c \in Drainer
        PROVE  /\ drain'[c].pc # "idle" => outbox'[drain'[c].message].attempts # 0
               /\ drain'[c].pc = "receipt" => copies'[drain'[c].message] # 0
    <3>1. drain'[c] = IF c = d THEN e ELSE drain[c]
      BY DEF IInv, TypeOK
    <3>2. \A m \in Message : outbox'[m].attempts = outbox[m].attempts
      BY DEF Moves
    <3>3. CASE c = d
      BY <3>1, <3>2, <3>3, <2>2 DEF Tried
    <3>4. CASE c # d
      BY <3>1, <3>2, <3>4, <2>3 DEF IInv, Traced, Tried
    <3>5. QED
      BY <3>3, <3>4
  <2>6. QED
    BY <2>4, <2>5 DEF Traced, Tried
<1>4. QED
  BY <1>1, <1>2, <1>3, StepKeeps DEF IInv, TypeOK

-----------------------------------------------------------------------------
\* The steps that enqueue or claim a message: the only ones that change which rows
\* exist and which were tried.

LEMMA EnqueueKeeps ==
    ASSUME IInv, NEW last \in Message, NEW report \in BOOLEAN, Enqueue(last, report)
    PROVE  IInv'
<1> DEFINE text == {m \in 1 .. last : outbox[m].status = "absent"}
           new == [NoRow EXCEPT !.status = "queued", !.report = report]
<1> USE DEF audit, provider
<1>1. /\ new \in Row /\ WellLeased(new)
      /\ new.status = "queued" /\ new.attempts = 0
  BY RowValues DEF NoRow, Row, WellLeased
<1>2. \A m \in Message : outbox'[m] = IF m \in text THEN new ELSE outbox[m]
  BY DEF Enqueue
<1>3. UNCHANGED <<active, drain, retries, vouched, copies, stray, limits>>
  BY DEF Enqueue
<1>4. \A m \in Message : m \in text <=> m <= last /\ outbox[m].status = "absent"
  BY OutboxAssumption DEF Message
<1> HIDE DEF text, new
<1>5. TypeOK'
  <2>1. \A m \in Message : outbox'[m] \in Row /\ WellLeased(outbox'[m])
    BY <1>1, <1>2, OutboxRows DEF IInv
  <2>2. outbox' \in [Message -> Row]
    BY <2>1 DEF Enqueue
  <2>3. QED
    BY <2>1, <2>2, <1>3 DEF IInv, TypeOK, WellLeased
<1>6. \A m \in Message : outbox'[m].attempts = outbox[m].attempts
  BY <1>1, <1>2, <1>4 DEF IInv, Fresh, Tried
<1>7. Budget'
  <2> SUFFICES ASSUME NEW m \in Message
               PROVE  Load(m)' <= retries'[m] + Bit(Spent(outbox'[m]))
    BY DEF Budget
  <2>1. Bit(Spent(outbox'[m])) = Bit(Spent(outbox[m]))
    BY <1>1, <1>2, <1>4 DEF Bit, Spent
  <2>2. QED
    BY <2>1, <1>3 DEF IInv, Budget, Load
<1>8. Ordered'
  <2> SUFFICES ASSUME NEW m \in Message, NEW n \in 1 .. m - 1
               PROVE  /\ Tried(m)' => outbox'[n].status \in Settled
                      /\ outbox'[m].status # "absent" => outbox'[n].status # "absent"
    BY DEF Ordered
  <2>1. n \in Message /\ n < m
    BY OutboxAssumption DEF Message
  <2>2. Tried(m)' => outbox[n].status \in Settled
    BY <1>6 DEF IInv, Ordered, Tried
  <2>3. outbox[n].status \in Settled => n \notin text
    BY <1>4, <2>1 DEF Settled
  <2>4. CASE outbox[m].status # "absent"
    BY <2>1, <2>2, <2>3, <2>4, <1>1, <1>2 DEF IInv, Ordered
  <2>5. CASE outbox[m].status = "absent" /\ m \notin text
    BY <2>1, <2>2, <2>3, <2>5, <1>1, <1>2
  <2>6. CASE m \in text
    <3>1. n <= last
      BY <2>1, <2>6, <1>4, OutboxAssumption DEF Message
    <3>2. outbox'[n].status # "absent"
      BY <3>1, <2>1, <1>1, <1>2, <1>4
    <3>3. QED
      BY <3>2, <2>1, <2>2, <2>3, <1>2
  <2>7. QED
    BY <2>4, <2>5, <2>6
<1>9. Fresh'
  BY <1>1, <1>2, <1>3, <1>6 DEF IInv, Fresh, Tried
<1>10. Traced'
  BY <1>3, <1>6 DEF IInv, TypeOK, Traced, Tried
<1>11. QED
  BY <1>5, <1>7, <1>8, <1>9, <1>10 DEF IInv

LEMMA ClaimMessageKeeps ==
    ASSUME IInv, NEW d \in Drainer, NEW m \in Message, ClaimMessage(d, m)
    PROVE  IInv'
<1> DEFINE e == [pc |-> "claimed", message |-> m, lease |-> outbox[m].attempts + 1]
<1> USE DEF audit, provider
<1>1. UNCHANGED <<active, retries, vouched, copies, stray, limits>>
  BY DEF ClaimMessage
<1>2. \A n \in Message :
          /\ Moves(outbox[n], Swept[n])
          /\ \/ Swept[n].status = outbox[n].status
             \/ outbox[n].status = "dispatching" /\ Swept[n].status = "uncertain"
  BY SweptRows DEF IInv
<1>3. /\ Leased(Swept[m]) \in Row /\ WellLeased(Leased(Swept[m]))
      /\ Leased(Swept[m]).status = "dispatching" /\ Leased(Swept[m]).attempts # 0
  BY <1>2, LeasedRow DEF Moves
<1>4. outbox' = [n \in Message |-> IF n = m THEN Leased(Swept[m]) ELSE Swept[n]]
  BY DEF ClaimMessage, Swept
<1>5. Swept[m].status = "queued" /\ outbox[m].status = "queued"
  BY <1>2 DEF ClaimMessage, IsHead
<1>6. e \in Drain
  <2>1. outbox[m].attempts + 1 \in Nat
    BY OutboxRows DEF IInv, Row
  <2>2. m \in 0 .. MaxMessages
    BY OutboxAssumption DEF Message
  <2>3. QED
    BY <2>1, <2>2 DEF Drain
<1>7. drain[d].pc = "idle" /\ drain' = [drain EXCEPT ![d] = e]
  BY DEF ClaimMessage
<1>8. TypeOK'
  <2>1. \A n \in Message : outbox'[n] \in Row /\ WellLeased(outbox'[n])
    BY <1>2, <1>3, <1>4 DEF Moves
  <2>2. outbox' \in [Message -> Row]
    BY <2>1, <1>4
  <2>3. drain' \in [Drainer -> Drain]
        /\ \A c \in Drainer : drain'[c].pc # "idle" => drain'[c].message \in Message
    BY <1>6, <1>7 DEF IInv, TypeOK
  <2>4. QED
    BY <2>1, <2>2, <2>3, <1>1 DEF IInv, TypeOK, WellLeased
<1>9. Budget'
  <2> SUFFICES ASSUME NEW n \in Message
               PROVE  Load(n)' <= retries'[n] + Bit(Spent(outbox'[n]))
    BY DEF Budget
  <2>1. Cardinality(Holders(drain', n)) + Bit(Holds(drain[d], n))
            = Cardinality(Holders(drain, n)) + Bit(Holds(e, n))
    BY <1>6, <1>7, HoldersChange DEF IInv, TypeOK
  <2>2. /\ Bit(Holds(drain[d], n)) = 0
        /\ Bit(Holds(e, n)) = IF n = m THEN 1 ELSE 0
    BY <1>7 DEF Bit, Holds
  <2>3. Cardinality(Holders(drain, n)) \in Nat /\ Cardinality(Holders(drain', n)) \in Nat
    BY HoldersFinite
  <2>4. Cardinality(Holders(drain', n))
            = Cardinality(Holders(drain, n)) + (IF n = m THEN 1 ELSE 0)
    BY <2>1, <2>2, <2>3
  <2>5. copies[n] + stray[n] + Cardinality(Holders(drain, n)) <= retries[n] + Bit(Spent(outbox[n]))
    BY DEF IInv, Budget, Load
  <2>6. Bit(Spent(outbox'[n])) = Bit(Spent(outbox[n])) + (IF n = m THEN 1 ELSE 0)
    <3>1. CASE n = m
      BY <3>1, <1>3, <1>4, <1>5 DEF Bit, Spent
    <3>2. CASE n # m
      <4>1. Spent(outbox'[n]) <=> Spent(outbox[n])
        BY <3>2, <1>2, <1>4 DEF Spent
      <4>2. QED
        BY <4>1, <3>2 DEF Bit
    <3>3. QED
      BY <3>1, <3>2
  <2>7. /\ copies[n] \in Nat /\ stray[n] \in Nat /\ retries[n] \in Nat
        /\ Bit(Spent(outbox[n])) \in Nat
    BY OutboxAssumption DEF IInv, TypeOK, Bit
  <2>8. copies[n] + stray[n] + Cardinality(Holders(drain', n))
            <= retries[n] + Bit(Spent(outbox'[n]))
    BY <2>3, <2>4, <2>5, <2>6, <2>7
  <2>9. QED
    BY <2>8, <1>1 DEF Load
<1>10. \A n \in Message : n # m => Moves(outbox[n], outbox'[n])
  BY <1>2, <1>4
<1>11. \A n \in 1 .. m - 1 : n \in Message /\ outbox[n].status \in Settled
  <2> SUFFICES ASSUME NEW n \in 1 .. m - 1
               PROVE  n \in Message /\ outbox[n].status \in Settled
    OBVIOUS
  <2>1. n \in Message /\ n < m
    BY OutboxAssumption DEF Message
  <2>2. Swept[n].status \notin {"dispatching", "uncertain", "queued"}
    BY <2>1 DEF ClaimMessage, Blocked, IsHead
  <2>3. outbox[n].status \in Status /\ outbox[n].status # "absent"
    BY <2>1, <1>5, OutboxRows DEF IInv, Ordered, Row
  <2>4. QED
    BY <2>1, <2>2, <2>3, <1>2 DEF Status
<1>12. Ordered'
  <2> SUFFICES ASSUME NEW k \in Message, NEW n \in 1 .. k - 1
               PROVE  /\ Tried(k)' => outbox'[n].status \in Settled
                      /\ outbox'[k].status # "absent" => outbox'[n].status # "absent"
    BY DEF Ordered
  <2>1. n \in Message
    BY OutboxAssumption DEF Message
  <2>2. outbox[k].status # "absent" => outbox[n].status # "absent"
    BY DEF IInv, Ordered
  <2>3. outbox[n].status \in Settled => outbox'[n].status \in Settled
    BY <2>1, <1>5, <1>10 DEF Moves, Settled
  <2>4. outbox'[k].status # "absent" => outbox'[n].status # "absent"
    BY <2>1, <2>2, <1>3, <1>4, <1>5, <1>10 DEF Moves
  <2>5. Tried(k)' => outbox[n].status \in Settled
    <3>1. CASE k = m
      BY <3>1, <1>11
    <3>2. CASE k # m
      BY <3>2, <1>10 DEF IInv, Ordered, Tried, Moves
    <3>3. QED
      BY <3>1, <3>2
  <2>6. QED
    BY <2>3, <2>4, <2>5
<1>13. Fresh'
  BY <1>1, <1>3, <1>4, <1>10 DEF IInv, Fresh, Tried, Moves
<1>14. \A n \in Message : Tried(n) => Tried(n)'
  BY <1>3, <1>4, <1>10 DEF Tried, Moves
<1>15. Traced'
  <2>1. \A n \in Message : copies'[n] # 0 \/ stray'[n] # 0 => Tried(n)'
    BY <1>1, <1>14 DEF IInv, Traced
  <2>2. ASSUME NEW c \in Drainer
        PROVE  /\ drain'[c].pc # "idle" => outbox'[drain'[c].message].attempts # 0
               /\ drain'[c].pc = "receipt" => copies'[drain'[c].message] # 0
    <3>1. drain'[c] = IF c = d THEN e ELSE drain[c]
      BY <1>7 DEF IInv, TypeOK
    <3>2. CASE c = d
      BY <3>1, <3>2, <1>3, <1>4
    <3>3. CASE c # d
      BY <3>1, <3>3, <1>1, <1>14 DEF IInv, TypeOK, Traced, Tried
    <3>4. QED
      BY <3>2, <3>3
  <2>3. QED
    BY <2>1, <2>2 DEF Traced, Tried
<1>16. QED
  BY <1>8, <1>9, <1>12, <1>13, <1>15 DEF IInv

-----------------------------------------------------------------------------
\* The steps that only touch rows and audit records: time, a claim that takes nothing,
\* the operator and the account changes.

LEMMA ClockClaimKeeps ==
    ASSUME IInv, (\E m \in Message : ExpiryPasses(m)) \/ ClaimNothing \/ ClaimRevoked
    PROVE  IInv'
<1> USE DEF audit, provider
<1>1. ASSUME UNCHANGED <<active, drain, audit, provider>>,
             outbox' = [m \in Message |-> outbox'[m]],
             \A m \in Message : /\ Moves(outbox[m], outbox'[m])
                                /\ Spent(outbox[m]) => Spent(outbox'[m])
      PROVE  IInv'
  <2>1. \A m \in Message : retries[m] + Bit(Spent(outbox[m]))
                                <= retries'[m] + Bit(Spent(outbox'[m]))
    BY <1>1, OutboxAssumption DEF IInv, TypeOK, Bit
  <2>2. QED
    BY <1>1, <2>1, RowsStep DEF IInv, TypeOK
<1>2. ASSUME NEW m \in Message, ExpiryPasses(m) PROVE IInv'
  <2>1. /\ outbox' = [n \in Message |-> outbox'[n]]
        /\ \A n \in Message : n # m => outbox'[n] = outbox[n]
        /\ outbox'[m] = [outbox[m] EXCEPT !.expires = "past"]
    BY <1>2 DEF ExpiryPasses, IInv, TypeOK
  <2>2. Moves(outbox[m], outbox'[m]) /\ outbox'[m].status = outbox[m].status
    BY <2>1, OutboxRows DEF IInv, Moves, WellLeased, Row
  <2>3. \A n \in Message : Moves(outbox[n], outbox'[n]) /\ outbox'[n].status = outbox[n].status
    BY <2>1, <2>2, OutboxRows DEF IInv
  <2>4. QED
    BY <2>1, <2>3, <1>1, <1>2 DEF ExpiryPasses, Spent
<1>3. \A m \in Message : /\ Moves(outbox[m], Swept[m])
                         /\ \/ Swept[m].status = outbox[m].status
                            \/ outbox[m].status = "dispatching" /\ Swept[m].status = "uncertain"
  BY SweptRows DEF IInv
<1>4. CASE ClaimNothing
  <2>1. outbox' = Swept /\ outbox' = [m \in Message |-> outbox'[m]]
    BY <1>4 DEF ClaimNothing, Swept
  <2>2. QED
    BY <2>1, <1>1, <1>3, <1>4 DEF ClaimNothing, Spent
<1>5. CASE ClaimRevoked
  <2>1. outbox' = [m \in Message |-> outbox'[m]]
    BY <1>5 DEF ClaimRevoked
  <2>2. ASSUME NEW m \in Message
        PROVE  Moves(outbox[m], outbox'[m]) /\ (Spent(outbox[m]) => Spent(outbox'[m]))
    <3>1. CASE Swept[m].status = "queued"
      <4>1. outbox'[m] = [Swept[m] EXCEPT !.status = "cancelled"]
        BY <1>5, <3>1 DEF ClaimRevoked
      <4>2. QED
        BY <4>1, <3>1, <1>3, RowValues DEF Moves, WellLeased, Row, Spent, Settled
    <3>2. CASE Swept[m].status # "queued"
      BY <3>2, <1>3, <1>5 DEF ClaimRevoked, Spent
    <3>3. QED
      BY <3>1, <3>2
  <2>3. QED
    BY <2>1, <2>2, <1>1, <1>5 DEF ClaimRevoked
<1>6. QED
  BY <1>2, <1>4, <1>5

LEMMA ResolveKeeps ==
    ASSUME IInv, NEW m \in Message, Resolve(m)
    PROVE  IInv'
<1> USE DEF audit, provider
<1>1. ASSUME NEW s \in {"sent", "queued", "cancelled"}, outbox[m].status = "uncertain",
             outbox' = [outbox EXCEPT ![m] = Unleased(@, s)]
      PROVE  /\ outbox' = [n \in Message |-> outbox'[n]]
             /\ \A n \in Message : Moves(outbox[n], outbox'[n])
             /\ \A n \in Message : n # m => outbox'[n] = outbox[n]
             /\ outbox'[m].status = s
  <2>1. s \in Status /\ s # "dispatching" /\ s # "absent"
    BY RowValues
  <2>2. /\ outbox' = [n \in Message |-> outbox'[n]]
        /\ \A n \in Message : n # m => outbox'[n] = outbox[n]
        /\ outbox'[m] = Unleased(outbox[m], s)
    BY <1>1 DEF IInv, TypeOK
  <2>3. Moves(outbox[m], outbox'[m]) /\ outbox'[m].status = s
    BY <1>1, <2>1, <2>2, UnleasedRow, OutboxRows DEF IInv, Moves, Settled
  <2>4. QED
    BY <2>2, <2>3, OutboxRows DEF IInv
<1>2. \A n \in Message : retries[n] \in Nat
  BY OutboxAssumption DEF IInv, TypeOK
<1>3. CASE ResolveDelivered(m)
  <2>1. \A n \in Message : retries[n] + Bit(Spent(outbox[n]))
                                <= retries'[n] + Bit(Spent(outbox'[n]))
    BY <1>1, <1>2, <1>3 DEF ResolveDelivered, Bit, Spent
  <2>2. QED
    BY <2>1, <1>1, <1>3, RowsStep DEF ResolveDelivered, IInv, TypeOK
<1>4. CASE ResolveRetry(m)
  <2>1. retries' \in [Message -> 0 .. MaxRetries]
    BY <1>4, OutboxAssumption DEF ResolveRetry, IInv, TypeOK
  <2>2. \A n \in Message : retries'[n] = IF n = m THEN retries[n] + 1 ELSE retries[n]
    BY <1>4 DEF ResolveRetry, IInv, TypeOK
  <2>3. \A n \in Message : retries[n] + Bit(Spent(outbox[n]))
                                <= retries'[n] + Bit(Spent(outbox'[n]))
    BY <2>2, <1>1, <1>2, <1>4 DEF ResolveRetry, Bit, Spent
  <2>4. outbox[m].status # "absent"
    BY <1>4 DEF ResolveRetry
  <2>5. QED
    BY <2>1, <2>2, <2>3, <2>4, <1>1, <1>4, RowsStep DEF ResolveRetry, IInv, TypeOK
<1>5. CASE ResolveCancel(m)
  <2>1. \A n \in Message : retries[n] + Bit(Spent(outbox[n]))
                                <= retries'[n] + Bit(Spent(outbox'[n]))
    BY <1>1, <1>2, <1>5 DEF ResolveCancel, Bit, Spent
  <2>2. QED
    BY <2>1, <1>1, <1>5, RowsStep DEF ResolveCancel, IInv, TypeOK
<1>6. QED
  BY <1>3, <1>4, <1>5 DEF Resolve

LEMMA AccountKeeps ==
    ASSUME IInv, Account
    PROVE  IInv'
<1> USE DEF audit, provider
<1>1. ASSUME NEW ms \in SUBSET Message, outbox' = Cancelled(ms),
             \A m \in ms : outbox[m].status \in {"queued", "dispatching"},
             active' \in BOOLEAN, UNCHANGED <<drain, audit, provider>>
      PROVE  IInv'
  <2>1. \A m \in Message :
            /\ Moves(outbox[m], outbox'[m])
            /\ outbox'[m].status = (IF m \in ms THEN "cancelled" ELSE outbox[m].status)
    BY <1>1, CancelledRows DEF IInv
  <2>2. \A m \in Message : retries[m] + Bit(Spent(outbox[m]))
                                <= retries'[m] + Bit(Spent(outbox'[m]))
    BY <1>1, <2>1, OutboxAssumption DEF IInv, TypeOK, Bit, Spent
  <2>3. outbox' = [m \in Message |-> outbox'[m]]
    BY <1>1 DEF Cancelled
  <2>4. QED
    BY <1>1, <2>1, <2>2, <2>3, RowsStep DEF IInv, TypeOK
<1>2. CASE RevokeIdentity
  <2>1. outbox' = Cancelled({}) /\ {} \in SUBSET Message
    BY <1>2 DEF RevokeIdentity, Cancelled, IInv, TypeOK
  <2>2. active' \in BOOLEAN /\ UNCHANGED <<drain, audit, provider>>
    BY <1>2 DEF RevokeIdentity
  <2>3. QED
    BY <2>1, <2>2, <1>1
<1>3. CASE ArchiveAccount
  <2> DEFINE queued == {m \in Message : outbox[m].status = "queued"}
  <2>1. outbox' = Cancelled(queued) /\ queued \in SUBSET Message
    BY <1>3 DEF ArchiveAccount
  <2>2. active' \in BOOLEAN /\ UNCHANGED <<drain, audit, provider>>
    BY <1>3 DEF ArchiveAccount
  <2>3. \A m \in queued : outbox[m].status \in {"queued", "dispatching"}
    OBVIOUS
  <2> HIDE DEF queued
  <2>4. QED
    BY <2>1, <2>2, <2>3, <1>1
<1>4. CASE DeleteAccount
  <2>1. outbox' = Cancelled(PendingReports) /\ PendingReports \in SUBSET Message
    BY <1>4 DEF DeleteAccount, PendingReports
  <2>2. active' \in BOOLEAN /\ UNCHANGED <<drain, audit, provider>>
    BY <1>4 DEF DeleteAccount
  <2>3. \A m \in PendingReports : outbox[m].status \in {"queued", "dispatching"}
    BY DEF PendingReports
  <2>4. QED
    BY <2>1, <2>2, <2>3, <1>1
<1>5. ASSUME NEW gone \in SUBSET Message, RemoveMember(gone) PROVE IInv'
  BY <1>1, <1>5 DEF RemoveMember, PendingReports, IInv, TypeOK
<1>6. QED
  BY <1>2, <1>3, <1>4, <1>5 DEF Account

-----------------------------------------------------------------------------
\* The steps of the drains and of late requests.

\* What becomes of a drain keeps its message, or is nothing.
LEMMA DrainValues ==
    ASSUME TypeOK, NEW d \in Drainer, drain[d].pc # "idle",
           NEW pc \in {"sending", "receipt", "unknown", "limited", "rejected"}
    PROVE  /\ [drain[d] EXCEPT !.pc = pc] \in Drain
           /\ [drain[d] EXCEPT !.pc = pc].pc = pc
           /\ [drain[d] EXCEPT !.pc = pc].message = drain[d].message
           /\ drain[d].message \in Message
           /\ drain[d].message # 0
<1>1. drain[d] \in Drain /\ drain[d].message \in Message
  BY DEF TypeOK
<1>2. [drain[d] EXCEPT !.pc = pc] \in Drain
  BY <1>1 DEF Drain
<1>3. QED
  BY <1>1, <1>2, OutboxAssumption DEF Drain, Message

\* A step of a drain that leaves the rows alone: what it adds to the provider's side
\* comes out of its claim.
LEMMA AnswerKeeps ==
    ASSUME IInv, NEW d \in Drainer, NEW e \in Drain, drain[d].pc # "idle",
           drain' = [drain EXCEPT ![d] = e],
           e.pc # "idle" => e.message = drain[d].message,
           UNCHANGED <<outbox, active, audit>>, limits' \in 0 .. MaxLimits,
           NEW a \in {0, 1}, NEW b \in {0, 1},
           copies' = [copies EXCEPT ![drain[d].message] = @ + a],
           stray' = [stray EXCEPT ![drain[d].message] = @ + b],
           e.pc = "receipt" => a = 1,
           a + b + Bit(Holds(e, drain[d].message)) <= Bit(Holds(drain[d], drain[d].message))
    PROVE  IInv'
<1> DEFINE m0 == drain[d].message
<1>1. m0 \in Message /\ copies \in [Message -> Nat] /\ stray \in [Message -> Nat]
  BY DEF IInv, TypeOK
<1>2. /\ copies' \in [Message -> Nat] /\ stray' \in [Message -> Nat]
      /\ \A m \in Message : m # m0 => copies'[m] = copies[m] /\ stray'[m] = stray[m]
      /\ copies'[m0] = copies[m0] + a /\ stray'[m0] = stray[m0] + b
  BY <1>1
<1>3. \A m \in Message : copies[m] # 0 => copies'[m] # 0
  BY <1>1, <1>2
<1>4. e.pc = "receipt" => copies'[e.message] # 0
  BY <1>1, <1>2
<1>5. \A m \in Message : Moves(outbox[m], outbox'[m])
  BY OutboxRows DEF IInv
<1>6. outbox' = [m \in Message |-> outbox'[m]]
  BY DEF IInv, TypeOK
<1>7. ASSUME NEW m \in Message
      PROVE  copies'[m] + stray'[m] + Bit(Holds(e, m)) + Bit(Spent(outbox[m]))
                 <= copies[m] + stray[m] + Bit(Holds(drain[d], m)) + Bit(Spent(outbox'[m]))
  <2>1. Bit(Spent(outbox'[m])) = Bit(Spent(outbox[m])) /\ Bit(Spent(outbox[m])) \in Nat
    BY DEF Bit
  <2>2. Bit(Holds(e, m)) \in Nat /\ Bit(Holds(drain[d], m)) \in Nat
    BY DEF Bit
  <2>3. CASE m = m0
    BY <2>1, <2>2, <2>3, <1>1, <1>2
  <2>4. CASE m # m0
    <3>1. Bit(Holds(e, m)) = 0
      BY <2>4 DEF Bit, Holds
    <3>2. QED
      BY <2>1, <2>2, <2>4, <3>1, <1>1, <1>2
  <2>5. QED
    BY <2>3, <2>4
<1> HIDE DEF m0
<1>8. \A m \in Message : m # drain[d].message => copies'[m] = copies[m] /\ stray'[m] = stray[m]
  BY <1>2 DEF m0
<1>9. QED
  BY <1>2, <1>3, <1>4, <1>5, <1>6, <1>7, <1>8, DrainStep

LEMMA SendKeeps ==
    ASSUME IInv, NEW d \in Drainer, Send(d) \/ Crash(d)
    PROVE  IInv'
<1> DEFINE m0 == drain[d].message
<1> USE DEF audit, provider
<1>1. drain[d].pc # "idle" /\ m0 \in Message /\ m0 # 0
  BY DrainValues DEF Send, Crash, PreflightRefuses, ChecksLease, ProviderDelivers, ProviderBreaks,
         ProviderTimesOut, ProviderLimits, ProviderRejects, IInv, TypeOK, Message
<1>2. /\ copies \in [Message -> Nat] /\ stray \in [Message -> Nat]
      /\ copies = [copies EXCEPT ![m0] = @ + 0] /\ stray = [stray EXCEPT ![m0] = @ + 0]
  <2>1. copies \in [Message -> Nat] /\ stray \in [Message -> Nat]
    BY DEF IInv, TypeOK
  <2>2. copies[m0] \in Nat /\ stray[m0] \in Nat
    BY <2>1, <1>1
  <2>3. QED
    BY <2>1, <2>2
<1>3. NoDrain \in Drain /\ NoDrain.pc = "idle" /\ Bit(Holds(NoDrain, m0)) = 0
  BY <1>1, RowValues DEF NoDrain, Holds, Bit
<1>4. limits \in 0 .. MaxLimits /\ drain \in [Drainer -> Drain]
  BY DEF IInv, TypeOK
<1>5. Bit(Holds(drain[d], m0)) \in {0, 1}
  BY DEF Bit
<1>6. drain[d].pc \in {"claimed", "sending"} => Bit(Holds(drain[d], m0)) = 1
  BY DEF Bit, Holds
<1>7. \A pc \in {"sending", "receipt", "unknown", "limited", "rejected"} :
          /\ [drain[d] EXCEPT !.pc = pc] \in Drain
          /\ [drain[d] EXCEPT !.pc = pc].pc = pc
          /\ [drain[d] EXCEPT !.pc = pc].message = m0
          /\ Bit(Holds([drain[d] EXCEPT !.pc = pc], m0)) = IF pc \in {"receipt", "unknown"} THEN 0 ELSE 1
  <2> SUFFICES ASSUME NEW pc \in {"sending", "receipt", "unknown", "limited", "rejected"}
               PROVE  /\ [drain[d] EXCEPT !.pc = pc] \in Drain
                      /\ [drain[d] EXCEPT !.pc = pc].pc = pc
                      /\ [drain[d] EXCEPT !.pc = pc].message = m0
                      /\ Bit(Holds([drain[d] EXCEPT !.pc = pc], m0))
                             = IF pc \in {"receipt", "unknown"} THEN 0 ELSE 1
    OBVIOUS
  <2>1. /\ [drain[d] EXCEPT !.pc = pc] \in Drain
        /\ [drain[d] EXCEPT !.pc = pc].pc = pc
        /\ [drain[d] EXCEPT !.pc = pc].message = m0
    BY <1>1, DrainValues DEF IInv
  <2>2. QED
    BY <2>1 DEF Bit, Holds
<1>8. \A pc : Answered(d, pc) <=> drain' = [drain EXCEPT ![d] = [drain[d] EXCEPT !.pc = pc]]
  BY <1>4 DEF Answered
<1>9. ASSUME NEW pc \in {"sending", "receipt", "unknown", "limited", "rejected"}, Answered(d, pc),
             UNCHANGED <<outbox, active, audit>>, limits' \in 0 .. MaxLimits,
             NEW a \in {0, 1}, NEW b \in {0, 1},
             copies' = [copies EXCEPT ![m0] = @ + a],
             stray' = [stray EXCEPT ![m0] = @ + b],
             pc = "receipt" => a = 1,
             a + b + (IF pc \in {"receipt", "unknown"} THEN 0 ELSE 1) <= 1,
             drain[d].pc \in {"claimed", "sending"}
      PROVE  IInv'
  <2> DEFINE e == [drain[d] EXCEPT !.pc = pc]
  <2>1. /\ e \in Drain /\ e.pc = pc /\ e.message = m0
        /\ Bit(Holds(e, m0)) = IF pc \in {"receipt", "unknown"} THEN 0 ELSE 1
    BY <1>7, <1>9
  <2>2. drain' = [drain EXCEPT ![d] = e]
    BY <1>8, <1>9
  <2>3. a + b + Bit(Holds(e, m0)) <= Bit(Holds(drain[d], m0))
    BY <2>1, <1>6, <1>9
  <2> HIDE DEF e
  <2>4. QED
    BY <2>1, <2>2, <2>3, <1>1, <1>9, AnswerKeeps
<1>10. ASSUME drain' = [drain EXCEPT ![d] = NoDrain],
              UNCHANGED <<outbox, active, audit, limits>>, UNCHANGED copies,
              NEW b \in {0, 1}, stray' = [stray EXCEPT ![m0] = @ + b],
              b = 1 => drain[d].pc = "sending"
       PROVE  IInv'
  <2>1. 0 + b + Bit(Holds(NoDrain, m0)) <= Bit(Holds(drain[d], m0))
    BY <1>3, <1>5, <1>6, <1>10
  <2>2. copies' = [copies EXCEPT ![m0] = @ + 0]
    BY <1>2, <1>10
  <2>3. QED
    BY <2>1, <2>2, <1>1, <1>3, <1>4, <1>10, AnswerKeeps
<1> HIDE DEF m0
<1>11. CASE PreflightRefuses(d)
  BY <1>11, <1>2, <1>4, <1>9 DEF PreflightRefuses
<1>12. CASE ChecksLease(d)
  BY <1>12, <1>2, <1>4, <1>9, <1>10 DEF ChecksLease
<1>13. CASE ProviderDelivers(d)
  BY <1>13, <1>2, <1>4, <1>9 DEF ProviderDelivers, m0
<1>14. CASE ProviderBreaks(d)
  BY <1>14, <1>2, <1>4, <1>9 DEF ProviderBreaks
<1>15. CASE ProviderTimesOut(d)
  BY <1>15, <1>2, <1>4, <1>9 DEF ProviderTimesOut, m0
<1>16. CASE ProviderLimits(d)
  <2>1. limits' \in 0 .. MaxLimits
    BY <1>16, <1>4, OutboxAssumption DEF ProviderLimits
  <2>2. QED
    BY <2>1, <1>16, <1>2, <1>9 DEF ProviderLimits
<1>17. CASE ProviderRejects(d)
  BY <1>17, <1>2, <1>4, <1>9 DEF ProviderRejects
<1>18. CASE Crash(d)
  BY <1>18, <1>2, <1>10 DEF Crash, m0
<1>19. QED
  BY <1>11, <1>12, <1>13, <1>14, <1>15, <1>16, <1>17, <1>18 DEF Send

\* Recording an answer: a row that gives its permit back does so for a request that
\* put nothing into the conversation.
LEMMA RecordKeeps ==
    ASSUME IInv, NEW d \in Drainer, Record(d)
    PROVE  IInv'
<1> DEFINE m0 == drain[d].message
<1> USE DEF audit, provider
<1>1. drain[d].pc # "idle" /\ m0 \in Message /\ m0 # 0
  BY OutboxAssumption DEF Record, MarkSent, MarkFailed, MarkUncertain, ScheduleRetry, IInv, TypeOK, Message
<1>2. /\ outbox[m0] \in Row /\ outbox \in [Message -> Row] /\ limits \in 0 .. MaxLimits
      /\ copies \in [Message -> Nat] /\ stray \in [Message -> Nat]
  BY <1>1 DEF IInv, TypeOK
<1>3. /\ NoDrain \in Drain /\ NoDrain.pc = "idle"
      /\ \A m \in Message : Bit(Holds(NoDrain, m)) = 0
  BY RowValues, OutboxAssumption DEF NoDrain, Holds, Bit, Message
<1>4. ASSUME NEW r, Recorded(d, r),
             HoldsLease(d) => /\ Moves(outbox[m0], r)
                              /\ Spent(r) \/ Holds(drain[d], m0)
      PROVE  IInv'
  <2>1. /\ outbox' = [m \in Message |-> outbox'[m]]
        /\ \A m \in Message : m # m0 => outbox'[m] = outbox[m]
        /\ outbox'[m0] = outbox[m0] \/ (outbox'[m0] = r /\ HoldsLease(d))
    BY <1>1, <1>2, <1>4 DEF Recorded
  <2>2. \A m \in Message : Moves(outbox[m], outbox'[m])
    BY <2>1, <1>4, OutboxRows DEF IInv
  <2>3. /\ drain' = [drain EXCEPT ![d] = NoDrain]
        /\ UNCHANGED <<active, audit, provider>>
    BY <1>4 DEF Recorded
  <2>4. ASSUME NEW m \in Message
        PROVE  copies'[m] + stray'[m] + Bit(Holds(NoDrain, m)) + Bit(Spent(outbox[m]))
                   <= copies[m] + stray[m] + Bit(Holds(drain[d], m)) + Bit(Spent(outbox'[m]))
    <3>1. /\ Bit(Spent(outbox[m])) \in {0, 1} /\ Bit(Spent(outbox'[m])) \in {0, 1}
          /\ Bit(Holds(drain[d], m)) \in {0, 1}
      BY DEF Bit
    <3>2. Bit(Spent(outbox[m])) <= Bit(Holds(drain[d], m)) + Bit(Spent(outbox'[m]))
      <4>1. CASE outbox'[m] = outbox[m]
        BY <3>1, <4>1
      <4>2. CASE m = m0 /\ outbox'[m0] = r /\ HoldsLease(d)
        BY <3>1, <4>2, <1>4 DEF Bit
      <4>3. QED
        BY <2>1, <4>1, <4>2
    <3>3. copies'[m] = copies[m] /\ stray'[m] = stray[m] /\ copies[m] \in Nat /\ stray[m] \in Nat
      BY <2>3, <1>2
    <3>4. QED
      BY <3>1, <3>2, <3>3, <1>3
  <2>5. /\ copies' \in [Message -> Nat] /\ stray' \in [Message -> Nat]
        /\ limits' \in 0 .. MaxLimits
        /\ \A m \in Message : copies[m] # 0 => copies'[m] # 0
    BY <2>3, <1>2
  <2>6. QED
    BY <2>1, <2>2, <2>3, <2>4, <2>5, <1>1, <1>3, DrainStep
<1>5. HoldsLease(d) => outbox[m0].status = "dispatching"
  BY DEF HoldsLease
<1>6. ASSUME NEW s \in {"sent", "failed", "uncertain"}, HoldsLease(d)
      PROVE  Moves(outbox[m0], Unleased(outbox[m0], s)) /\ Unleased(outbox[m0], s).status = s
  <2>1. s \in Status /\ s # "dispatching" /\ s # "absent"
    BY RowValues
  <2>2. QED
    BY <2>1, <1>2, <1>5, <1>6, UnleasedRow DEF Moves, Settled
<1>7. CASE MarkSent(d)
  BY <1>7, <1>4, <1>6 DEF MarkSent, Spent
<1>8. CASE MarkFailed(d)
  BY <1>8, <1>4, <1>6 DEF MarkFailed, Holds
<1>9. CASE MarkUncertain(d)
  BY <1>9, <1>4, <1>6 DEF MarkUncertain, Spent
<1>10. CASE ScheduleRetry(d)
  <2> DEFINE r == [outbox[m0] EXCEPT !.status = "queued", !.lease = 0, !.expires = "ahead"]
  <2>1. HoldsLease(d) => Moves(outbox[m0], r)
    BY <1>2, <1>5, RowValues DEF Moves, WellLeased, Settled, Row
  <2>2. Holds(drain[d], m0) /\ Recorded(d, r)
    BY <1>10 DEF ScheduleRetry, Holds
  <2> HIDE DEF r
  <2>3. QED
    BY <2>1, <2>2, <1>4
<1>11. QED
  BY <1>7, <1>8, <1>9, <1>10 DEF Record

\* A request that nobody waits for arrives, or is lost.
LEMMA StrayKeeps ==
    ASSUME IInv, NEW m \in Message, StrayLands(m)
    PROVE  IInv'
<1> USE DEF audit, provider
<1>1. copies \in [Message -> Nat] /\ stray \in [Message -> Nat] /\ stray[m] # 0
  BY DEF IInv, TypeOK, StrayLands
<1>2. UNCHANGED <<outbox, active, drain, retries, vouched, limits>>
  BY DEF StrayLands
<1>3. /\ stray' \in [Message -> Nat] /\ copies' \in [Message -> Nat]
      /\ \A n \in Message : n # m => copies'[n] = copies[n] /\ stray'[n] = stray[n]
      /\ copies'[m] + stray'[m] <= copies[m] + stray[m]
      /\ \A n \in Message : copies[n] # 0 => copies'[n] # 0
  <2>1. stray' = [stray EXCEPT ![m] = @ - 1] /\ stray[m] - 1 \in Nat
    BY <1>1 DEF StrayLands
  <2>2. CASE copies' = [copies EXCEPT ![m] = @ + 1]
    BY <1>1, <2>1, <2>2
  <2>3. CASE copies' = copies
    BY <1>1, <2>1, <2>3
  <2>4. QED
    BY <2>2, <2>3 DEF StrayLands
<1>4. TypeOK'
  BY <1>2, <1>3 DEF IInv, TypeOK
<1>5. Budget'
  <2> SUFFICES ASSUME NEW n \in Message
               PROVE  Load(n)' <= retries'[n] + Bit(Spent(outbox'[n]))
    BY DEF Budget
  <2>1. copies'[n] + stray'[n] <= copies[n] + stray[n]
    BY <1>1, <1>3
  <2>2. /\ copies[n] \in Nat /\ stray[n] \in Nat /\ copies'[n] \in Nat /\ stray'[n] \in Nat
        /\ Cardinality(Holders(drain, n)) \in Nat /\ Bit(Spent(outbox[n])) \in Nat
        /\ retries[n] \in Nat
    BY <1>1, <1>3, HoldersFinite, OutboxAssumption DEF IInv, TypeOK, Bit
  <2>3. copies[n] + stray[n] + Cardinality(Holders(drain, n)) <= retries[n] + Bit(Spent(outbox[n]))
    BY DEF IInv, Budget, Load
  <2>4. copies'[n] + stray'[n] + Cardinality(Holders(drain, n)) <= retries[n] + Bit(Spent(outbox[n]))
    BY <2>1, <2>2, <2>3
  <2>5. QED
    BY <2>4, <1>2 DEF Load
<1>6. Traced'
  BY <1>1, <1>2, <1>3 DEF IInv, TypeOK, Traced, Tried
<1>7. \A n \in Message : Moves(outbox[n], outbox'[n])
  BY <1>2, OutboxRows DEF IInv
<1>8. QED
  BY <1>2, <1>4, <1>5, <1>6, <1>7, StepKeeps

-----------------------------------------------------------------------------
\* The safety properties.

LEMMA InitiallyIInv == Init => IInv
<1> SUFFICES ASSUME Init PROVE IInv
  OBVIOUS
<1> USE DEF Init
<1>1. TypeOK
  BY RowValues, OutboxAssumption DEF TypeOK, NoRow, NoDrain
<1>2. Budget
  <2> SUFFICES ASSUME NEW m \in Message PROVE Load(m) <= retries[m] + Bit(Spent(outbox[m]))
    BY DEF Budget
  <2>1. Holders(drain, m) = {}
    BY DEF Holders, Holds, NoDrain
  <2>2. Cardinality(Holders(drain, m)) = 0
    BY <2>1, FS_EmptySet
  <2>3. QED
    BY <2>2 DEF Load, Bit
<1>3. Ordered /\ Fresh
  BY OutboxAssumption DEF Ordered, Fresh, Tried, NoRow, Message
<1>4. Traced
  BY DEF Traced, NoDrain
<1>5. QED
  BY <1>1, <1>2, <1>3, <1>4 DEF IInv

LEMMA NextIInv == IInv /\ [Next]_vars => IInv'
<1> SUFFICES ASSUME IInv, [Next]_vars PROVE IInv'
  OBVIOUS
<1>1. ASSUME NEW last \in Message, NEW report \in BOOLEAN, Enqueue(last, report) PROVE IInv'
  BY <1>1, EnqueueKeeps
<1>2. ASSUME NEW d \in Drainer, Claim(d) \/ Send(d) \/ Record(d) \/ Crash(d) PROVE IInv'
  BY <1>2, ClockClaimKeeps, ClaimMessageKeeps, SendKeeps, RecordKeeps DEF Claim
<1>3. ASSUME NEW m \in Message, ExpiryPasses(m) \/ StrayLands(m) \/ Resolve(m) PROVE IInv'
  BY <1>3, ClockClaimKeeps, StrayKeeps, ResolveKeeps
<1>4. CASE Account
  BY <1>4, AccountKeeps
<1>5. CASE UNCHANGED vars
  BY <1>5 DEF vars, audit, provider, IInv, TypeOK, Budget, Load, Ordered, Fresh, Traced, Tried
<1>6. QED
  BY <1>1, <1>2, <1>3, <1>4, <1>5 DEF Next

\* IInv is inductive: in particular no message has more copies, late requests and
\* drains at work than it was permitted.
THEOREM LaneInvariant == Spec => []IInv
  BY InitiallyIInv, NextIInv, PTL DEF Spec

\* Rows, drains and counters keep within their states.
THEOREM LaneTypeCorrect == Spec => []TypeOK
<1>1. IInv => TypeOK
  BY DEF IInv
<1>2. QED
  BY <1>1, LaneInvariant, PTL

LEMMA InvariantBoundsCopies == IInv => AtMostOnce
<1> SUFFICES ASSUME IInv, NEW m \in Message PROVE copies[m] <= 1 + retries[m]
  BY DEF AtMostOnce
<1>1. copies[m] + stray[m] + Cardinality(Holders(drain, m)) <= retries[m] + Bit(Spent(outbox[m]))
  BY DEF IInv, Budget, Load
<1>2. /\ copies[m] \in Nat /\ stray[m] \in Nat /\ retries[m] \in Nat
      /\ Cardinality(Holders(drain, m)) \in Nat /\ Bit(Spent(outbox[m])) \in {0, 1}
  BY HoldersFinite, OutboxAssumption DEF IInv, TypeOK, Bit
<1>3. QED
  BY <1>1, <1>2

LEMMA InvariantKeepsOrder == IInv => InOrder
  BY DEF IInv, TypeOK, Traced, Ordered, InOrder

\* However many drains, crashes, lost answers, late requests and rate limits there are,
\* a message is in the conversation once, plus once per duplicate authorized.
THEOREM CopiesAreBounded == Spec => []AtMostOnce
  BY InvariantBoundsCopies, LaneInvariant, PTL

\* A message in the conversation has only settled messages before it.
THEOREM OrderIsKept == Spec => []InOrder
  BY InvariantKeepsOrder, LaneInvariant, PTL

-----------------------------------------------------------------------------
\* The lane implements OutboxPromise.  Every step is shown to be a step of the
\* promise or to change nothing that the promise speaks of.

FateOf(r) == IF r.status \in {"queued", "dispatching", "uncertain"} THEN "open" ELSE r.status

LEMMA FateRows ==
    /\ Fate = [m \in Message |-> FateOf(outbox[m])]
    /\ Fate' = [m \in Message |-> FateOf(outbox'[m])]
    /\ Permits = [m \in Message |-> IF FateOf(outbox[m]) = "absent" THEN 0 ELSE 1 + retries[m]]
    /\ Permits' = [m \in Message |-> IF FateOf(outbox'[m]) = "absent" THEN 0 ELSE 1 + retries'[m]]
  BY DEF Fate, Permits, FateOf

\* What the promise does not see: a claim, a check, a rate limit, an unknown answer.
LEMMA FateStutters ==
    ASSUME \A m \in Message : FateOf(outbox'[m]) = FateOf(outbox[m]),
           UNCHANGED <<retries, vouched, copies>>
    PROVE  UNCHANGED Promise!vars
  BY FateRows DEF Promise!vars

LEMMA FateCancels ==
    ASSUME NEW dropped \in SUBSET Message,
           \A m \in dropped : FateOf(outbox[m]) = "open",
           \A m \in Message : FateOf(outbox'[m])
                                  = IF m \in dropped THEN "cancelled" ELSE FateOf(outbox[m]),
           UNCHANGED <<retries, vouched, copies>>
    PROVE  Promise!Next
<1>1. /\ \A m \in dropped : Fate[m] = "open"
      /\ Fate' = [m \in Message |-> IF m \in dropped THEN "cancelled" ELSE Fate[m]]
  BY FateRows
<1>2. Permits' = Permits
  BY FateRows
<1>3. Promise!Cancel(dropped)
  BY <1>1, <1>2 DEF Promise!Cancel
<1>4. QED
  BY <1>3 DEF Promise!Next

\* Budget after the step leaves a permit for the new copy, and Ordered has settled
\* what comes before it.
LEMMA FateDelivers ==
    ASSUME IInv, IInv', NEW m \in Message,
           copies' = [copies EXCEPT ![m] = @ + 1],
           UNCHANGED <<outbox, retries, vouched>>
    PROVE  Promise!Next
<1>1. /\ copies[m] \in Nat /\ copies'[m] = copies[m] + 1 /\ retries[m] \in Nat
  BY OutboxAssumption DEF IInv, TypeOK
<1>2. Tried(m)
  BY <1>1 DEF IInv, Traced, Tried
<1>3. outbox[m].status # "absent"
  BY <1>2 DEF IInv, Fresh
<1>4. Fate' = Fate /\ Permits' = Permits
  BY FateRows
<1>5. Permits[m] = 1 + retries[m] /\ Fate[m] = FateOf(outbox[m])
  BY <1>3, FateRows DEF FateOf
<1>6. copies[m] + 1 <= retries[m] + Bit(Spent(outbox[m]))
  <2>1. copies'[m] + stray'[m] + Cardinality(Holders(drain', m))
            <= retries[m] + Bit(Spent(outbox[m]))
    BY DEF IInv, Budget, Load
  <2>2. stray'[m] \in Nat /\ Cardinality(Holders(drain', m)) \in Nat /\ Bit(Spent(outbox[m])) \in Nat
    BY HoldersFinite DEF IInv, TypeOK, Bit
  <2>3. QED
    BY <1>1, <2>1, <2>2
<1>7. copies[m] < Permits[m]
  BY <1>1, <1>5, <1>6 DEF Bit
<1>8. Fate[m] = "failed" => Permits[m] > 1
  <2> SUFFICES ASSUME Fate[m] = "failed" PROVE Permits[m] > 1
    OBVIOUS
  <2>1. outbox[m].status = "failed"
    BY <1>5 DEF FateOf
  <2>2. Bit(Spent(outbox[m])) = 0
    BY <2>1 DEF Spent, Bit
  <2>3. QED
    BY <1>1, <1>5, <1>6, <2>2
<1>9. \A earlier \in Message : earlier < m => Fate[earlier] \in Promise!Settled
  <2> SUFFICES ASSUME NEW earlier \in Message, earlier < m PROVE Fate[earlier] \in Promise!Settled
    OBVIOUS
  <2>1. earlier \in 1 .. m - 1
    BY OutboxAssumption DEF Message
  <2>2. outbox[earlier].status \in Settled
    BY <1>2, <2>1 DEF IInv, Ordered
  <2>3. QED
    BY <2>2, FateRows DEF FateOf, Settled, Promise!Settled
<1>10. Promise!Deliver(m)
  BY <1>4, <1>7, <1>8, <1>9 DEF Promise!Deliver
<1>11. QED
  BY <1>10 DEF Promise!Next

LEMMA FateSettles ==
    ASSUME IInv, IInv', NEW m \in Message, NEW verdict \in {"sent", "failed"},
           FateOf(outbox[m]) = "open", outbox'[m].status = verdict,
           \A n \in Message : n # m => outbox'[n] = outbox[n],
           verdict = "sent" => copies[m] # 0,
           UNCHANGED <<retries, vouched, copies>>
    PROVE  Promise!Next
<1>1. /\ copies[m] \in Nat /\ retries[m] \in Nat
  BY OutboxAssumption DEF IInv, TypeOK
<1>2. FateOf(outbox'[m]) = verdict
  BY DEF FateOf
<1>3. \A n \in Message : FateOf(outbox'[n]) = IF n = m THEN verdict ELSE FateOf(outbox[n])
  BY <1>2
<1>4. Fate' = [Fate EXCEPT ![m] = verdict] /\ Fate[m] = "open"
  BY <1>3, FateRows
<1>5. Permits' = Permits /\ Permits[m] = 1 + retries[m]
  BY <1>3, FateRows
<1>6. verdict = "failed" => copies[m] = 0 \/ Permits[m] > 1
  <2> SUFFICES ASSUME verdict = "failed" PROVE copies[m] = 0 \/ Permits[m] > 1
    OBVIOUS
  <2>1. Bit(Spent(outbox'[m])) = 0
    BY DEF Spent, Bit
  <2>2. copies[m] + stray'[m] + Cardinality(Holders(drain', m)) <= retries[m]
    BY <1>1, <2>1 DEF IInv, Budget, Load
  <2>3. stray'[m] \in Nat /\ Cardinality(Holders(drain', m)) \in Nat
    BY HoldersFinite DEF IInv, TypeOK
  <2>4. QED
    BY <1>1, <1>5, <2>2, <2>3
<1>7. Promise!Settle(m, verdict)
  BY <1>1, <1>4, <1>5, <1>6 DEF Promise!Settle
<1>8. QED
  BY <1>7 DEF Promise!Next

LEMMA SweptFates ==
    ASSUME IInv
    PROVE  \A m \in Message : /\ FateOf(Swept[m]) = FateOf(outbox[m])
                              /\ Swept[m] \in Row
                              /\ Swept[m].status = "queued" => outbox[m].status = "queued"
  BY SweptRows DEF IInv, FateOf, Moves

LEMMA EnqueueImplements ==
    ASSUME IInv, NEW last \in Message, NEW report \in BOOLEAN, Enqueue(last, report)
    PROVE  Promise!Next
<1> DEFINE text == {m \in 1 .. last : outbox[m].status = "absent"}
           r0 == [NoRow EXCEPT !.status = "queued", !.report = report]
<1>1. text \in SUBSET Message
  BY OutboxAssumption DEF Message
<1>2. outbox' = [m \in Message |-> IF m \in text THEN r0 ELSE outbox[m]]
      /\ UNCHANGED <<retries, vouched, copies>>
  BY DEF Enqueue, audit, provider
<1>3. FateOf(r0) = "open"
  BY DEF FateOf, NoRow
<1>4. \A m \in text : FateOf(outbox[m]) = "absent" /\ retries[m] = 0
  <2>1. \A m \in text : outbox[m].status = "absent"
    OBVIOUS
  <2> HIDE DEF text
  <2>2. QED
    BY <1>1, <2>1 DEF IInv, Fresh, FateOf
<1> HIDE DEF text, r0
<1>5. \A m \in Message : FateOf(outbox'[m]) = IF m \in text THEN "open" ELSE FateOf(outbox[m])
  BY <1>2, <1>3
<1>6. /\ \A m \in text : Fate[m] = "absent"
      /\ Fate' = [m \in Message |-> IF m \in text THEN "open" ELSE Fate[m]]
  BY <1>1, <1>4, <1>5, FateRows
<1>7. Permits' = [m \in Message |-> IF m \in text THEN 1 ELSE Permits[m]]
  BY <1>1, <1>2, <1>4, <1>5, FateRows
<1>8. Promise!Accept(text)
  BY <1>2, <1>6, <1>7 DEF Promise!Accept
<1>9. QED
  BY <1>1, <1>8 DEF Promise!Next

LEMMA ClaimImplements ==
    ASSUME IInv, NEW d \in Drainer, Claim(d)
    PROVE  Promise!Next \/ UNCHANGED Promise!vars
<1> USE DEF audit, provider
<1>1. CASE ClaimNothing
  BY <1>1, SweptFates, FateStutters DEF ClaimNothing
<1>2. CASE ClaimRevoked
  <2> DEFINE dropped == {m \in Message : Swept[m].status = "queued"}
  <2>1. outbox' = [m \in Message |-> IF m \in dropped THEN [Swept[m] EXCEPT !.status = "cancelled"]
                                     ELSE Swept[m]]
    BY <1>2 DEF ClaimRevoked
  <2>2. \A m \in dropped : FateOf(outbox[m]) = "open" /\ FateOf(outbox'[m]) = "cancelled"
    BY <2>1, SweptFates DEF FateOf, Row
  <2>3. \A m \in Message : m \notin dropped => FateOf(outbox'[m]) = FateOf(outbox[m])
    BY <2>1, SweptFates
  <2>4. dropped \in SUBSET Message /\ UNCHANGED <<retries, vouched, copies>>
    BY <1>2 DEF ClaimRevoked
  <2> HIDE DEF dropped
  <2>5. QED
    BY <2>2, <2>3, <2>4, FateCancels
<1>3. ASSUME NEW m \in Message, ClaimMessage(d, m)
      PROVE  UNCHANGED Promise!vars
  <2>1. outbox' = [Swept EXCEPT ![m] = Leased(@)] /\ Swept[m].status = "queued"
    BY <1>3 DEF ClaimMessage, IsHead
  <2>2. Swept = [n \in Message |-> Swept[n]]
    BY DEF Swept
  <2>3. FateOf(Leased(Swept[m])) = "open" /\ FateOf(Swept[m]) = "open"
    BY <2>1, SweptFates, LeasedRow DEF FateOf
  <2>4. \A n \in Message : FateOf(outbox'[n]) = FateOf(outbox[n])
    BY <2>1, <2>2, <2>3, SweptFates
  <2>5. QED
    BY <1>3, <2>4, FateStutters DEF ClaimMessage
<1>4. QED
  BY <1>1, <1>2, <1>3 DEF Claim

LEMMA SendImplements ==
    ASSUME IInv, IInv', NEW d \in Drainer, Send(d)
    PROVE  Promise!Next \/ UNCHANGED Promise!vars
<1> USE DEF audit, provider
<1>1. CASE ProviderDelivers(d)
  <2>1. drain[d].message \in Message
    BY <1>1 DEF ProviderDelivers, IInv, TypeOK
  <2>2. QED
    BY <1>1, <2>1, FateDelivers DEF ProviderDelivers
<1>2. CASE ~ProviderDelivers(d)
  <2>1. UNCHANGED <<outbox, retries, vouched, copies>>
    BY <1>2 DEF Send, PreflightRefuses, ChecksLease, ProviderBreaks, ProviderTimesOut,
                ProviderLimits, ProviderRejects
  <2>2. QED
    BY <2>1, FateStutters
<1>3. QED
  BY <1>1, <1>2

LEMMA RecordImplements ==
    ASSUME IInv, IInv', NEW d \in Drainer, Record(d)
    PROVE  Promise!Next \/ UNCHANGED Promise!vars
<1> DEFINE m0 == drain[d].message
<1> USE DEF audit, provider
<1>1. drain[d].pc # "idle"
  BY DEF Record, MarkSent, MarkFailed, MarkUncertain, ScheduleRetry
<1>2. m0 \in Message /\ outbox \in [Message -> Row] /\ outbox[m0] \in Row
  BY <1>1 DEF IInv, TypeOK
<1>3. UNCHANGED <<retries, vouched, copies>>
  BY DEF Record, MarkSent, MarkFailed, MarkUncertain, ScheduleRetry, Recorded
<1>4. CASE ~HoldsLease(d)
  <2>1. outbox' = outbox
    BY <1>4 DEF Record, MarkSent, MarkFailed, MarkUncertain, ScheduleRetry, Recorded
  <2>2. QED
    BY <2>1, <1>3, FateStutters
<1>5. CASE HoldsLease(d)
  <2>1. outbox[m0].status = "dispatching" /\ FateOf(outbox[m0]) = "open"
    BY <1>5 DEF HoldsLease, FateOf
  <2>2. ASSUME NEW r, Recorded(d, r)
        PROVE  outbox'[m0] = r /\ \A m \in Message : m # m0 => outbox'[m] = outbox[m]
    <3>1. outbox' = [outbox EXCEPT ![m0] = r]
      BY <2>2, <1>5 DEF Recorded
    <3> HIDE DEF m0
    <3>2. QED
      BY <1>2, <3>1
  <2>3. \A s \in {"sent", "failed", "uncertain"} : Unleased(outbox[m0], s).status = s
    <3> HIDE DEF m0
    <3>1. {"sent", "failed", "uncertain"} \subseteq Status \ {"dispatching"}
      BY RowValues
    <3>2. QED
      BY <1>2, <3>1, UnleasedRow
  <2>4. CASE MarkSent(d)
    <3>1. outbox'[m0].status = "sent" /\ \A m \in Message : m # m0 => outbox'[m] = outbox[m]
      BY <2>2, <2>3, <2>4 DEF MarkSent
    <3>2. copies[m0] # 0
      BY <2>4 DEF MarkSent, IInv, Traced
    <3> HIDE DEF m0
    <3>3. QED
      BY <1>2, <1>3, <2>1, <3>1, <3>2, FateSettles
  <2>5. CASE MarkFailed(d)
    <3>1. outbox'[m0].status = "failed" /\ \A m \in Message : m # m0 => outbox'[m] = outbox[m]
      BY <2>2, <2>3, <2>5 DEF MarkFailed
    <3> HIDE DEF m0
    <3>2. QED
      BY <1>2, <1>3, <2>1, <3>1, FateSettles
  <2>6. CASE MarkUncertain(d) \/ ScheduleRetry(d)
    <3>1. CASE MarkUncertain(d)
      BY <1>3, <2>1, <2>2, <2>3, <3>1, FateStutters DEF MarkUncertain, FateOf
    <3>2. CASE ScheduleRetry(d)
      <4> DEFINE r == [outbox[m0] EXCEPT !.status = "queued", !.lease = 0, !.expires = "ahead"]
      <4>1. FateOf(r) = "open" /\ Recorded(d, r)
        BY <1>2, <3>2 DEF ScheduleRetry, FateOf, Row
      <4> HIDE DEF r
      <4>2. QED
        BY <1>3, <2>1, <2>2, <4>1, FateStutters
    <3>3. QED
      BY <2>6, <3>1, <3>2
  <2>7. QED
    BY <2>4, <2>5, <2>6 DEF Record
<1>6. QED
  BY <1>4, <1>5

LEMMA ResolveImplements ==
    ASSUME IInv, NEW m \in Message, Resolve(m)
    PROVE  Promise!Next
<1> USE DEF audit, provider
<1>1. outbox \in [Message -> Row] /\ outbox[m] \in Row /\ retries \in [Message -> 0 .. MaxRetries]
  BY DEF IInv, TypeOK
<1>2. outbox[m].status = "uncertain" /\ FateOf(outbox[m]) = "open"
  BY DEF Resolve, ResolveDelivered, ResolveRetry, ResolveCancel, FateOf
<1>3. \A s \in {"sent", "queued", "cancelled"} : Unleased(outbox[m], s).status = s
  BY <1>1, UnleasedRow, RowValues
<1>4. CASE ResolveDelivered(m)
  <2>1. \A n \in Message : FateOf(outbox'[n]) = IF n = m THEN "sent" ELSE FateOf(outbox[n])
    BY <1>1, <1>3, <1>4 DEF ResolveDelivered, FateOf
  <2>2. Fate[m] = "open" /\ Fate' = [Fate EXCEPT ![m] = "sent"]
    BY <1>2, <2>1, FateRows
  <2>3. Permits' = Permits
    BY <1>2, <1>4, <2>1, FateRows DEF ResolveDelivered
  <2>4. Promise!Vouch(m)
    BY <1>4, <2>2, <2>3 DEF ResolveDelivered, Promise!Vouch
  <2>5. QED
    BY <2>4 DEF Promise!Next
<1>5. CASE ResolveRetry(m)
  <2>1. \A n \in Message : FateOf(outbox'[n]) = FateOf(outbox[n])
    BY <1>1, <1>2, <1>3, <1>5 DEF ResolveRetry, FateOf
  <2>2. Fate[m] = "open" /\ Fate' = Fate
    BY <1>2, <2>1, FateRows
  <2>3. retries' = [retries EXCEPT ![m] = @ + 1] /\ retries[m] \in Nat
    BY <1>1, <1>5, OutboxAssumption DEF ResolveRetry
  <2>4. Permits' = [Permits EXCEPT ![m] = @ + 1]
    <3>1. \A n \in Message : Permits'[n] = IF n = m THEN Permits[m] + 1 ELSE Permits[n]
      BY <1>1, <1>2, <2>1, <2>3, FateRows
    <3>2. QED
      BY <3>1, FateRows
  <2>5. Promise!Permit(m)
    BY <1>5, <2>2, <2>4 DEF ResolveRetry, Promise!Permit
  <2>6. QED
    BY <2>5 DEF Promise!Next
<1>6. CASE ResolveCancel(m)
  <2>1. \A n \in Message : FateOf(outbox'[n]) = IF n \in {m} THEN "cancelled" ELSE FateOf(outbox[n])
    BY <1>1, <1>3, <1>6 DEF ResolveCancel, FateOf
  <2>2. UNCHANGED <<retries, vouched, copies>>
    BY <1>6 DEF ResolveCancel
  <2>3. QED
    BY <1>2, <2>1, <2>2, FateCancels
<1>7. QED
  BY <1>4, <1>5, <1>6 DEF Resolve

LEMMA AccountImplements ==
    ASSUME IInv, Account
    PROVE  Promise!Next \/ UNCHANGED Promise!vars
<1> USE DEF audit, provider
<1>1. ASSUME NEW ms \in SUBSET Message,
             \A m \in ms : outbox[m].status \in {"queued", "dispatching"},
             outbox' = Cancelled(ms), UNCHANGED <<retries, vouched, copies>>
      PROVE  Promise!Next
  <2>1. \A m \in Message : Cancelled(ms)[m].status
                               = IF m \in ms THEN "cancelled" ELSE outbox[m].status
    BY <1>1, CancelledRows DEF IInv
  <2>2. \A m \in Message : FateOf(outbox'[m])
                               = IF m \in ms THEN "cancelled" ELSE FateOf(outbox[m])
    BY <1>1, <2>1 DEF FateOf
  <2>3. \A m \in ms : FateOf(outbox[m]) = "open"
    BY <1>1 DEF FateOf
  <2>4. QED
    BY <1>1, <2>2, <2>3, FateCancels
<1>2. CASE RevokeIdentity
  BY <1>2, FateStutters DEF RevokeIdentity
<1>3. CASE ArchiveAccount
  <2> DEFINE ms == {m \in Message : outbox[m].status = "queued"}
  <2>1. /\ ms \in SUBSET Message /\ \A m \in ms : outbox[m].status \in {"queued", "dispatching"}
        /\ outbox' = Cancelled(ms) /\ UNCHANGED <<retries, vouched, copies>>
    BY <1>3 DEF ArchiveAccount
  <2> HIDE DEF ms
  <2>2. QED
    BY <2>1, <1>1
<1>4. PendingReports \in SUBSET Message
      /\ \A m \in PendingReports : outbox[m].status \in {"queued", "dispatching"}
  BY DEF PendingReports
<1>5. CASE DeleteAccount
  BY <1>5, <1>4, <1>1 DEF DeleteAccount
<1>6. ASSUME NEW gone \in SUBSET Message, RemoveMember(gone)
      PROVE  Promise!Next
  BY <1>6, <1>4, <1>1 DEF RemoveMember
<1>7. QED
  BY <1>2, <1>3, <1>5, <1>6 DEF Account

LEMMA InitImplements == Init => Promise!Init
<1> SUFFICES ASSUME Init PROVE Promise!Init
  OBVIOUS
<1>1. \A m \in Message : FateOf(outbox[m]) = "absent"
  BY DEF Init, FateOf, NoRow
<1>2. QED
  BY <1>1, FateRows DEF Init, Promise!Init

LEMMA NextImplements == IInv /\ IInv' /\ [Next]_vars => [Promise!Next]_(Promise!vars)
<1> SUFFICES ASSUME IInv, IInv', [Next]_vars
             PROVE  Promise!Next \/ UNCHANGED Promise!vars
  OBVIOUS
<1>1. ASSUME NEW last \in Message, NEW report \in BOOLEAN, Enqueue(last, report)
      PROVE  Promise!Next
  BY <1>1, EnqueueImplements
<1>2. ASSUME NEW d \in Drainer, Claim(d) \/ Send(d) \/ Record(d)
      PROVE  Promise!Next \/ UNCHANGED Promise!vars
  BY <1>2, ClaimImplements, SendImplements, RecordImplements
<1>3. ASSUME NEW d \in Drainer, Crash(d)
      PROVE  UNCHANGED Promise!vars
  BY <1>3, FateStutters DEF Crash, audit
<1>4. ASSUME NEW m \in Message, ExpiryPasses(m)
      PROVE  UNCHANGED Promise!vars
  <2>1. \A n \in Message : FateOf(outbox'[n]) = FateOf(outbox[n])
    BY <1>4 DEF ExpiryPasses, FateOf, IInv, TypeOK, Row
  <2>2. QED
    BY <1>4, <2>1, FateStutters DEF ExpiryPasses, audit, provider
<1>5. ASSUME NEW m \in Message, StrayLands(m)
      PROVE  Promise!Next \/ UNCHANGED Promise!vars
  BY <1>5, FateDelivers, FateStutters DEF StrayLands, audit
<1>6. ASSUME NEW m \in Message, Resolve(m)
      PROVE  Promise!Next
  BY <1>6, ResolveImplements
<1>7. CASE Account
  BY <1>7, AccountImplements
<1>8. CASE UNCHANGED vars
  BY <1>8, FateStutters DEF vars, audit, provider
<1>9. QED
  BY <1>1, <1>2, <1>3, <1>4, <1>5, <1>6, <1>7, <1>8 DEF Next

\* The rows, the drains and the late requests of the provider implement the abstract
\* lane: no copy without a permit or before its turn, no status that says the wrong
\* thing, no settled message that is settled again.
THEOREM LaneKeepsPromise == Spec => KeepsPromise
  BY InitImplements, NextImplements, LaneInvariant, PTL DEF Spec, KeepsPromise, Promise!Spec
=============================================================================
