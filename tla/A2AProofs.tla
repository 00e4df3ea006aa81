------------------------------- MODULE A2AProofs -------------------------------
(***************************************************************************)
(* Proofs about A2ATasks for every set of tasks, requests and jobs, and    *)
(* every number of faults: its type invariant, and that it implements      *)
(* TaskPromise.                                                            *)
(***************************************************************************)
EXTENDS A2ATasks, TLAPS

-----------------------------------------------------------------------------
\* The inductive invariant.  TypeOK is its first parts; the last two say what a worker
\* between two of its steps relies on.

Row == [state : State, bound : BOOLEAN, output : BOOLEAN]
Work == [step : Step, task : Task \union {NoTask}]

TasksOK ==
    /\ task \in [Task -> Row]
    /\ \A t \in Task : task[t].output => task[t].state \in {"completed", "failed", "gone"}

SessionsOK ==
    /\ ledger \subseteq Task
    /\ eve \in [Task -> SessionState]
    /\ \A t \in Task : eve[t] = "none" => ~task[t].bound /\ t \notin ledger

WorkersOK ==
    /\ worker \in [Worker -> Work]
    /\ \A w \in Worker : worker[w].step # "idle" => worker[w].task \in Task

RestOK ==
    /\ grant \in [kind : {"bearer", "conversation"},
                  status : {"live", "expired", "revoked", "deleted"}]
    /\ listed \in BOOLEAN /\ hides \in 0 .. MaxHides
    /\ room \subseteq Task /\ answered \subseteq room
    /\ faults \in 0 .. MaxFaults

\* A worker that binds has Eve's receipt.
HasReceipt ==
    \A w \in Worker :
        worker[w].step \in {"binding", "reading"} => eve[worker[w].task] # "none"

\* A worker that publishes holds the grant, and an outcome that nothing changes.
HoldsOutcome ==
    \A w \in Worker :
        worker[w].step \in {"publishing", "committing"} =>
            /\ grant.status \in {"live", "expired"}
            /\ task[worker[w].task].state \in {"completed", "failed"}
            /\ worker[w].step = "committing" => worker[w].task \in room

IInv == TasksOK /\ SessionsOK /\ WorkersOK /\ RestOK /\ HasReceipt /\ HoldsOutcome

LEMMA IInvTypeOK == IInv => TypeOK
  BY DEF IInv, TypeOK, TasksOK, SessionsOK, WorkersOK, RestOK, Row, Work

LEMMA InitInv == Init => IInv
<1> SUFFICES ASSUME Init PROVE IInv
  OBVIOUS
<1>1. TasksOK
  BY DEF Init, TasksOK, Row, State
<1>2. SessionsOK
  BY DEF Init, SessionsOK, SessionState
<1>3. WorkersOK
  BY DEF Init, WorkersOK, Idle, Work, Step
<1>4. RestOK
  BY A2AAssumption DEF Init, RestOK
<1>5. HasReceipt /\ HoldsOutcome
  BY DEF Init, HasReceipt, HoldsOutcome, Idle
<1>6. QED
  BY <1>1, <1>2, <1>3, <1>4, <1>5 DEF IInv

-----------------------------------------------------------------------------
\* What a worker's own program counter becomes, and what it keeps of the invariant: the
\* other workers stay where they are.

Moved(w, work) ==
    /\ worker' \in [Worker -> Work]
    /\ worker'[w] = work
    /\ \A v \in Worker \ {w} : worker'[v] = worker[v]

LEMMA WorkerTakes ==
    ASSUME WorkersOK, NEW w \in Worker, NEW t \in Task, NEW step \in Step, Takes(w, step, t)
    PROVE  Moved(w, [step |-> step, task |-> t]) /\ WorkersOK'
<1>1. [step |-> step, task |-> t] \in Work
  BY DEF Work
<1>2. Moved(w, [step |-> step, task |-> t])
  BY <1>1 DEF Moved, Takes, WorkersOK
<1>3. QED
  BY <1>2 DEF Moved, WorkersOK

LEMMA WorkerGoes ==
    ASSUME WorkersOK, NEW w \in Worker, NEW step \in Step, Goes(w, step), ~At(w, "idle")
    PROVE  Moved(w, [step |-> step, task |-> worker[w].task]) /\ WorkersOK'
<1>1. worker[w] \in Work /\ worker[w].task \in Task
  BY DEF WorkersOK, At
<1>2. [worker[w] EXCEPT !.step = step] = [step |-> step, task |-> worker[w].task]
  BY <1>1 DEF Work
<1>3. [step |-> step, task |-> worker[w].task] \in Work
  BY <1>1 DEF Work
<1>4. Moved(w, [step |-> step, task |-> worker[w].task])
  BY <1>2, <1>3 DEF Moved, Goes, WorkersOK
<1>5. QED
  BY <1>1, <1>4 DEF Moved, WorkersOK

LEMMA WorkerDone ==
    ASSUME WorkersOK, NEW w \in Worker, Done(w)
    PROVE  Moved(w, Idle) /\ WorkersOK'
<1>1. Idle \in Work
  BY DEF Idle, Work, Step
<1>2. Moved(w, Idle)
  BY <1>1 DEF Moved, Done, WorkersOK
<1>3. QED
  BY <1>2 DEF Moved, WorkersOK, Idle

-----------------------------------------------------------------------------
\* The caller and the owner of the bot.

LEMMA AcceptInv ==
    ASSUME IInv, NEW t \in Task, Accept(t)
    PROVE  IInv'
<1> USE DEF IInv, authority, matrix
<1>1. TasksOK'
  BY DEF Accept, TasksOK, Row, State
<1>2. SessionsOK'
  BY DEF Accept, TasksOK, SessionsOK, Row
<1>3. WorkersOK' /\ RestOK' /\ HasReceipt'
  BY DEF Accept, WorkersOK, RestOK, HasReceipt
<1>4. HoldsOutcome'
  BY DEF Accept, TasksOK, HoldsOutcome, WorkersOK
<1>5. QED
  BY <1>1, <1>2, <1>3, <1>4

LEMMA CancelTaskInv ==
    ASSUME IInv, NEW w \in Worker, NEW t \in Task, CancelTask(w, t)
    PROVE  IInv'
<1> USE DEF IInv, authority, matrix
<1>1. TasksOK'
  BY DEF CancelTask, Update, TasksOK, Row, State, Open
<1>2. SessionsOK'
  BY DEF CancelTask, Update, Triggered, TasksOK, SessionsOK, Row
<1>3. \/ worker' = worker
      \/ Moved(w, [step |-> "cancelling", task |-> t]) /\ WorkersOK'
  BY WorkerTakes DEF CancelTask, Step
<1>4. WorkersOK'
  BY <1>3 DEF WorkersOK
<1>5. RestOK'
  BY DEF CancelTask, RestOK
<1>6. HasReceipt'
  BY <1>3 DEF CancelTask, HasReceipt, Moved
<1>7. HoldsOutcome'
  BY <1>3 DEF CancelTask, Update, HoldsOutcome, Moved, Open, TasksOK, WorkersOK
<1>8. QED
  BY <1>1, <1>2, <1>4, <1>5, <1>6, <1>7

LEMMA RevokeInv == ASSUME IInv, Revoke PROVE IInv'
<1> USE DEF IInv, authority, matrix
<1>1. TasksOK'
  BY DEF Revoke, Update, TasksOK, Row, State, Opened
<1>2. SessionsOK'
  BY DEF Revoke, Update, Triggered, TasksOK, SessionsOK, Row, Opened
<1>3. WorkersOK' /\ HasReceipt'
  BY DEF Revoke, WorkersOK, HasReceipt
<1>4. RestOK'
  BY DEF Revoke, RestOK
<1>5. HoldsOutcome'
  BY DEF Revoke, Unlocked, HoldsOutcome
<1>6. QED
  BY <1>1, <1>2, <1>3, <1>4, <1>5

LEMMA DeleteInv == ASSUME IInv, Delete PROVE IInv'
<1> USE DEF IInv, authority, matrix
<1>1. TasksOK'
  BY DEF Delete, TasksOK, Row, State, Exists
<1>2. SessionsOK'
  BY DEF Delete, TasksOK, SessionsOK, Row
<1>3. WorkersOK' /\ HasReceipt'
  BY DEF Delete, WorkersOK, HasReceipt
<1>4. RestOK'
  BY DEF Delete, RestOK
<1>5. HoldsOutcome'
  BY DEF Delete, Unlocked, HoldsOutcome
<1>6. QED
  BY <1>1, <1>2, <1>3, <1>4, <1>5

LEMMA AuthorityInv == ASSUME IInv, Expire \/ Hide \/ Publish PROVE IInv'
<1> USE DEF IInv, authority, matrix
<1>1. TasksOK' /\ SessionsOK' /\ WorkersOK' /\ HasReceipt'
  BY DEF Expire, Hide, Publish, TasksOK, SessionsOK, WorkersOK, HasReceipt
<1>2. RestOK'
  <2>1. CASE Expire
    BY <2>1 DEF Expire, RestOK
  <2>2. CASE Hide
    <3>1. MaxHides \in Nat /\ hides \in 0 .. MaxHides /\ hides < MaxHides /\ hides' = hides + 1
      BY <2>2, A2AAssumption DEF Hide, RestOK
    <3>2. hides' \in 0 .. MaxHides
      BY <3>1
    <3>3. QED
      BY <2>2, <3>2 DEF Hide, RestOK
  <2>3. CASE Publish
    BY <2>3 DEF Publish, RestOK
  <2>4. QED
    BY <2>1, <2>2, <2>3
<1>3. grant'.status = grant.status \/ (grant.status = "live" /\ grant'.status = "expired")
  BY DEF Expire, Hide, Publish, RestOK
<1>4. HoldsOutcome'
  <2>1. UNCHANGED <<task, worker, room>>
    BY DEF Expire, Hide, Publish
  <2>2. QED
    BY <1>3, <2>1 DEF HoldsOutcome
<1>5. QED
  BY <1>1, <1>2, <1>4

-----------------------------------------------------------------------------
\* Steps of a worker that change no task and no authority: whatever the worker goes to,
\* only its own receipt or outcome is to be shown.

LEMMA QuietStepInv ==
    ASSUME IInv, NEW w \in Worker, WorkersOK', NEW work \in Work, Moved(w, work),
           UNCHANGED <<task, authority>>, SessionsOK', RestOK',
           \A t \in Task : eve'[t] = "none" => eve[t] = "none",
           room \subseteq room',
           work.step \in {"binding", "reading"} => eve'[work.task] # "none",
           work.step \in {"publishing", "committing"} =>
               /\ grant.status \in {"live", "expired"}
               /\ task[work.task].state \in {"completed", "failed"}
               /\ work.step = "committing" => work.task \in room'
    PROVE  IInv'
<1>1. TasksOK'
  BY DEF IInv, TasksOK
<1>2. HasReceipt'
  <2> SUFFICES ASSUME NEW v \in Worker, worker'[v].step \in {"binding", "reading"}
               PROVE  eve'[worker'[v].task] # "none"
    BY DEF HasReceipt
  <2>1. CASE v = w
    BY <2>1 DEF Moved
  <2>2. CASE v # w
    BY <2>2 DEF Moved, IInv, HasReceipt, WorkersOK
  <2>3. QED
    BY <2>1, <2>2
<1>3. HoldsOutcome'
  <2> SUFFICES ASSUME NEW v \in Worker, worker'[v].step \in {"publishing", "committing"}
               PROVE  /\ grant'.status \in {"live", "expired"}
                      /\ task'[worker'[v].task].state \in {"completed", "failed"}
                      /\ worker'[v].step = "committing" => worker'[v].task \in room'
    BY DEF HoldsOutcome
  <2>1. CASE v = w
    BY <2>1 DEF Moved, authority
  <2>2. CASE v # w
    BY <2>2 DEF Moved, IInv, HoldsOutcome, authority
  <2>3. QED
    BY <2>1, <2>2
<1>4. QED
  BY <1>1, <1>2, <1>3 DEF IInv

-----------------------------------------------------------------------------
\* Deliveries, cancellations and answers.

LEMMA PickInv ==
    ASSUME IInv, NEW w \in Worker, NEW t \in Task, Pick(w, t) \/ Retire(w, t) \/ StartPublishing(w, t)
    PROVE  IInv'
<1> USE DEF IInv, authority, matrix
<1>1. PICK step \in {"picked", "retiring", "publishing"} :
        /\ Takes(w, step, t)
        /\ step = "publishing" => Publishable(t)
  BY DEF Pick, Retire, StartPublishing
<1> DEFINE work == [step |-> step, task |-> t]
<1>2. step \in Step /\ work \in Work /\ work.step = step /\ work.task = t
  BY <1>1 DEF Step, Work
<1>3. Moved(w, work) /\ WorkersOK'
  BY <1>1, <1>2, WorkerTakes
<1>4. UNCHANGED <<task, authority, ledger, eve, room, answered, faults>>
  BY DEF Pick, Retire, StartPublishing
<1>5. SessionsOK' /\ RestOK'
  BY <1>4 DEF SessionsOK, RestOK
<1>6. step = "publishing" => /\ grant.status \in {"live", "expired"}
                             /\ task[t].state \in {"completed", "failed"}
  BY <1>1 DEF Publishable, Access
<1> HIDE DEF work
<1>7. QED
  BY <1>1, <1>2, <1>3, <1>4, <1>5, <1>6, QuietStepInv

\* A worker that is done shows nothing any more.
LEMMA DoneInv ==
    ASSUME IInv, NEW w \in Worker, Done(w), UNCHANGED <<task, authority>>, SessionsOK', RestOK',
           \A t \in Task : eve'[t] = "none" => eve[t] = "none", room \subseteq room'
    PROVE  IInv'
<1>1. Idle \in Work /\ Idle.step = "idle"
  BY DEF Idle, Work, Step
<1>2. Moved(w, Idle) /\ WorkersOK'
  BY WorkerDone DEF IInv
<1>3. QED
  BY <1>1, <1>2, QuietStepInv

\* So does one that goes on to a step that relies on nothing.
LEMMA GoesInv ==
    ASSUME IInv, NEW w \in Worker, ~At(w, "idle"), NEW step \in Step, Goes(w, step),
           UNCHANGED <<task, authority>>, SessionsOK', RestOK',
           \A t \in Task : eve'[t] = "none" => eve[t] = "none", room \subseteq room',
           step \in {"binding", "reading"} => eve'[worker[w].task] # "none",
           step # "publishing",
           step = "committing" => /\ grant.status \in {"live", "expired"}
                                  /\ task[worker[w].task].state \in {"completed", "failed"}
                                  /\ worker[w].task \in room'
    PROVE  IInv'
<1> DEFINE work == [step |-> step, task |-> worker[w].task]
<1>1. Moved(w, work) /\ WorkersOK'
  BY WorkerGoes DEF IInv
<1>2. work \in Work /\ work.step = step /\ work.task = worker[w].task
  BY DEF IInv, WorkersOK, At, Work
<1> HIDE DEF work
<1>3. QED
  BY <1>1, <1>2, QuietStepInv

LEMMA AuthorizeInv == ASSUME IInv, NEW w \in Worker, Authorize(w) PROVE IInv'
<1>1. UNCHANGED <<task, authority, ledger, eve, room, answered, faults>> /\ ~At(w, "idle")
  BY DEF Authorize, matrix, At
<1>2. SessionsOK' /\ RestOK'
  BY <1>1 DEF IInv, SessionsOK, RestOK, authority
<1>3. Goes(w, "sending") \/ Done(w)
  BY DEF Authorize
<1>4. CASE Goes(w, "sending")
  BY <1>1, <1>2, <1>4, GoesInv DEF Step
<1>5. CASE Done(w)
  BY <1>1, <1>2, <1>5, DoneInv
<1>6. QED
  BY <1>3, <1>4, <1>5

\* Eve's taking or stopping a session leaves no trace of it unknown.
LEMMA EveTakes ==
    ASSUME IInv, NEW t \in Task, eve' \in {eve, Taken(t), Stopped(t)}, UNCHANGED <<task, ledger>>
    PROVE  /\ SessionsOK'
           /\ \A u \in Task : eve'[u] = "none" => eve[u] = "none"
           /\ eve' = Taken(t) => eve'[t] # "none"
  BY DEF IInv, SessionsOK, Taken, Stopped, SessionState, Alive

LEMMA SendInv == ASSUME IInv, NEW w \in Worker, Send(w) \/ SendFails(w) PROVE IInv'
<1>1. /\ UNCHANGED <<task, authority, ledger, room, answered>> /\ ~At(w, "idle")
      /\ worker[w].task \in Task
  BY DEF Send, SendFails, matrix, At, IInv, WorkersOK
<1>2. eve' \in {eve, Taken(worker[w].task)}
  BY DEF Send, SendFails
<1>3. SessionsOK' /\ \A t \in Task : eve'[t] = "none" => eve[t] = "none"
  BY <1>1, <1>2, EveTakes
<1>4. CASE Send(w)
  <2>1. eve'[worker[w].task] # "none"
    BY <1>1, <1>4, EveTakes DEF Send
  <2>2. RestOK'
    BY <1>1, <1>4 DEF Send, RestOK, IInv, authority
  <2>3. QED
    BY <1>1, <1>3, <1>4, <2>1, <2>2, GoesInv DEF Send, Step
<1>5. CASE SendFails(w)
  <2>1. RestOK'
    BY <1>1, <1>5, A2AAssumption DEF SendFails, Fault, RestOK, IInv, authority
  <2>2. QED
    BY <1>1, <1>3, <1>5, <2>1, DoneInv DEF SendFails
<1>6. QED
  BY <1>4, <1>5

\* A binding changes one row, whose output stays and whose state only leaves submitted.
LEMMA BoundRowChanges ==
    ASSUME TasksOK, NEW t \in Task
    PROVE  /\ BoundRow(t) \in [Task -> Row]
           /\ \A u \in Task \ {t} : BoundRow(t)[u] = task[u]
           /\ BoundRow(t)[t].output => task[t].output
           /\ BoundRow(t)[t].state = IF task[t].state = "submitted" THEN "working" ELSE task[t].state
<1> DEFINE state == IF task[t].state = "submitted" THEN "working" ELSE task[t].state
           rows == [task EXCEPT ![t].bound = TRUE]
<1>1. task[t] \in Row /\ state \in State
  BY DEF TasksOK, Row, State
<1>2. /\ rows \in [Task -> Row] /\ rows[t] = [task[t] EXCEPT !.bound = TRUE]
      /\ \A u \in Task \ {t} : rows[u] = task[u]
  BY <1>1 DEF TasksOK, Row
<1>3. (rows[t].output => task[t].output) /\ rows[t].state = task[t].state
  BY <1>1, <1>2 DEF Row
<1>4. BoundRow(t) = [rows EXCEPT ![t].state = state]
  BY <1>2, <1>3 DEF BoundRow, TasksOK
<1> DEFINE new == [rows[t] EXCEPT !.state = state]
<1> HIDE DEF rows, state
<1>5. rows[t] \in Row
  BY <1>2
<1>6. new \in Row /\ new.state = state /\ (new.output => rows[t].output)
  BY <1>1, <1>5 DEF Row
<1>7. BoundRow(t) = [rows EXCEPT ![t] = new]
  BY <1>2, <1>4
<1> HIDE DEF new
<1>8. BoundRow(t) \in [Task -> Row] /\ BoundRow(t)[t] = new
  BY <1>2, <1>6, <1>7
<1>9. \A u \in Task \ {t} : BoundRow(t)[u] = task[u]
  BY <1>2, <1>7
<1>10. QED
  BY <1>3, <1>6, <1>8, <1>9 DEF state

LEMMA BindInv == ASSUME IInv, NEW w \in Worker, Bind(w) PROVE IInv'
<1> DEFINE t == worker[w].task
<1>1. t \in Task /\ At(w, "binding") /\ eve[t] # "none" /\ Exists(t)
  BY DEF Bind, IInv, WorkersOK, HasReceipt, At
<1>2. Moved(w, [step |-> "reading", task |-> t]) /\ WorkersOK'
  BY WorkerGoes DEF Bind, At, Step, IInv
<1>3. /\ task' = BoundRow(t) /\ ledger' = ledger \union Triggered({t}, BoundRow(t))
      /\ UNCHANGED <<authority, eve, room, answered, faults>>
  BY DEF Bind, Update, matrix
<1> HIDE DEF t
<1>4. TasksOK'
  BY <1>1, <1>3, BoundRowChanges DEF IInv, TasksOK
<1>5. SessionsOK'
  BY <1>1, <1>3, BoundRowChanges DEF IInv, SessionsOK, Triggered
<1>6. RestOK'
  BY <1>3 DEF IInv, RestOK, authority
<1>7. HasReceipt'
  BY <1>1, <1>2, <1>3 DEF IInv, HasReceipt, Moved
<1>8. \A u \in Task : task[u].state \in {"completed", "failed"} => task'[u].state = task[u].state
  BY <1>1, <1>3, BoundRowChanges DEF IInv
<1>9. HoldsOutcome'
  BY <1>1, <1>2, <1>3, <1>8 DEF IInv, HoldsOutcome, Moved, authority, WorkersOK
<1>10. QED
  BY <1>2, <1>4, <1>5, <1>6, <1>7, <1>9 DEF IInv

LEMMA BindFailsInv == ASSUME IInv, NEW w \in Worker, BindFails(w) PROVE IInv'
<1>1. /\ UNCHANGED <<task, authority, eve, room, answered>> /\ Done(w)
      /\ worker[w].task \in Task /\ eve[worker[w].task] # "none"
      /\ ledger' = ledger \union {worker[w].task}
  BY DEF BindFails, matrix, At, IInv, WorkersOK, HasReceipt
<1>2. SessionsOK'
  BY <1>1 DEF IInv, SessionsOK
<1>3. RestOK'
  BY <1>1, A2AAssumption DEF BindFails, Fault, IInv, RestOK, authority
<1>4. QED
  BY <1>1, <1>2, <1>3, DoneInv

LEMMA ReadBackInv == ASSUME IInv, NEW w \in Worker, ReadBack(w) PROVE IInv'
<1>1. UNCHANGED <<task, authority, ledger, eve, room, answered, faults>> /\ ~At(w, "idle")
  BY DEF ReadBack, matrix, At
<1>2. SessionsOK' /\ RestOK'
  BY <1>1 DEF IInv, SessionsOK, RestOK, authority
<1>3. CASE Goes(w, "cancelling")
  BY <1>1, <1>2, <1>3, GoesInv DEF Step
<1>4. CASE Done(w)
  BY <1>1, <1>2, <1>4, DoneInv
<1>5. QED
  BY <1>3, <1>4 DEF ReadBack

LEMMA StopInv == ASSUME IInv, NEW w \in Worker, CancelSession(w) \/ StopRetired(w) PROVE IInv'
<1>1. /\ UNCHANGED <<task, authority, ledger, room, answered, faults>> /\ ~At(w, "idle")
      /\ worker[w].task \in Task /\ eve' = Stopped(worker[w].task)
  BY DEF CancelSession, StopRetired, matrix, At, IInv, WorkersOK
<1>2. SessionsOK' /\ \A t \in Task : eve'[t] = "none" => eve[t] = "none"
  BY <1>1, EveTakes
<1>3. RestOK'
  BY <1>1 DEF IInv, RestOK, authority
<1>4. CASE CancelSession(w)
  BY <1>1, <1>2, <1>3, <1>4, DoneInv DEF CancelSession
<1>5. CASE StopRetired(w)
  BY <1>1, <1>2, <1>3, <1>5, GoesInv DEF StopRetired, Step
<1>6. QED
  BY <1>4, <1>5

LEMMA EraseRetiredInv == ASSUME IInv, NEW w \in Worker, EraseRetired(w) PROVE IInv'
<1>1. /\ UNCHANGED <<task, authority, eve, room, answered, faults>> /\ Done(w)
      /\ ledger' = ledger \ {worker[w].task}
  BY DEF EraseRetired, matrix
<1>2. SessionsOK' /\ RestOK'
  BY <1>1 DEF IInv, SessionsOK, RestOK, authority
<1>3. QED
  BY <1>1, <1>2, DoneInv

LEMMA PutInv == ASSUME IInv, NEW w \in Worker, Put(w) PROVE IInv'
<1>1. /\ UNCHANGED <<task, authority, ledger, eve, answered, faults>>
      /\ At(w, "publishing") /\ ~At(w, "idle") /\ Goes(w, "committing")
      /\ worker[w].task \in Task
      /\ room' = room \union {worker[w].task}
  BY DEF Put, At, IInv, WorkersOK
<1>2. SessionsOK' /\ RestOK'
  BY <1>1 DEF IInv, SessionsOK, RestOK, authority
<1>3. /\ grant.status \in {"live", "expired"}
      /\ task[worker[w].task].state \in {"completed", "failed"}
  BY <1>1 DEF IInv, HoldsOutcome, At
<1>4. QED
  BY <1>1, <1>2, <1>3, GoesInv DEF Step

LEMMA CommitInv == ASSUME IInv, NEW w \in Worker, Commit(w) PROVE IInv'
<1>1. /\ UNCHANGED <<task, authority, ledger, eve, room, faults>> /\ Done(w)
      /\ At(w, "committing")
      /\ answered' = answered \union {worker[w].task}
  BY DEF Commit
<1>2. worker[w].task \in room
  BY <1>1 DEF IInv, HoldsOutcome, At
<1>3. SessionsOK' /\ RestOK'
  BY <1>1, <1>2 DEF IInv, SessionsOK, RestOK, authority
<1>4. QED
  BY <1>1, <1>3, DoneInv

LEMMA CrashInv == ASSUME IInv, NEW w \in Worker, Crash(w) PROVE IInv'
<1>1. UNCHANGED <<task, authority, ledger, eve, room, answered>> /\ Done(w) /\ Fault
  BY DEF Crash, matrix
<1>2. SessionsOK'
  BY <1>1 DEF IInv, SessionsOK
<1>3. RestOK'
  BY <1>1, A2AAssumption DEF IInv, RestOK, authority, Fault
<1>4. QED
  BY <1>1, <1>2, <1>3, DoneInv

LEMMA ProceedInv == ASSUME IInv, NEW w \in Worker, Proceed(w) PROVE IInv'
  BY AuthorizeInv, SendInv, BindInv, BindFailsInv, ReadBackInv, StopInv, EraseRetiredInv,
     PutInv, CommitInv, CrashInv DEF Proceed

-----------------------------------------------------------------------------
\* Eve's steps leave the workers where they are, and an outcome as it is.

LEMMA EveInv ==
    ASSUME IInv, UNCHANGED <<authority, worker, room, answered, faults>>, TasksOK', SessionsOK',
           \A t \in Task : /\ eve'[t] = "none" => eve[t] = "none"
                           /\ task[t].state \in {"completed", "failed"} =>
                                  task'[t].state = task[t].state
    PROVE  IInv'
<1>1. WorkersOK' /\ RestOK'
  BY DEF IInv, WorkersOK, RestOK, authority
<1>2. HasReceipt'
  BY DEF IInv, WorkersOK, HasReceipt
<1>3. HoldsOutcome'
  BY DEF IInv, WorkersOK, HoldsOutcome, authority
<1>4. QED
  BY <1>1, <1>2, <1>3 DEF IInv

LEMMA SessionMovesInv ==
    ASSUME IInv, NEW t \in Task, eve[t] # "none",
           NEW s \in SessionState \ {"none"}, Becomes(t, s),
           UNCHANGED <<task, authority, ledger, worker, matrix, faults>>
    PROVE  IInv'
<1>1. TasksOK' /\ SessionsOK' /\ \A u \in Task : eve'[u] = "none" => eve[u] = "none"
  BY DEF IInv, TasksOK, SessionsOK, Becomes
<1>2. QED
  BY <1>1, EveInv DEF matrix

LEMMA SessionStartsInv ==
    ASSUME IInv, NEW t \in Task, SessionStarts(t) \/ TurnEnds(t) \/ SessionBreaks(t)
    PROVE  IInv'
<1>1. PICK s \in {"starting", "running", "answered", "broken", "failing", "ended"} :
        Becomes(t, s)
  BY DEF SessionStarts, TurnEnds, SessionBreaks
<1>2. eve[t] # "none" /\ UNCHANGED <<task, authority, ledger, worker, matrix, faults>>
  BY DEF SessionStarts, TurnEnds, SessionBreaks
<1>3. QED
  BY <1>1, <1>2, SessionMovesInv DEF SessionState

LEMMA SessionBindsInv == ASSUME IInv, NEW t \in Task, SessionBinds(t) PROVE IInv'
<1>1. eve[t] = "starting" /\ UNCHANGED <<authority, worker, matrix, faults>>
  BY DEF SessionBinds
<1>2. CASE Exists(t)
  <2>1. /\ task' = BoundRow(t) /\ ledger' = ledger \union Triggered({t}, BoundRow(t))
        /\ eve' = [eve EXCEPT ![t] = "running"]
    BY <1>2 DEF SessionBinds, Update, Becomes
  <2>2. TasksOK'
    BY <1>2, <2>1, BoundRowChanges DEF IInv, TasksOK
  <2>3. SessionsOK'
    BY <1>1, <2>1, BoundRowChanges DEF IInv, SessionsOK, SessionState, Triggered
  <2>4. \A u \in Task : /\ eve'[u] = "none" => eve[u] = "none"
                        /\ task[u].state \in {"completed", "failed"} =>
                               task'[u].state = task[u].state
    BY <1>1, <2>1, BoundRowChanges DEF IInv, SessionsOK
  <2>5. QED
    BY <1>1, <2>2, <2>3, <2>4, EveInv DEF matrix
<1>3. CASE ~Exists(t)
  <2>1. PICK s \in {"running", "failing"} : Becomes(t, s) /\ UNCHANGED <<task, ledger>>
    BY <1>3 DEF SessionBinds
  <2>2. QED
    BY <1>1, <2>1, SessionMovesInv DEF SessionState
<1>4. QED
  BY <1>2, <1>3

LEMMA FinishInv == ASSUME IInv, NEW t \in Task, Finish(t) \/ FailSession(t) PROVE IInv'
<1>1. /\ eve[t] \in {"answered", "broken", "failing"} /\ Becomes(t, "ended")
      /\ UNCHANGED <<authority, worker, matrix, faults>>
  BY DEF Finish, FailSession
<1>2. CASE task[t].state \in Open
  <2>1. PICK row \in Row :
          /\ row.state \in {"completed", "failed"}
          /\ task' = [task EXCEPT ![t] = row]
          /\ ledger' = ledger
    <3>1. CASE Finish(t)
      <4>1. PICK said \in BOOLEAN, s \in {"completed", "failed"} :
              Update({t}, [task EXCEPT ![t].output = said, ![t].state = s])
        BY <1>2, <3>1 DEF Finish
      <4> DEFINE rows == [task EXCEPT ![t].output = said, ![t].state = s]
      <4>2. /\ rows \in [Task -> Row] /\ rows[t].state = s
            /\ \A u \in Task \ {t} : rows[u] = task[u]
        BY DEF IInv, TasksOK, Row, State
      <4>3. Triggered({t}, rows) = {}
        BY <4>2 DEF Triggered
      <4> HIDE DEF rows
      <4>4. rows = [task EXCEPT ![t] = rows[t]]
        BY <4>2 DEF IInv, TasksOK
      <4>5. QED
        BY <4>1, <4>2, <4>3, <4>4 DEF Update, rows
    <3>2. CASE FailSession(t)
      <4>1. [state |-> "failed", bound |-> TRUE, output |-> TRUE] \in Row
        BY DEF Row, State
      <4>2. Triggered({t}, [task EXCEPT ![t] = [state |-> "failed", bound |-> TRUE,
                                                output |-> TRUE]]) = {}
        BY DEF IInv, TasksOK, Triggered
      <4>3. QED
        BY <1>2, <3>2, <4>1, <4>2 DEF FailSession, Update
    <3>3. QED
      BY <3>1, <3>2
  <2>2. TasksOK'
    BY <2>1 DEF IInv, TasksOK
  <2>3. SessionsOK' /\ \A u \in Task : eve'[u] = "none" => eve[u] = "none"
    BY <1>1, <2>1 DEF IInv, TasksOK, SessionsOK, SessionState, Becomes
  <2>4. \A u \in Task : task[u].state \in {"completed", "failed"} =>
                            task'[u].state = task[u].state
    BY <1>2, <2>1 DEF IInv, TasksOK, Open
  <2>5. QED
    BY <1>1, <2>2, <2>3, <2>4, EveInv DEF matrix
<1>3. CASE task[t].state \notin Open
  <2>1. UNCHANGED <<task, ledger>>
    BY <1>3 DEF Finish, FailSession
  <2>2. QED
    BY <1>1, <2>1, SessionMovesInv DEF SessionState
<1>4. QED
  BY <1>2, <1>3

LEMMA NextInv == IInv /\ [Next]_vars => IInv'
<1> SUFFICES ASSUME IInv, [Next]_vars PROVE IInv'
  OBVIOUS
<1>1. CASE \E t \in Task : Accept(t) \/ Session(t) \/ TurnEnds(t) \/ SessionBreaks(t)
  BY <1>1, AcceptInv, SessionStartsInv, SessionBindsInv, FinishInv DEF Session
<1>2. CASE \E w \in Worker, t \in Task :
             CancelTask(w, t) \/ Pick(w, t) \/ Retire(w, t) \/ StartPublishing(w, t)
  BY <1>2, CancelTaskInv, PickInv
<1>3. CASE \E w \in Worker : Proceed(w)
  BY <1>3, ProceedInv
<1>4. CASE Revoke \/ Delete \/ Expire \/ Hide \/ Publish
  BY <1>4, RevokeInv, DeleteInv, AuthorityInv
<1>5. CASE UNCHANGED vars
  BY <1>5 DEF vars, IInv, TasksOK, SessionsOK, WorkersOK, RestOK, HasReceipt, HoldsOutcome
<1>6. QED
  BY <1>1, <1>2, <1>3, <1>4, <1>5 DEF Next

LEMMA Invariant == Spec => []IInv
<1>1. Init => IInv
  BY InitInv
<1>2. IInv /\ [Next]_vars => IInv'
  BY NextInv
<1>3. QED
  BY <1>1, <1>2, PTL DEF Spec

\* Rows, sessions and workers keep within the states of the code; only an ended task has
\* an output, an answer is recorded only if the room has it, and no session is known to a
\* row or to the ledger before Eve has it.
THEOREM TypeCorrect == Spec => []TypeOK
<1>1. IInv => TypeOK
  BY IInvTypeOK
<1>2. QED
  BY <1>1, Invariant, PTL

-----------------------------------------------------------------------------
\* The refinement.  A step that ends no task, posts nothing and revokes nothing is a
\* stutter of the promise; so is one that only moves a task among its open states.

LEMMA FateStutters ==
    ASSUME \A t \in Task : FateOf(task'[t]) = FateOf(task[t]),
           grant'.status = grant.status, UNCHANGED room
    PROVE  UNCHANGED Promise!promiseVars
  BY DEF Promise!promiseVars, Fate

LEMMA FateEnds ==
    ASSUME NEW t \in Task, task[t].state \in Open,
           task'[t].state \in {"completed", "failed", "canceled"},
           \A u \in Task \ {t} : task'[u] = task[u],
           UNCHANGED <<grant, room>>
    PROVE  Promise!End(t)
<1>1. FateOf(task[t]) = "open"
  BY DEF FateOf, Open
<1>2. FateOf(task'[t]) \in Promise!Outcome \union {"cancelled"}
  BY DEF FateOf, Open, Promise!Outcome
<1>3. Fate' = [Fate EXCEPT ![t] = FateOf(task'[t])]
  BY DEF Fate
<1>4. Fate[t] = "open"
  BY <1>1 DEF Fate
<1>5. \E outcome \in Promise!Outcome \union {"cancelled"} : Fate' = [Fate EXCEPT ![t] = outcome]
  BY <1>2, <1>3
<1>6. QED
  BY <1>4, <1>5 DEF Promise!End

LEMMA AcceptImplements ==
    ASSUME IInv, NEW t \in Task, Accept(t)
    PROVE  Promise!Accept(t)
<1>1. task' = [task EXCEPT ![t].state = "submitted"] /\ task[t].state = "absent"
      /\ UNCHANGED <<grant, room>> /\ grant.status = "live"
  BY DEF Accept, Access, authority, matrix
<1>2. FateOf(task[t]) = "absent" /\ FateOf(task'[t]) = "open"
  BY <1>1 DEF FateOf, Open, IInv, TasksOK, Row
<1>3. \A u \in Task \ {t} : task'[u] = task[u]
  BY <1>1 DEF IInv, TasksOK
<1>4. Fate' = [Fate EXCEPT ![t] = "open"] /\ Fate[t] = "absent"
  <2>1. \A u \in Task \ {t} : FateOf(task'[u]) = FateOf(task[u])
    BY <1>3
  <2>2. Fate[t] = "absent"
    BY <1>2 DEF Fate
  <2>3. QED
    BY <1>2, <2>1, <2>2 DEF Fate
<1>5. grant'.status \notin {"revoked", "deleted"} /\ grant.status \notin {"revoked", "deleted"}
  BY <1>1
<1>6. QED
  BY <1>1, <1>4, <1>5, Zenon DEF Promise!Accept

LEMMA CancelTaskImplements ==
    ASSUME IInv, NEW w \in Worker, NEW t \in Task, CancelTask(w, t)
    PROVE  Promise!Next \/ UNCHANGED Promise!promiseVars
<1>1. /\ task' = [task EXCEPT ![t].state = "canceled"] /\ UNCHANGED <<grant, room>>
      /\ task[t].state \in Open \union {"canceled"}
  BY DEF CancelTask, Update, authority, matrix
<1>2. task'[t].state = "canceled" /\ \A u \in Task \ {t} : task'[u] = task[u]
  BY <1>1 DEF IInv, TasksOK, Row
<1>3. CASE task[t].state \in Open
  BY <1>1, <1>2, <1>3, FateEnds DEF Promise!Next
<1>4. CASE task[t].state = "canceled"
  BY <1>1, <1>2, <1>4, FateStutters DEF FateOf
<1>5. QED
  BY <1>1, <1>3, <1>4

LEMMA FinishImplements ==
    ASSUME IInv, NEW t \in Task, Finish(t) \/ FailSession(t)
    PROVE  Promise!Next \/ UNCHANGED Promise!promiseVars
<1>1. UNCHANGED <<grant, room>>
  BY DEF Finish, FailSession, authority, matrix
<1>2. CASE task[t].state \in Open
  <2>1. task'[t].state \in {"completed", "failed"} /\ \A u \in Task \ {t} : task'[u] = task[u]
    <3>1. CASE Finish(t)
      <4>1. PICK said \in BOOLEAN, s \in {"completed", "failed"} :
              task' = [task EXCEPT ![t].output = said, ![t].state = s]
        BY <1>2, <3>1 DEF Finish, Update
      <4>2. QED
        BY <4>1 DEF IInv, TasksOK, Row
    <3>2. CASE FailSession(t)
      BY <1>2, <3>2 DEF FailSession, Update, IInv, TasksOK
    <3>3. QED
      BY <3>1, <3>2
  <2>2. QED
    BY <1>1, <1>2, <2>1, FateEnds DEF Promise!Next
<1>3. CASE task[t].state \notin Open
  BY <1>1, <1>3, FateStutters DEF Finish, FailSession
<1>4. QED
  BY <1>2, <1>3

LEMMA RevokeImplements ==
    ASSUME IInv, IInv', Revoke
    PROVE  Promise!Revoke
<1>1. grant'.status = "revoked" /\ UNCHANGED room
  BY DEF Revoke, matrix, IInv, RestOK
<1>2. \A t \in Task : FateOf(task'[t])
                         = IF FateOf(task[t]) = "open" THEN "cancelled" ELSE FateOf(task[t])
  <2> SUFFICES ASSUME NEW t \in Task
               PROVE  FateOf(task'[t]) = IF FateOf(task[t]) = "open" THEN "cancelled"
                                                                      ELSE FateOf(task[t])
    OBVIOUS
  <2>1. CASE task[t].state \in Open
    <3>1. task'[t].state = "canceled"
      BY <2>1 DEF Revoke, Update, Opened, IInv, TasksOK, Row
    <3>2. QED
      BY <2>1, <3>1 DEF FateOf, Open
  <2>2. CASE task[t].state \notin Open
    <3>1. task'[t] = task[t]
      BY <2>2 DEF Revoke, Update, Opened
    <3>2. FateOf(task[t]) # "open"
      BY <2>2 DEF FateOf, Open, IInv, TasksOK, Row, State
    <3>3. QED
      BY <3>1, <3>2
  <2>3. QED
    BY <2>1, <2>2
<1>3. Fate' = [t \in Task |-> IF Fate[t] = "open" THEN "cancelled" ELSE Fate[t]]
  BY <1>2 DEF Fate
<1>4. QED
  BY <1>1, <1>3 DEF Promise!Revoke

LEMMA DeleteImplements ==
    ASSUME IInv, Delete
    PROVE  Promise!Revoke
<1>1. grant'.status = "deleted" /\ UNCHANGED room
  BY DEF Delete, matrix, IInv, RestOK
<1>2. \A t \in Task : FateOf(task'[t]) = IF FateOf(task[t]) = "absent" THEN "absent" ELSE "gone"
  <2> SUFFICES ASSUME NEW t \in Task
               PROVE  FateOf(task'[t]) = IF FateOf(task[t]) = "absent" THEN "absent" ELSE "gone"
    OBVIOUS
  <2>1. CASE Exists(t)
    <3>1. task'[t].state = "gone"
      BY <2>1 DEF Delete, IInv, TasksOK, Row
    <3>2. FateOf(task[t]) # "absent"
      BY <2>1 DEF FateOf, Open, Exists
    <3>3. QED
      BY <3>1, <3>2 DEF FateOf, Open
  <2>2. CASE ~Exists(t)
    BY <2>2 DEF Delete, Exists, FateOf, Open
  <2>3. QED
    BY <2>1, <2>2
<1>3. Fate' = [t \in Task |-> IF Fate[t] = "absent" THEN "absent" ELSE "gone"]
  BY <1>2 DEF Fate
<1>4. QED
  BY <1>1, <1>3 DEF Promise!Revoke

LEMMA BindStutters ==
    ASSUME IInv, NEW t \in Task, task' = BoundRow(t), UNCHANGED <<grant, room>>
    PROVE  UNCHANGED Promise!promiseVars
<1>1. \A u \in Task : \/ task'[u].state = task[u].state
                      \/ task[u].state = "submitted" /\ task'[u].state = "working"
  BY BoundRowChanges DEF IInv
<1>2. \A u \in Task : FateOf(task'[u]) = FateOf(task[u])
  BY <1>1 DEF FateOf, Open
<1>3. QED
  BY <1>2, FateStutters

LEMMA PutImplements ==
    ASSUME IInv, NEW w \in Worker, Put(w)
    PROVE  Promise!Next
<1> DEFINE t == worker[w].task
<1>1. t \in Task /\ room' = room \union {t} /\ UNCHANGED <<task, grant>>
      /\ worker[w].step = "publishing"
  BY DEF Put, At, IInv, WorkersOK, authority
<1>2. task[t].state \in {"completed", "failed"} /\ grant.status \in {"live", "expired"}
  BY <1>1 DEF IInv, HoldsOutcome
<1>3. Fate[t] \in Promise!Outcome /\ Fate' = Fate
  BY <1>1, <1>2 DEF Fate, FateOf, Open, Promise!Outcome
<1> HIDE DEF t
<1>4. Promise!Post(t)
  BY <1>1, <1>2, <1>3 DEF Promise!Post
<1>5. QED
  BY <1>1, <1>4 DEF Promise!Next

LEMMA StepImplements ==
    ASSUME IInv, IInv', [Next]_vars
    PROVE  Promise!Next \/ UNCHANGED Promise!promiseVars
<1>1. ASSUME NEW t \in Task, Accept(t) PROVE Promise!Next
  BY <1>1, AcceptImplements DEF Promise!Next
<1>2. ASSUME NEW t \in Task, SessionStarts(t) \/ TurnEnds(t) \/ SessionBreaks(t)
      PROVE  UNCHANGED Promise!promiseVars
  BY <1>2, FateStutters DEF SessionStarts, TurnEnds, SessionBreaks, authority, matrix
<1>3. ASSUME NEW t \in Task, SessionBinds(t) PROVE UNCHANGED Promise!promiseVars
  <2>1. UNCHANGED <<grant, room>> /\ (task' = BoundRow(t) \/ task' = task)
    BY <1>3 DEF SessionBinds, Update, authority, matrix
  <2>2. QED
    BY <2>1, BindStutters, FateStutters
<1>4. ASSUME NEW t \in Task, Finish(t) \/ FailSession(t)
      PROVE  Promise!Next \/ UNCHANGED Promise!promiseVars
  BY <1>4, FinishImplements
<1>5. ASSUME NEW w \in Worker, NEW t \in Task, CancelTask(w, t)
      PROVE  Promise!Next \/ UNCHANGED Promise!promiseVars
  BY <1>5, CancelTaskImplements
<1>6. ASSUME NEW w \in Worker, NEW t \in Task,
             Pick(w, t) \/ Retire(w, t) \/ StartPublishing(w, t)
      PROVE  UNCHANGED Promise!promiseVars
  BY <1>6, FateStutters DEF Pick, Retire, StartPublishing, authority, matrix
<1>7. ASSUME NEW w \in Worker, Proceed(w)
      PROVE  Promise!Next \/ UNCHANGED Promise!promiseVars
  <2>1. CASE Put(w)
    BY <2>1, PutImplements
  <2>2. CASE Bind(w)
    <3>1. worker[w].task \in Task /\ task' = BoundRow(worker[w].task) /\ UNCHANGED <<grant, room>>
      BY <2>2 DEF Bind, At, IInv, WorkersOK, Update, authority, matrix
    <3>2. QED
      BY <3>1, BindStutters
  <2>3. CASE ~Put(w) /\ ~Bind(w)
    <3>1. UNCHANGED <<task, grant, room>>
      BY <1>7, <2>3 DEF Proceed, Authorize, Send, SendFails, BindFails, ReadBack, CancelSession,
           StopRetired, EraseRetired, Commit, Crash, authority, matrix
    <3>2. QED
      BY <3>1, FateStutters
  <2>4. QED
    BY <2>1, <2>2, <2>3
<1>8. CASE Revoke \/ Delete
  BY <1>8, RevokeImplements, DeleteImplements DEF Promise!Next
<1>9. CASE Expire \/ Hide \/ Publish
  <2>1. UNCHANGED <<task, room>>
    BY <1>9 DEF Expire, Hide, Publish, authority, matrix
  <2>2. (grant'.status \in {"revoked", "deleted"}) = (grant.status \in {"revoked", "deleted"})
    BY <1>9 DEF Expire, Hide, Publish, IInv, RestOK
  <2>3. QED
    BY <2>1, <2>2 DEF Promise!promiseVars, Fate
<1>10. CASE UNCHANGED vars
  BY <1>10, FateStutters DEF vars
<1>11. QED
  BY <1>1, <1>2, <1>3, <1>4, <1>5, <1>6, <1>7, <1>8, <1>9, <1>10 DEF Next, Session

\* The rows, the workers, the sessions and the room implement the abstract task: it ends
\* at most once, the room tells only what it ended with, and a revoked or deleted grant
\* leaves nothing open and says nothing more.
THEOREM TasksKeepPromise == Spec => KeepsPromise
<1>1. Init => Promise!Init
  <2> SUFFICES ASSUME Init PROVE Promise!Init
    OBVIOUS
  <2>1. \A t \in Task : FateOf(task[t]) = "absent"
    BY DEF Init, FateOf, Open
  <2>2. room = {} /\ grant.status = "live"
    BY DEF Init
  <2>3. QED
    BY <2>1, <2>2 DEF Promise!Init, Fate
<1>2. IInv /\ IInv' /\ [Next]_vars => [Promise!Next]_(Promise!promiseVars)
  BY StepImplements
<1>3. QED
  BY <1>1, <1>2, Invariant, PTL DEF Spec, KeepsPromise, Promise!Spec
================================================================================
