------------------------------- MODULE A2ATasks --------------------------------
(***************************************************************************)
(* The tasks of one agent grant (server/a2a): their acceptance, delivery   *)
(* to Eve, cancellation and outcome; the ledger of native cancellations    *)
(* that database triggers fill (migration 0052); and the answers published *)
(* in the Matrix room of a conversation (server/matrix/network-delivery).  *)
(*                                                                         *)
(* A worker serves a request, or a job of the minute tick                  *)
(* (agent/schedules/agent-delivery.ts).  It makes one transaction or one   *)
(* call per step, and may die between them.  Eve is external: one session  *)
(* per task, because the address and the input id are the task's; a call   *)
(* may fail, and may have been carried out.                                *)
(***************************************************************************)
EXTENDS Naturals, FiniteSets

CONSTANTS
    Task,        \* the requests, by message id: a repeated one is the same task
    Request,     \* workers that serve a caller: HTTP, or the homeserver's events
    Job,         \* workers of the minute tick
    MaxActive,   \* tasks of a grant that may be active (5 in the code)
    MaxHides,    \* bound: times the bot is unpublished
    MaxFaults,   \* bound: deaths of workers, failed calls and statements
    NoTask

ASSUME A2AAssumption ==
    /\ MaxActive \in Nat \ {0} /\ MaxHides \in Nat /\ MaxFaults \in Nat
    /\ NoTask \notin Task /\ Request \intersect Job = {}

Worker == Request \union Job

VARIABLES
    task,     \* agent_protocol_tasks; "absent" before the insert, "gone" after a delete
    grant,    \* workspace_agent_grants: its kind, and whether it is valid
    listed,   \* workspace_bots.discoverable
    hides,
    ledger,   \* agent_protocol_cancellations, by the task of the session
    eve,      \* Eve: where the session of the task is
    worker,   \* what each worker does, for which task
    room,     \* tasks answered in the Matrix room
    answered, \* matrix_agent_messages.answer_event_id IS NOT NULL
    faults

vars == <<task, grant, listed, hides, ledger, eve, worker, room, answered, faults>>

State == {"absent", "submitted", "working", "completed", "failed", "canceled", "gone"}
Open == {"submitted", "working"}

\* "starting" is the hook between its check and its update, "answered" and "broken"
\* the same for the handlers of message.completed and turn.failed, and "failing" is
\* before the handler of session.failed.
SessionState == {"none", "queued", "starting", "running", "answered", "broken",
                 "failing", "ended", "stopped"}
Alive == SessionState \ {"none", "ended", "stopped"}

Step == {"idle", "picked", "sending", "binding", "reading", "cancelling",
         "retiring", "erasing", "publishing", "committing"}

Idle == [step |-> "idle", task |-> NoTask]

\* Rows, sessions and workers keep within the states of the code; only an ended task
\* has an output, and an answer is recorded only if the room has it.
TypeOK ==
    /\ task \in [Task -> [state : State, bound : BOOLEAN, output : BOOLEAN]]
    /\ \A t \in Task : task[t].output => task[t].state \in {"completed", "failed", "gone"}
    /\ grant \in [kind : {"bearer", "conversation"},
                  status : {"live", "expired", "revoked", "deleted"}]
    /\ listed \in BOOLEAN /\ hides \in 0 .. MaxHides
    /\ ledger \subseteq Task
    /\ eve \in [Task -> SessionState]
    /\ worker \in [Worker -> [step : Step, task : Task \union {NoTask}]]
    /\ \A w \in Worker : worker[w].step # "idle" => worker[w].task \in Task
    /\ room \subseteq Task /\ answered \subseteq room
    /\ faults \in 0 .. MaxFaults
    /\ \A t \in Task : eve[t] = "none" => ~task[t].bound /\ t \notin ledger

Init ==
    /\ task = [t \in Task |-> [state |-> "absent", bound |-> FALSE, output |-> FALSE]]
    /\ grant \in [kind : {"bearer", "conversation"}, status : {"live"}]
    /\ listed = TRUE /\ hides = 0
    /\ ledger = {} /\ eve = [t \in Task |-> "none"]
    /\ worker = [w \in Worker |-> Idle]
    /\ room = {} /\ answered = {}
    /\ faults = 0

authority == <<grant, listed, hides>>
matrix == <<room, answered>>
Fault == faults < MaxFaults /\ faults' = faults + 1

\* requireWorkspaceAccess for the grant; a conversation needs the bot published.
Access == grant.status = "live" /\ (grant.kind = "conversation" => listed)

\* The same with protocolTaskId, as Eve's principal carries it.
TaskAccess(t) == Access /\ task[t].state \in Open

Opened == {t \in Task : task[t].state \in Open}

Exists(t) == task[t].state \notin {"absent", "gone"}

At(w, step) == worker[w].step = step
Takes(w, step, t) == worker' = [worker EXCEPT ![w] = [step |-> step, task |-> t]]
Goes(w, step) == worker' = [worker EXCEPT ![w].step = step]
Done(w) == worker' = [worker EXCEPT ![w] = Idle]

\* Mutant: only the update that cancels does, not a binding after it.
TriggeredByCancel(updated, rows) ==
    {t \in updated : task[t].state # rows[t].state /\ rows[t].state = "canceled" /\ rows[t].bound}

\* The trigger of migration 0052: an update that leaves a task cancelled with its
\* session known puts the session into the ledger.
Triggered(updated, rows) == {t \in updated : rows[t].state = "canceled" /\ rows[t].bound}

Update(updated, rows) ==
    /\ task' = rows
    /\ ledger' = ledger \union Triggered(updated, rows)

-----------------------------------------------------------------------------
\* The caller and the owner of the bot.

Accept(t) ==
    /\ Access
    /\ task[t].state = "absent"
    /\ Cardinality(Opened) < MaxActive
    /\ task' = [task EXCEPT ![t].state = "submitted"]
    /\ UNCHANGED <<authority, ledger, eve, worker, matrix, faults>>

\* CancelTask of a bearer: the row first, then the session if it is known.
CancelTask(w, t) ==
    /\ w \in Request /\ At(w, "idle") /\ grant.kind = "bearer" /\ Access
    /\ task[t].state \in Open \union {"canceled"}
    /\ Update({t}, [task EXCEPT ![t].state = "canceled"])
    /\ IF task[t].bound THEN Takes(w, "cancelling", t) ELSE UNCHANGED worker
    /\ UNCHANGED <<authority, eve, matrix, faults>>

\* Mutant: the authority is read without a lock.
NeverLocked == TRUE

\* Publishing holds the grant FOR SHARE, so revoking and deleting it wait.
Unlocked == \A w \in Worker : worker[w].step \notin {"publishing", "committing"}

\* Every revocation (of the grant, of trust, of a member, of the account, of the
\* conversation) cancels the open tasks in its transaction.
Revoke ==
    /\ grant.status \in {"live", "expired"} /\ Unlocked
    /\ grant' = [grant EXCEPT !.status = "revoked"]
    /\ Update(Opened, [t \in Task |->
           IF t \in Opened THEN [task[t] EXCEPT !.state = "canceled", !.output = FALSE]
           ELSE task[t]])
    /\ UNCHANGED <<listed, hides, eve, worker, matrix, faults>>

\* The membership or the workspace is deleted, and the tasks cascade.
Delete ==
    /\ grant.status # "deleted" /\ Unlocked
    /\ grant' = [grant EXCEPT !.status = "deleted"]
    /\ task' = [t \in Task |-> IF Exists(t) THEN [task[t] EXCEPT !.state = "gone"] ELSE task[t]]
    /\ ledger' = ledger \union {t \in Task : /\ task[t].state \in Open \union {"canceled"}
                                             /\ task[t].bound}
    /\ UNCHANGED <<listed, hides, eve, worker, matrix, faults>>

Expire ==
    /\ grant.status = "live"
    /\ grant' = [grant EXCEPT !.status = "expired"]
    /\ UNCHANGED <<task, listed, hides, ledger, eve, worker, matrix, faults>>

Hide ==
    /\ listed /\ hides < MaxHides /\ grant.kind = "conversation" /\ Unlocked
    /\ listed' = FALSE /\ hides' = hides + 1
    /\ UNCHANGED <<task, grant, ledger, eve, worker, matrix, faults>>

Publish ==
    /\ ~listed /\ listed' = TRUE
    /\ UNCHANGED <<task, grant, hides, ledger, eve, worker, matrix, faults>>

-----------------------------------------------------------------------------
\* deliverProtocolTask.

\* After SendMessage, for the homeserver's event, or for a task the tick finds.
Pick(w, t) ==
    /\ At(w, "idle")
    /\ Access /\ task[t].state = "submitted"
    /\ Takes(w, "picked", t)
    /\ UNCHANGED <<task, authority, ledger, eve, matrix, faults>>

Authorize(w) ==
    /\ At(w, "picked")
    /\ IF TaskAccess(worker[w].task) THEN Goes(w, "sending") ELSE Done(w)
    /\ UNCHANGED <<task, authority, ledger, eve, matrix, faults>>

\* Eve takes the prompt, or recovers the session that already has it.
Taken(t) == IF eve[t] = "none" THEN [eve EXCEPT ![t] = "queued"] ELSE eve

Send(w) ==
    /\ At(w, "sending")
    /\ eve' = Taken(worker[w].task)
    /\ Goes(w, "binding")
    /\ UNCHANGED <<task, authority, ledger, matrix, faults>>

\* The call fails, before or after Eve took the prompt.
SendFails(w) ==
    /\ At(w, "sending") /\ Fault
    /\ eve' \in {eve, Taken(worker[w].task)}
    /\ Done(w)
    /\ UNCHANGED <<task, authority, ledger, matrix>>

\* Mutant: the task stays submitted.
OnlyBoundRow(t) == [task EXCEPT ![t].bound = TRUE]

\* bindProtocolSession's update: the session is kept, the state only leaves submitted.
BoundRow(t) ==
    [task EXCEPT ![t].bound = TRUE,
                 ![t].state = IF @ = "submitted" THEN "working" ELSE @]

Bind(w) ==
    /\ At(w, "binding") /\ Access /\ Exists(worker[w].task)
    /\ Update({worker[w].task}, BoundRow(worker[w].task))
    /\ Goes(w, "reading")
    /\ UNCHANGED <<authority, eve, matrix, faults>>

\* onError: whatever stopped the binding or the reading, the session is to be cancelled.
BindFails(w) ==
    /\ \/ At(w, "binding") \/ At(w, "reading")
    /\ IF Access /\ Exists(worker[w].task) THEN Fault ELSE UNCHANGED faults
    /\ ledger' = ledger \union {worker[w].task}
    /\ Done(w)
    /\ UNCHANGED <<task, authority, eve, matrix>>

ReadBack(w) ==
    /\ At(w, "reading") /\ Access /\ Exists(worker[w].task)
    /\ IF task[worker[w].task].state = "canceled" THEN Goes(w, "cancelling") ELSE Done(w)
    /\ UNCHANGED <<task, authority, ledger, eve, matrix, faults>>

\* Eve's cancel: a session that has ended stays ended.
Stopped(t) == IF eve[t] \in Alive THEN [eve EXCEPT ![t] = "stopped"] ELSE eve

CancelSession(w) ==
    /\ At(w, "cancelling")
    /\ eve' = Stopped(worker[w].task)
    /\ Done(w)
    /\ UNCHANGED <<task, authority, ledger, matrix, faults>>

-----------------------------------------------------------------------------
\* deliverProtocolCancellation.

Retire(w, t) ==
    /\ w \in Job /\ At(w, "idle") /\ t \in ledger
    /\ Takes(w, "retiring", t)
    /\ UNCHANGED <<task, authority, ledger, eve, matrix, faults>>

StopRetired(w) ==
    /\ At(w, "retiring")
    /\ eve' = Stopped(worker[w].task)
    /\ Goes(w, "erasing")
    /\ UNCHANGED <<task, authority, ledger, matrix, faults>>

EraseRetired(w) ==
    /\ At(w, "erasing")
    /\ ledger' = ledger \ {worker[w].task}
    /\ Done(w)
    /\ UNCHANGED <<task, authority, eve, matrix, faults>>

-----------------------------------------------------------------------------
\* publishMatrixProtocolAnswer: one transaction around the call to the homeserver.

\* Mutant: a failure is not told.
PublishableIfCompleted(t) ==
    /\ grant.kind = "conversation" /\ Access
    /\ t \notin answered /\ task[t].output /\ task[t].state = "completed"

Publishable(t) ==
    /\ grant.kind = "conversation" /\ Access
    /\ t \notin answered /\ task[t].output /\ task[t].state \in {"completed", "failed"}

StartPublishing(w, t) ==
    /\ At(w, "idle") /\ Publishable(t)
    /\ Takes(w, "publishing", t)
    /\ UNCHANGED <<task, authority, ledger, eve, matrix, faults>>

\* Mutant: the answer is recorded before it is sent.
PutAfterRecording(w) ==
    /\ At(w, "publishing")
    /\ answered' = answered \union {worker[w].task}
    /\ Goes(w, "committing")
    /\ UNCHANGED <<task, authority, ledger, eve, room, faults>>

\* The transaction id is the task's, so the homeserver keeps one event.
Put(w) ==
    /\ At(w, "publishing")
    /\ room' = room \union {worker[w].task}
    /\ Goes(w, "committing")
    /\ UNCHANGED <<task, authority, ledger, eve, answered, faults>>

Commit(w) ==
    /\ At(w, "committing")
    /\ answered' = answered \union {worker[w].task}
    /\ Done(w)
    /\ UNCHANGED <<task, authority, ledger, eve, room, faults>>

\* A worker dies, or its call fails where nothing is recorded of it.
Crash(w) ==
    /\ ~At(w, "idle") /\ Fault
    /\ Done(w)
    /\ UNCHANGED <<task, authority, ledger, eve, matrix>>

-----------------------------------------------------------------------------
\* Eve runs the session, calling hooks/session-owner.ts and the channel's handlers.

Becomes(t, state) == eve' = [eve EXCEPT ![t] = state]

\* A refused hook throws; Eve may run the session all the same or fail it.
SessionStarts(t) ==
    /\ eve[t] = "queued"
    /\ IF TaskAccess(t) THEN Becomes(t, "starting")
                        ELSE \E s \in {"running", "failing"} : Becomes(t, s)
    /\ UNCHANGED <<task, authority, ledger, worker, matrix, faults>>

SessionBinds(t) ==
    /\ eve[t] = "starting"
    /\ IF Exists(t) THEN Update({t}, BoundRow(t)) /\ Becomes(t, "running")
       ELSE \E s \in {"running", "failing"} : Becomes(t, s) /\ UNCHANGED <<task, ledger>>
    /\ UNCHANGED <<authority, worker, matrix, faults>>

\* A turn ends; without access the handler leaves silently.
TurnEnds(t) ==
    /\ eve[t] = "running"
    /\ IF TaskAccess(t) THEN \E s \in {"answered", "broken"} : Becomes(t, s)
                        ELSE Becomes(t, "ended")
    /\ UNCHANGED <<task, authority, ledger, worker, matrix, faults>>

\* finishProtocolTask's update, after its check: an empty answer is no output.
Finish(t) ==
    /\ eve[t] \in {"answered", "broken"}
    /\ IF task[t].state \in Open
       THEN \E said \in {TRUE, eve[t] = "broken"} :
              Update({t}, [task EXCEPT
                  ![t].output = said,
                  ![t].state = IF eve[t] = "broken" THEN "failed" ELSE "completed"])
       ELSE UNCHANGED <<task, ledger>>
    /\ Becomes(t, "ended")
    /\ UNCHANGED <<authority, worker, matrix, faults>>

SessionBreaks(t) ==
    /\ eve[t] \in {"queued", "running"}
    /\ Becomes(t, "failing")
    /\ UNCHANGED <<task, authority, ledger, worker, matrix, faults>>

\* failProtocolSession asks for no access.
FailSession(t) ==
    /\ eve[t] = "failing"
    /\ IF task[t].state \in Open
       THEN Update({t}, [task EXCEPT
                  ![t] = [state |-> "failed", bound |-> TRUE, output |-> TRUE]])
       ELSE UNCHANGED <<task, ledger>>
    /\ Becomes(t, "ended")
    /\ UNCHANGED <<authority, worker, matrix, faults>>

Session(t) == SessionStarts(t) \/ SessionBinds(t) \/ Finish(t) \/ FailSession(t)

-----------------------------------------------------------------------------
\* What a worker under way does next, or that it dies.
Proceed(w) ==
    \/ Authorize(w) \/ Send(w) \/ SendFails(w) \/ Bind(w) \/ BindFails(w) \/ ReadBack(w)
    \/ CancelSession(w) \/ StopRetired(w) \/ EraseRetired(w) \/ Put(w) \/ Commit(w)
    \/ Crash(w)

Next ==
    \/ \E t \in Task : Accept(t) \/ Session(t) \/ TurnEnds(t) \/ SessionBreaks(t)
    \/ \E w \in Worker, t \in Task : CancelTask(w, t) \/ Pick(w, t) \/ Retire(w, t)
                                     \/ StartPublishing(w, t)
    \/ \E w \in Worker : Proceed(w)
    \/ Revoke \/ Delete \/ Expire \/ Hide \/ Publish

Spec == Init /\ [][Next]_vars

\* Workers go on or die, and Eve calls the hooks and handlers of a session; a turn need
\* not end.  Every tick takes what is pending of each kind in turn, whatever callers do
\* in between, hence SF.
Fairness ==
    /\ \A w \in Worker : WF_vars(Proceed(w))
    /\ \A t \in Task : /\ SF_vars(\E w \in Job : Pick(w, t))
                       /\ SF_vars(\E w \in Job : Retire(w, t))
                       /\ SF_vars(\E w \in Job : StartPublishing(w, t))
                       /\ WF_vars(Session(t))

FairSpec == Spec /\ Fairness

-----------------------------------------------------------------------------
\* Properties.

\* "concurrent delivery, cancellation before binding, and late completion keep one
\* terminal task" (workspace-agents.integration.ts): a task ends once, the room tells
\* only what a task ended with, and nothing after the grant is revoked.
FateOf(row) == CASE row.state \in Open -> "open"
                 [] row.state = "canceled" -> "cancelled"
                 [] OTHER -> row.state

Fate == [t \in Task |-> FateOf(task[t])]

Promise == INSTANCE TaskPromise WITH
    fate <- Fate, posted <- room, revoked <- grant.status \in {"revoked", "deleted"}

KeepsPromise == Promise!Spec

\* A cancelled or deleted task whose session was ever known, to the row or to the
\* ledger, has it stopped in the end, whoever dies on the way: "Cancellation must
\* survive ON DELETE CASCADE" (migration 0052).
CancelledWorkStops ==
    \A t \in Task :
        task[t].state \in {"canceled", "gone"} /\ (task[t].bound \/ t \in ledger)
            /\ eve[t] \in Alive
            ~> eve[t] \notin Alive

\* An accepted task is handed to Eve without the caller's help, or loses its grant.
SubmittedIsDelivered ==
    \A t \in Task : task[t].state = "submitted" ~> task[t].state # "submitted" \/ ~Access

\* An outcome reaches the room, whoever dies between the call and the commit.
OutcomeIsTold ==
    \A t \in Task :
        grant.kind = "conversation" /\ task[t].state \in {"completed", "failed"} /\ task[t].output
            ~> t \in room \/ ~Access
================================================================================
