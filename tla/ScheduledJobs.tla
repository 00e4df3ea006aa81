----------------------------- MODULE ScheduledJobs -----------------------------
(***************************************************************************)
(* One row of scheduled_agent_jobs and the runs materialized from it       *)
(* (db/services/scheduled-agent-jobs.ts): the agent's tools create and     *)
(* edit it, the web client pauses and resumes it, an account change pauses *)
(* or deletes it, and the cron tick turns its due occurrences into rows of *)
(* scheduled_agent_runs.                                                   *)
(*                                                                         *)
(* updateScheduledAgentJob reads the row, computes, and writes in a second *)
(* statement: two steps.  Everything else is one transaction.  The         *)
(* revision that setReminderStatus requires is not modelled: a caller with *)
(* an old one is refused, which changes nothing.                           *)
(***************************************************************************)
EXTENDS ScheduleTiming, FiniteSets

CONSTANTS
    Timings,    \* timings a job may be given
    Editor,     \* concurrent calls of updateScheduledAgentJob
    MaxTime,    \* bound: the clock
    MaxEdits,   \* bound: edits by the agent's tool and the web client
    NoTiming

ASSUME JobAssumption ==
    /\ MaxTime \in Nat \ {0} /\ MaxEdits \in Nat
    /\ NoTiming \notin Timings

\* What the theorems about timings assume of them.
SteadyTimings == \A t \in Timings : Steady(t)

VARIABLES
    now,     \* the clock, which ticks may look at late
    job,     \* the row
    runs,    \* rows of scheduled_agent_runs per scheduled_for
    edit,    \* edits between their read and their write
    edits

vars == <<now, job, runs, edit, edits>>

Status == {"active", "paused", "completed", "deleted"}

\* since is not a column: the instant from which next was computed.
Plan == [timing : Timings \union {NoTiming}, next : (Nat \ {0}) \union {Never}, since : Nat]

TypeOK ==
    /\ now \in 1 .. MaxTime
    /\ job \in [status : Status \union {"absent"}, policy : {"catch_up", "run_latest"}, plan : Plan]
    /\ job.status # "absent" <=> job.plan.timing # NoTiming
    /\ runs \in [1 .. MaxTime -> Nat]
    /\ edit \in [Editor -> [pc : {"idle", "writing"}, status : Status \union {"same"}, plan : Plan]]
    /\ \A e \in Editor : edit[e].pc = "writing" => edit[e].plan.timing # NoTiming
    /\ edits \in 0 .. MaxEdits

NoPlan == [timing |-> NoTiming, next |-> Never, since |-> 0]
NoEdit == [pc |-> "idle", status |-> "same", plan |-> NoPlan]

Init ==
    /\ now = 1
    /\ job \in [status : {"absent"}, policy : {"catch_up", "run_latest"}, plan : {NoPlan}]
    /\ runs = [at \in 1 .. MaxTime |-> 0]
    /\ edit = [e \in Editor |-> NoEdit]
    /\ edits = 0

Planned(t) == [timing |-> t, next |-> NextRun(t, now), since |-> now]
Edits == edits < MaxEdits /\ edits' = edits + 1

-----------------------------------------------------------------------------
TimePasses ==
    /\ now < MaxTime
    /\ now' \in now + 1 .. MaxTime
    /\ UNCHANGED <<job, runs, edit, edits>>

\* Without a future occurrence nothing is created.
CreateScheduledAgentJob(t) ==
    /\ job.status = "absent"
    /\ NextRun(t, now) # Never
    /\ job' = [job EXCEPT !.status = "active", !.plan = Planned(t)]
    /\ UNCHANGED <<now, runs, edit, edits>>

\* Mutant: an edit of the timing alone keeps the next run.
RecomputesOnResume(status, timing) == status = "active" /\ job.status # "active"

\* shouldRecompute.
Recomputes(status, timing) ==
    timing # NoTiming \/ (status = "active" /\ job.status # "active")

\* updateScheduledAgentJob up to its write: what the patch makes of the row as read.
ReadsForUpdate(e, status, timing) ==
    LET newStatus == IF status = "same" THEN job.status ELSE status
        newTiming == IF timing = NoTiming THEN job.plan.timing ELSE timing
        plan == IF newStatus # "active" THEN [timing |-> newTiming, next |-> Never, since |-> now]
                ELSE IF Recomputes(status, timing) THEN Planned(newTiming)
                ELSE [job.plan EXCEPT !.timing = newTiming]
    IN
    /\ edit[e].pc = "idle" /\ Edits
    /\ job.status \notin {"absent", "deleted"}
    /\ newStatus = "active" => plan.next # Never
    /\ edit' = [edit EXCEPT ![e] = [pc |-> "writing", status |-> status, plan |-> plan]]
    /\ UNCHANGED <<now, job, runs>>

\* The UPDATE names the row by its id alone.
WritesUpdate(e) ==
    /\ edit[e].pc = "writing"
    /\ job' = [job EXCEPT !.status = IF edit[e].status = "same" THEN @ ELSE edit[e].status,
                          !.plan = edit[e].plan]
    /\ edit' = [edit EXCEPT ![e] = NoEdit]
    /\ UNCHANGED <<now, runs, edits>>

\* setReminderStatus locks the row.
SetReminderStatus(status) ==
    /\ job.status \notin {"absent", "deleted"} /\ Edits
    /\ status = "active" => NextRun(job.plan.timing, now) # Never
    /\ job' = [job EXCEPT !.status = status,
                          !.plan = IF status = "active" THEN Planned(job.plan.timing)
                                   ELSE [job.plan EXCEPT !.next = Never]]
    /\ UNCHANGED <<now, runs, edit>>

\* Archiving the account pauses the job and keeps next_run_at; deletion deletes it.
AccountCloses ==
    /\ job.status # "absent"
    /\ \/ job.status = "active" /\ job' = [job EXCEPT !.status = "paused"]
       \/ job.status # "deleted" /\ job' = [job EXCEPT !.status = "deleted"]
    /\ UNCHANGED <<now, runs, edit, edits>>

-----------------------------------------------------------------------------
\* materializeDueScheduledAgentRuns.

Due == job.status = "active" /\ job.plan.next # Never /\ job.plan.next <= now

\* Mutant: a late tick of either policy takes the latest occurrence.
LatestForAll(t) == LatestRun(t, now)

\* Mutant: a late tick of either policy takes the stored occurrence.
StoredForAll(t) == job.plan.next

\* The occurrence a tick takes.
ScheduledFor(t) ==
    LET latest == LatestRun(t, now) IN
    IF job.policy = "catch_up" \/ latest = Never THEN job.plan.next ELSE latest

\* ON CONFLICT DO NOTHING.
Inserted(at) == [runs EXCEPT ![at] = 1]

\* Mutant: a tick moves the job on only if it inserted a run.
NextIfInserted(at) == IF runs[at] = 0 THEN NextRun(job.plan.timing, at) ELSE job.plan.next

\* Mutant: null read as a date is the epoch.
NextOrEpoch(at) == LET next == NextRun(job.plan.timing, at) IN IF next = Never THEN 0 ELSE next

NextAfter(at) == NextRun(job.plan.timing, at)

StatusAfter(next) == IF next = Never THEN "completed" ELSE "active"

Materialize ==
    /\ Due
    /\ \E at \in {ScheduledFor(job.plan.timing)} : \E next \in {NextAfter(at)} :
           /\ runs' = Inserted(at)
           /\ job' = [job EXCEPT !.status = StatusAfter(next), !.plan.next = next]
    /\ UNCHANGED <<now, edit, edits>>

-----------------------------------------------------------------------------
Update(e) ==
    \/ \E status \in {"same", "active", "paused", "deleted"}, t \in Timings \union {NoTiming} :
           ReadsForUpdate(e, status, t)
    \/ WritesUpdate(e)

Next ==
    \/ TimePasses
    \/ \E t \in Timings : CreateScheduledAgentJob(t)
    \/ \E e \in Editor : Update(e)
    \/ \E status \in {"active", "paused"} : SetReminderStatus(status)
    \/ AccountCloses
    \/ Materialize

Spec == Init /\ [][Next]_vars

\* The tick comes every minute, and a call that has read writes.
FairSpec == Spec /\ WF_vars(Materialize) /\ \A e \in Editor : WF_vars(WritesUpdate(e))

-----------------------------------------------------------------------------
\* For every schedule a job may get, at every instant of the week ahead, the next and
\* the latest run are what the wall clock says, across a change of the clocks: none is
\* skipped, and a date has one (timing.ts).
TimingMeetsReference ==
    job.status = "absent" =>
        \A t \in Timings, at \in now .. now + WeekLen * DayLen :
            /\ IsNext(t, at, NextRun(t, at))
            /\ IsLatest(t, at, LatestRun(t, at))
            /\ LatestRun(t, at) # Never => IsOnce(t, LatestRun(t, at))

\* Between the instant a catch_up job was planned from and its next run, every
\* occurrence has a run: late ticks lose none, and no edit in flight does.
CatchUpLosesNothing ==
    job.status = "active" /\ job.policy = "catch_up" /\ job.plan.next # Never =>
        \A o \in Occurrences(job.plan.timing, now) :
            (\A at \in o : job.plan.since < at /\ at < job.plan.next) =>
                \E at \in o : at \in DOMAIN runs /\ runs[at] > 0

\* A tick of a run_latest job runs the latest occurrence and leaves nothing due, however
\* many it missed.
RunLatestCatchesUp == [][
    job.policy = "run_latest" /\ Materialize =>
        /\ job'.plan.next = Never \/ job'.plan.next > now
        /\ \E at \in 1 .. now : runs'[at] > 0 /\ IsLatest(job.plan.timing, now, at)]_vars

\* A new run is due, and an occurrence of the timing that the job has by then, after
\* the instant it was planned from: whichever stale plan an edit wrote back, its timing
\* and its next run belong together.
RunsAreOnSchedule == [][
    \A at \in 1 .. MaxTime :
        runs'[at] > runs[at] =>
            /\ job.plan.since < at /\ at <= now
            /\ \E o \in Occurrences(job.plan.timing, at) : at \in o]_vars

\* An occurrence that is due does not stay the next one: a tick makes its run and moves
\* on, or the job is edited.  A catch_up job that is behind may be due for ever, with
\* one occurrence after another.
DueIsMaterialized ==
    \A n \in 1 .. MaxTime : (Due /\ job.plan.next = n) ~> ~(Due /\ job.plan.next = n)

\* "That schedule has no future occurrence." (scheduled-agent-jobs.ts): a job that
\* stays or becomes active has a next run, or it would never run again.
ActiveHasNext == job.status = "active" => job.plan.next # Never
===============================================================================
