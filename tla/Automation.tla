----------------------------- MODULE Automation -----------------------------
(***************************************************************************)
(* One scheduled job: the scheduler that looks every tick whether it is    *)
(* due, the store that claims runs, the executions that await an agent     *)
(* turn and then the memory synchronisation and the cleanup of the session *)
(* runtime, manual runs, edits, and restarts of the process.               *)
(*                                                                         *)
(* Every operation of the scheduler, the store and the routes names one    *)
(* job and the store is synchronous, so jobs do not interact and a handler *)
(* is one step.  Two writes of one store operation are torn only by a      *)
(* crash.                                                                  *)
(***************************************************************************)
EXTENDS Naturals, FiniteSets

CONSTANTS
    Every,       \* distance of the triggers of the schedule
    Stale,       \* staleThresholdMs
    Retention,   \* runRetention
    MaxRuns,     \* bound: run records claimed
    Horizon,     \* bound: the clock
    MaxCrashes,  \* bound: restarts of the process
    MaxEdits     \* bound: edits of the job by its user

ASSUME AutomationAssumption ==
    /\ {Every, Retention} \subseteq Nat \ {0}
    /\ {Stale, MaxRuns, Horizon, MaxCrashes, MaxEdits} \subseteq Nat

VARIABLES
    now,       \* the clock
    up,        \* whether the process runs
    job,       \* jobs.json: whether the job exists, is enabled, and its nextRunAt
    runs,      \* runs/<job>.json
    lastId,    \* the newest run id
    phase,     \* what executeJob awaits for each run: a turn, or what follows it
    flagged,   \* runningJobIds has the job
    scheduled, \* the executions the scheduler started
    runtimes,  \* runs whose session runtime is booted
    fired,     \* history: the trigger of each scheduled execution
    orphans,   \* history: runs claimed that nobody executes, or whose process died
    crashes, edits

vars == <<now, up, job, runs, lastId, phase, flagged, scheduled, runtimes, fired,
          orphans, crashes, edits>>
bounds == <<crashes, edits>>

RunIds == 1 .. MaxRuns
NotSet == 0  \* no nextRunAt
Statuses == {"running", "succeeded", "failed", "skipped"}
Runs == [id : RunIds, trigger : Nat, status : Statuses]

Live == {i \in RunIds : phase[i] /= "none"}
Recorded == {r.id : r \in runs}
Active(rs) == {r \in rs : r.status = "running"}

\* computeNextRunAt: the next trigger after a time
Next(t) == t + Every

\* The order of the file: newest trigger first, and of equal ones the one
\* that was put in front.
Before(r, s) == r.trigger > s.trigger \/ (r.trigger = s.trigger /\ r.id > s.id)

\* slice(0, runRetention)
Kept(rs) == {r \in rs : Cardinality({s \in rs : Before(s, r)}) < Retention}

Init ==
    /\ now = 0
    /\ up = TRUE
    /\ job = [exists |-> TRUE, enabled |-> TRUE, due |-> Next(0)]
    /\ runs = {}
    /\ lastId = 0
    /\ phase = [i \in RunIds |-> "none"]
    /\ flagged = FALSE
    /\ scheduled = {}
    /\ runtimes = {}
    /\ fired = {}
    /\ orphans = {}
    /\ crashes = 0
    /\ edits = 0

-----------------------------------------------------------------------------
(* Claiming: claimRun *)

\* Mutant: no look for a running record
ClaimBlindly(id, trigger) == [id |-> id, trigger |-> trigger, status |-> "running"]

\* The record of a claim: skipped while the file has a running record.
Claim(id, trigger) ==
    [id |-> id, trigger |-> trigger,
     status |-> IF Active(runs) = {} THEN "running" ELSE "skipped"]

\* Mutant: nextRunAt is not advanced
ClaimedOnly(rec, due) ==
    /\ runs' = Kept(runs \union {rec})
    /\ lastId' = rec.id
    /\ UNCHANGED job

\* Both writes of claimRun.  The flag of the scheduler is not looked at, and
\* a caller that has it set ignores what it claimed.
Claimed(rec, due) ==
    /\ runs' = Kept(runs \union {rec})
    /\ lastId' = rec.id
    /\ job' = [job EXCEPT !.due = due]

\* executeJob up to its first await; it throws when the agent of the job
\* cannot be resolved, and its record stays as it was claimed.
Launched(id) ==
    /\ phase' = [phase EXCEPT ![id] = "turn"]
    /\ runtimes' = runtimes \union {id}
NotLaunched == UNCHANGED <<phase, runtimes>>

-----------------------------------------------------------------------------
(* The scheduler *)

\* The job is looked at by a tick at time t.
Due(t) == job.exists /\ job.enabled /\ job.due /= NotSet /\ job.due <= t
TooLate(t) == t - job.due > Stale

\* Nothing is claimed: not due, never due before, or due too long ago.
PassOver(t) ==
    /\ ~(Due(t) /\ ~TooLate(t))
    /\ job' = IF job.exists /\ job.enabled /\ (job.due = NotSet \/ Due(t))
              THEN [job EXCEPT !.due = Next(t)] ELSE job
    /\ UNCHANGED <<runs, lastId, phase, flagged, scheduled, runtimes, fired, orphans>>

\* Due while the last execution of the scheduler has not returned.
ClaimInFlight(t) ==
    LET rec == Claim(lastId + 1, job.due)
    IN  /\ flagged
        /\ Claimed(rec, Next(t))
        /\ orphans' = IF rec.status = "running" THEN orphans \union {rec.id} ELSE orphans
        /\ NotLaunched
        /\ UNCHANGED <<flagged, scheduled, fired>>

\* Due, and another run is recorded as running.
ClaimSkipped(t) ==
    LET rec == Claim(lastId + 1, job.due)
    IN  /\ ~flagged
        /\ rec.status = "skipped"
        /\ Claimed(rec, Next(t))
        /\ NotLaunched
        /\ UNCHANGED <<flagged, scheduled, fired, orphans>>

\* Due and claimed.  The finally of an execution that threw at once takes the
\* flag away again.
ClaimAndExecute(t) ==
    LET rec == Claim(lastId + 1, job.due)
    IN  /\ ~flagged
        /\ rec.status = "running"
        /\ Claimed(rec, Next(t))
        /\ \/ /\ Launched(rec.id)
              /\ flagged' = TRUE
              /\ scheduled' = scheduled \union {rec.id}
              /\ fired' = fired \union {[trigger |-> job.due, id |-> rec.id]}
              /\ UNCHANGED orphans
           \/ /\ NotLaunched
              /\ orphans' = orphans \union {rec.id}
              /\ UNCHANGED <<flagged, scheduled, fired>>

\* processDueJob at time t
ProcessDueJob(t) ==
    \/ PassOver(t)
    \/ /\ Due(t) /\ ~TooLate(t) /\ lastId < MaxRuns
       /\ ClaimInFlight(t) \/ ClaimSkipped(t) \/ ClaimAndExecute(t)

Tick ==
    /\ up /\ now < Horizon
    /\ now' = now + 1
    /\ ProcessDueJob(now + 1)
    /\ UNCHANGED <<up, bounds>>

\* Time passes without a tick: the process is down, or its event loop busy.
Wait ==
    /\ now < Horizon
    /\ now' = now + 1
    /\ UNCHANGED <<up, job, runs, lastId, phase, flagged, scheduled, runtimes, fired,
                   orphans, bounds>>

-----------------------------------------------------------------------------
(* Executions *)

\* POST /api/automations/:id/run: claims by its own, and sets no flag.
RunNow ==
    LET rec == Claim(lastId + 1, now)
    IN  /\ up /\ job.exists /\ lastId < MaxRuns
        /\ Claimed(rec, job.due)
        /\ \/ rec.status = "skipped" /\ NotLaunched /\ UNCHANGED orphans
           \/ rec.status = "running" /\ Launched(rec.id) /\ UNCHANGED orphans
           \/ rec.status = "running" /\ NotLaunched /\ orphans' = orphans \union {rec.id}
        /\ UNCHANGED <<now, up, flagged, scheduled, fired, bounds>>

\* Mutant: only a result is recorded
SettleResult(id, outcome) ==
    {IF r.id = id /\ outcome = "succeeded" THEN [r EXCEPT !.status = outcome] ELSE r : r \in runs}

\* updateRun of a record that may have left the file
Settle(id, outcome) ==
    {IF r.id = id THEN [r EXCEPT !.status = outcome] ELSE r : r \in runs}

\* Mutant: the flag is taken away only when the call resolves
ReturnedInOrder(id) ==
    /\ phase' = [phase EXCEPT ![id] = "none"]
    /\ flagged' = (flagged /\ (id \notin scheduled \/ phase[id] = "turn"))
    /\ scheduled' = scheduled \ {id}

\* .finally of the scheduler's call
Returned(id) ==
    /\ phase' = [phase EXCEPT ![id] = "none"]
    /\ flagged' = (flagged /\ id \notin scheduled)
    /\ scheduled' = scheduled \ {id}

\* The turn resolves or rejects: the outcome is recorded, then lastRunAt.
\* When the job is gone, that update throws and nothing after it is done.
TurnEnds(id, outcome) ==
    /\ phase[id] = "turn"
    /\ runs' = Settle(id, outcome)
    /\ IF job.exists
       THEN /\ phase' = [phase EXCEPT ![id] = "closing"]
            /\ UNCHANGED <<flagged, scheduled>>
       ELSE Returned(id)
    /\ UNCHANGED <<now, up, job, lastId, runtimes, fired, orphans, bounds>>

\* The memory is synchronised, whatever comes of it, and the runtime of the
\* run's session is cleaned up.
Close(id) ==
    /\ phase[id] = "closing"
    /\ runtimes' = runtimes \ {id}
    /\ Returned(id)
    /\ UNCHANGED <<now, up, job, runs, lastId, fired, orphans, bounds>>

-----------------------------------------------------------------------------
(* The user edits the job *)

Edit(j) ==
    /\ up /\ job.exists /\ edits < MaxEdits
    /\ edits' = edits + 1
    /\ job' = j
    /\ UNCHANGED <<now, up, lastId, phase, flagged, scheduled, runtimes, fired, orphans,
                   crashes>>

Toggle ==
    /\ \/ Edit([job EXCEPT !.enabled = TRUE, !.due = Next(now)])
       \/ Edit([job EXCEPT !.enabled = FALSE, !.due = NotSet])
    /\ UNCHANGED runs

\* A new schedule starts to count at once, also while the job is disabled.
Reschedule == Edit([job EXCEPT !.due = Next(now)]) /\ UNCHANGED runs

\* The job and its runs file are removed; executions go on.
Delete == Edit([exists |-> FALSE, enabled |-> FALSE, due |-> NotSet]) /\ runs' = {}

-----------------------------------------------------------------------------
(* The process *)

\* What the process has in memory is gone.
Dies ==
    /\ up /\ crashes < MaxCrashes
    /\ crashes' = crashes + 1
    /\ up' = FALSE
    /\ phase' = [i \in RunIds |-> "none"]
    /\ flagged' = FALSE
    /\ scheduled' = {}
    /\ runtimes' = {}

Crash ==
    /\ Dies
    /\ orphans' = orphans \union {r.id : r \in Active(runs)}
    /\ UNCHANGED <<now, job, runs, lastId, fired, edits>>

\* Between the two writes of a claim: nextRunAt stays as it was.
CrashInClaim ==
    LET rec == Claim(lastId + 1, job.due)
    IN  /\ Dies
        /\ now < Horizon /\ now' = now + 1
        /\ Due(now + 1) /\ ~TooLate(now + 1) /\ lastId < MaxRuns
        /\ runs' = Kept(runs \union {rec})
        /\ lastId' = rec.id
        /\ orphans' = orphans \union {r.id : r \in Active(runs')}
        /\ UNCHANGED <<job, fired, edits>>

\* start(): nothing is reconciled, and the first tick comes at once.
Restart ==
    /\ ~up /\ now < Horizon
    /\ up' = TRUE
    /\ now' = now + 1
    /\ ProcessDueJob(now + 1)
    /\ UNCHANGED bounds

AutoNext ==
    \/ Tick \/ Wait \/ RunNow
    \/ \E i \in RunIds, outcome \in {"succeeded", "failed"} : TurnEnds(i, outcome)
    \/ \E i \in RunIds : Close(i)
    \/ Toggle \/ Reschedule \/ Delete
    \/ Crash \/ CrashInClaim \/ Restart

AutoSpec == Init /\ [][AutoNext]_vars

-----------------------------------------------------------------------------
(* Properties *)

\* Every variable holds what its file or field may hold.
AutoTypeOK ==
    /\ now \in Nat
    /\ up \in BOOLEAN
    /\ job \in [exists : BOOLEAN, enabled : BOOLEAN, due : Nat]
    /\ runs \subseteq Runs
    /\ lastId \in Nat
    /\ phase \in [RunIds -> {"none", "turn", "closing"}]
    /\ flagged \in BOOLEAN
    /\ scheduled \subseteq RunIds
    /\ runtimes \subseteq RunIds
    /\ fired \subseteq [trigger : Nat, id : RunIds]
    /\ orphans \subseteq RunIds

\* Two executions of the job are in their agent turns at once only if the
\* record of one has left the file: ticks, manual runs and the executions
\* before a restart are kept apart by nothing but the running record.
NoOverlap ==
    \A i, j \in RunIds :
        phase[i] = "turn" /\ phase[j] = "turn" /\ i /= j => ~({i, j} \subseteq Recorded)

\* A trigger of the schedule is executed at most once, whether ticks are late,
\* the process dies within the claim, or the job is rescheduled.
TriggersRunOnce ==
    \A e, f \in fired : e.trigger = f.trigger => e = f

\* runningJobIds has the job exactly while one execution of the scheduler has
\* not returned: a flag left behind would turn the job off without a trace.
FlagIsHeld == /\ flagged <=> scheduled /= {}
              /\ scheduled \subseteq Live
              /\ \A i, j \in scheduled : i = j

\* The session runtime of a run is released when the run returns, whatever its
\* outcome; only the deletion of the job in between leaves runtimes behind.
RuntimesReleased == job.exists => runtimes \subseteq Live

\* Both: what an execution takes it gives back.
ExecutionsCleanUp == FlagIsHeld /\ RuntimesReleased

\* A record that says "running" is that of an agent turn in progress, or of a
\* run nobody executes any more; a run that ended is recorded as ended, also
\* when it failed.
EndedRunsAreRecorded ==
    \A r \in Active(runs) : phase[r.id] = "turn" \/ r.id \in orphans

=============================================================================
