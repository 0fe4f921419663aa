------------------------------ MODULE PlanMode ------------------------------
(***************************************************************************)
(* Plan mode of one session: the planning state, the request a drafting    *)
(* turn waits on, the todo items, the configuration of the auto-loop, and  *)
(* the turns of chats and continuations that read and change them.         *)
(*                                                                         *)
(* That one run at a time holds the session is what SessionRuns is about;  *)
(* here the session has one run.  The limits of the loop (rounds, time,    *)
(* similarity, the exit tool) are a choice.  The configuration exists in   *)
(* the controller and in the session's metadata; every handler writes both. *)
(***************************************************************************)
EXTENDS TodoBoard

CONSTANTS
    Sockets,     \* browsers
    Gone,        \* a socket that was closed
    MaxRuns,     \* bound: runs
    MaxRequests  \* bound: requests to the user

Requests == 1 .. MaxRequests
RunIds == 1 .. MaxRuns

\* A plan is named by the request that asked for its approval.
ASSUME PlanModeAssumption ==
    /\ Gone \notin Sockets
    /\ {MaxRuns, MaxRequests} \subseteq Nat
    /\ Plans = 0 .. MaxRequests

VARIABLES
    open,      \* connected browsers
    phase,     \* of the session's run: idle, preparing, running
    run,       \* the newest run id
    sampled,   \* the planning state the run was prepared with
    runWs,     \* the browser that started the run
    canceled,  \* the abort signal of its turn
    scheduled, \* a continuation is scheduled
    lastReq,   \* the newest request id
    waiting,   \* requests whose tool call has no answer yet
    pending,   \* pendingByRunId
    timers,    \* armed detach timers
    shown,     \* meta.pendingPlanInput
    plan,      \* meta.planningState
    todos,     \* the session's todo bucket
    loop,      \* configuration and running state of the auto-loop
    lost,      \* history: waiting requests whose answer threw
    left       \* history: waiting requests whose draft was left

runVars == <<phase, run, sampled, runWs, canceled, scheduled>>
reqVars == <<lastReq, waiting, pending, timers, shown, lost, left>>
modeVars == <<plan, todos, loop>>
vars == <<open, runVars, reqVars, modeVars>>

PlanningStates == {"normal", "plan_drafting", "plan_executing"}
NoPending == [req |-> 0, run |-> 0, approval |-> FALSE, ws |-> Gone, detached |-> FALSE]
NotShown == [req |-> 0, run |-> 0]

Init ==
    /\ open = Sockets
    /\ phase = "idle"
    /\ run = 0
    /\ sampled = "normal"
    /\ runWs = Gone
    /\ canceled = FALSE
    /\ scheduled = FALSE
    /\ lastReq = 0
    /\ waiting = {}
    /\ pending = NoPending
    /\ timers = {}
    /\ shown = NotShown
    /\ plan = [state |-> "normal", active |-> 0]
    /\ todos = [i \in Slots |-> NoItem]
    /\ loop = [enabled |-> FALSE, mode |-> "ralph", ralph |-> FALSE, confirm |-> FALSE,
               paused |-> FALSE, running |-> FALSE]
    /\ lost = {}
    /\ left = {}

-----------------------------------------------------------------------------
(* What the plan and the todo items make of the loop *)

Stopped(l) == [l EXCEPT !.running = FALSE]

\* Mutant: the loop that runs is not stopped
MarkedOnly(l) == [l EXCEPT !.enabled = FALSE, !.mode = "todo", !.confirm = TRUE]

\* markTodoPlanConfirmationPending
Marked(l) == Stopped([l EXCEPT !.enabled = FALSE, !.mode = "todo", !.confirm = TRUE])

\* clearTodoPlanConfirmationPending
Confirmed(l) == [l EXCEPT !.confirm = FALSE]

\* ensureTodoDrivenAutoLoop: confirmation first, then whether work is left,
\* then the user's pause.
Ensured(l, board) ==
    CASE l.confirm -> Marked(l)
      [] ~l.confirm /\ Unfinished(board) = {} ->
            [l EXCEPT !.enabled = l.ralph, !.mode = "ralph", !.paused = FALSE,
                      !.running = l.running /\ l.mode /= "todo"]
      [] ~l.confirm /\ Unfinished(board) /= {} /\ l.paused ->
            Stopped([l EXCEPT !.enabled = FALSE, !.mode = "todo"])
      [] OTHER -> [l EXCEPT !.enabled = TRUE, !.mode = "todo"]

\* Mutant: a blocked item does not keep the plan
PlanKeptByOpen(p, l, board) ==
    IF ~l.confirm /\ Unfinished(board) \ Blocked(board) = {} /\ p.state = "plan_executing"
    THEN [state |-> "normal", active |-> 0] ELSE p

\* An executed plan ends when no work is left.
PlanKept(p, l, board) ==
    IF ~l.confirm /\ Unfinished(board) = {} /\ p.state = "plan_executing"
    THEN [state |-> "normal", active |-> 0] ELSE p

\* The handlers that end with ensureTodoDrivenAutoLoop
Refreshed(l, p) ==
    /\ loop' = Ensured(l, todos')
    /\ plan' = PlanKept(p, l, todos')

\* pausePlanExecutionAutoLoopForContext or stopAutoLoopForContext
PausedByStop(l) ==
    IF plan.state = "plan_executing" /\ Unfinished(todos) /= {} THEN Stopped(l)
    ELSE Stopped([l EXCEPT !.enabled = FALSE, !.paused = TRUE,
                           !.ralph = (l.mode /= "ralph" /\ l.ralph)])

\* resolveExitAutoLoopConfig
ExitNormal(l) ==
    [l EXCEPT !.enabled = l.ralph, !.mode = "ralph", !.confirm = FALSE, !.paused = FALSE]
ExitForced(l) ==
    [l EXCEPT !.enabled = FALSE, !.mode = "todo", !.confirm = FALSE, !.paused = TRUE]

-----------------------------------------------------------------------------
(* Chats *)

\* Nothing of a run is read once the session is free.
Idle ==
    /\ phase' = "idle"
    /\ sampled' = "normal"
    /\ runWs' = Gone
    /\ canceled' = FALSE

\* resolvePlanningStateForChat, before the session is known to be free
Resolved(enter) ==
    IF enter \/ plan.state = "plan_drafting"
    THEN /\ plan' = [plan EXCEPT !.state = "plan_drafting"]
         /\ loop' = Marked(loop)
    ELSE UNCHANGED <<plan, loop>>

Chat(s, enter) ==
    /\ s \in open /\ phase = "idle" /\ run < MaxRuns
    /\ Resolved(enter)
    /\ phase' = "preparing"
    /\ run' = run + 1
    /\ sampled' = plan'.state
    /\ runWs' = s
    /\ canceled' = FALSE
    /\ UNCHANGED <<open, scheduled, reqVars, todos>>

\* The session is busy; its planning state was changed all the same.
ChatRefused(enter) ==
    /\ open /= {} /\ phase /= "idle"
    /\ Resolved(enter)
    /\ UNCHANGED <<open, runVars, reqVars, todos>>

Activated ==
    /\ phase = "preparing"
    /\ phase' = "running"
    /\ IF sampled = "plan_drafting" THEN UNCHANGED modeVars
       ELSE LET l == Ensured(Confirmed(loop), todos)
            IN  /\ loop' = [l EXCEPT !.running = l.running \/ l.enabled]
                /\ plan' = PlanKept(plan, Confirmed(loop), todos)
                /\ UNCHANGED todos
    /\ UNCHANGED <<open, run, sampled, runWs, canceled, scheduled, reqVars>>

PreparationFails ==
    /\ phase = "preparing"
    /\ Idle
    /\ UNCHANGED <<open, run, scheduled, reqVars, modeVars>>

-----------------------------------------------------------------------------
(* The request a drafting turn waits on *)

Armed(p) == [req |-> p.req, run |-> p.run]

\* Mutant: assertNoPendingInputForRun is not called
AskOverwrites(approval) ==
    /\ phase = "running" /\ sampled = "plan_drafting" /\ ~canceled
    /\ lastReq < MaxRequests
    /\ lastReq' = lastReq + 1
    /\ waiting' = waiting \union {lastReq + 1}
    /\ pending' = [req |-> lastReq + 1, run |-> run, approval |-> approval, ws |-> runWs,
                   detached |-> runWs \notin open]
    /\ timers' = IF runWs \in open THEN timers ELSE timers \union {Armed(pending')}
    /\ shown' = [req |-> lastReq + 1, run |-> run]
    /\ UNCHANGED <<open, runVars, modeVars, lost, left>>

\* request_user_input and finalize_plan: the tools of a drafting turn.
Ask(approval) ==
    /\ phase = "running" /\ sampled = "plan_drafting" /\ ~canceled
    /\ waiting = {} /\ lastReq < MaxRequests
    /\ lastReq' = lastReq + 1
    /\ waiting' = {lastReq + 1}
    /\ pending' = [req |-> lastReq + 1, run |-> run, approval |-> approval, ws |-> runWs,
                   detached |-> runWs \notin open]
    /\ timers' = IF runWs \in open THEN timers ELSE timers \union {Armed(pending')}
    /\ shown' = [req |-> lastReq + 1, run |-> run]
    /\ UNCHANGED <<open, runVars, modeVars, lost, left>>

\* clearPendingPlanInputMeta
ShownWithout(p) == IF shown = Armed(p) THEN NotShown ELSE shown

\* clearDetachTimer, pendingByRunId.delete and the metadata
Forgotten(p) ==
    /\ pending' = NoPending
    /\ shown' = ShownWithout(p)
    /\ left' = left \ {p.req}
    /\ timers' = timers \ {Armed(p)}

MayAnswer(s) == s \in open /\ pending.req /= 0 /\ (s = pending.ws \/ pending.detached)

\* An approval of a plan of some steps, while the session is drafting.
Approves(label) == pending.approval /\ plan.state = "plan_drafting" /\ label = "Approve execution"

NewPlans == {new \in [Slots -> {"absent", "pending"}] : \E i \in Slots : new[i] = "pending"}

\* The plan becomes todo items.
AnswerActivates(s) ==
    /\ MayAnswer(s) /\ Approves("Approve execution")
    /\ Forgotten(pending)
    /\ waiting' = waiting \ {pending.req}
    /\ \E new \in NewPlans :
         /\ CanSet(todos, new)
         /\ todos' = PlanSet(todos, new, pending.req)
         /\ Refreshed(Confirmed(loop), [state |-> "plan_executing", active |-> pending.req])
    /\ UNCHANGED <<open, runVars, lastReq, lost>>

\* The steps do not fit beside the archive: setTodoPlan throws between the
\* removal of the request and its promise.
AnswerThrows(s) ==
    /\ MayAnswer(s) /\ Approves("Approve execution")
    /\ Archive(todos) /= {}
    /\ Forgotten(pending)
    /\ lost' = lost \union {pending.req}
    /\ UNCHANGED <<open, runVars, modeVars, lastReq, waiting>>

\* Any other answer, also one to a clarifying question.
AnswerOther(s, label) ==
    /\ MayAnswer(s) /\ ~Approves(label)
    /\ Forgotten(pending)
    /\ waiting' = waiting \ {pending.req}
    /\ UNCHANGED todos
    /\ Refreshed(Confirmed(loop), plan)
    /\ UNCHANGED <<open, runVars, lastReq, lost>>

Answer(s) ==
    \/ AnswerActivates(s) \/ AnswerThrows(s)
    \/ \E label \in {"Approve execution", "Request changes"} : AnswerOther(s, label)

\* rejectByRunId, rejectByContext
Rejected ==
    IF pending.req = 0 THEN UNCHANGED <<pending, timers, shown, left, waiting>>
    ELSE Forgotten(pending) /\ waiting' = waiting \ {pending.req}

\* Mutant: detachedAt is cleared before it is looked at
ExpireForgets(t) ==
    /\ t \in timers
    /\ timers' = timers \ {t}
    /\ UNCHANGED <<open, runVars, modeVars, lastReq, waiting, pending, shown, lost, left>>

\* The detach timer of a request fires: cancelDetached looks at what its run
\* waits for now.
Expire(t) ==
    /\ t \in timers
    /\ IF pending.run = t.run /\ pending.detached
       THEN /\ Forgotten(pending)
            /\ waiting' = waiting \ {pending.req}
            /\ canceled' = (phase = "running")
       ELSE /\ timers' = timers \ {t}
            /\ UNCHANGED <<pending, shown, left, waiting, canceled>>
    /\ UNCHANGED <<open, phase, run, sampled, runWs, scheduled, lastReq, modeVars, lost>>

\* A socket closes for good; its browser may come back with another one.
Disconnect(s) ==
    /\ s \in open
    /\ open' = open \ {s}
    /\ runWs' = IF runWs = s THEN Gone ELSE runWs
    /\ IF pending.req /= 0 /\ pending.ws = s
       THEN /\ pending' = [pending EXCEPT !.ws = Gone, !.detached = TRUE]
            /\ timers' = timers \union {Armed(pending)}
       ELSE UNCHANGED <<pending, timers>>
    /\ UNCHANGED <<phase, run, sampled, canceled, scheduled, lastReq, waiting, shown, lost, left,
                   modeVars>>

Connect(s) ==
    /\ s \notin open
    /\ open' = open \union {s}
    /\ UNCHANGED <<runVars, reqVars, modeVars>>

\* Stop: the turn is aborted, the request rejected, the loop paused.
Cancel ==
    /\ open /= {}
    /\ canceled' = (phase = "running")
    /\ Rejected
    /\ loop' = PausedByStop(loop)
    /\ UNCHANGED <<open, phase, run, sampled, runWs, scheduled, lastReq, lost, plan, todos>>

StopLoop ==
    /\ open /= {}
    /\ loop' = PausedByStop(loop)
    /\ UNCHANGED <<open, runVars, reqVars, plan, todos>>

-----------------------------------------------------------------------------
(* The end of a turn *)

\* A turn cannot end while one of its tools waits.
CanEnd == phase = "running" /\ waiting = {}

Ended == Idle /\ UNCHANGED <<open, run, reqVars>>

\* What shouldContinue answers for a loop that is on.
Continues(l) ==
    \/ loop' = [l EXCEPT !.running = TRUE] /\ scheduled' = TRUE
    \/ loop' = Stopped(l) /\ UNCHANGED scheduled

\* handleCallbackCompletion with the loop as it is after the refresh
Completes ==
    LET l == Ensured(loop, todos)
    IN  /\ CanEnd
        /\ plan' = PlanKept(plan, loop, todos)
        /\ IF ~l.enabled \/ l.paused \/ Blocked(todos) /= {}
           THEN loop' = l /\ UNCHANGED scheduled
           ELSE Continues(l)
        /\ UNCHANGED todos
        /\ Ended

CompletesCanceled ==
    /\ CanEnd /\ canceled
    /\ UNCHANGED <<scheduled, modeVars>>
    /\ Ended

\* The controller of a run that does not draft is stopped, unless the error
\* left a checkpoint to continue from, which is like a completion.
Fails ==
    /\ CanEnd
    /\ loop' = IF sampled = "plan_drafting" THEN loop ELSE Stopped(loop)
    /\ UNCHANGED <<scheduled, plan, todos>>
    /\ Ended

\* The timer of a continuation; its turn has all tools, whatever the
\* planning state.
ContinuationFires ==
    /\ scheduled
    /\ scheduled' = FALSE
    /\ \/ /\ ~loop.running
          /\ UNCHANGED <<phase, run, sampled, canceled, loop>>
       \/ /\ loop.running /\ phase /= "idle"
          /\ loop' = Stopped(loop)
          /\ UNCHANGED <<phase, run, sampled, canceled>>
       \/ /\ loop.running /\ phase = "idle" /\ run < MaxRuns
          /\ phase' = "running"
          /\ run' = run + 1
          /\ sampled' = "normal"
          /\ canceled' = FALSE
          /\ UNCHANGED loop
    /\ UNCHANGED <<open, runWs, reqVars, plan, todos>>

-----------------------------------------------------------------------------
(* Routes of the session *)

\* POST plan-draft/exit: the request disappears from the metadata only.
ExitDraft ==
    /\ plan.state = "plan_drafting"
    /\ plan' = [state |-> "normal", active |-> 0]
    /\ shown' = NotShown
    /\ left' = left \union waiting
    /\ loop' = ExitNormal(loop)
    /\ UNCHANGED <<open, runVars, lastReq, waiting, pending, timers, lost, todos>>

\* POST plan-execution/exit, normal and forced
ExitExecution ==
    /\ plan.state = "plan_executing" /\ Unfinished(todos) = {}
    /\ plan' = [state |-> "normal", active |-> 0]
    /\ loop' = Stopped(ExitNormal(loop))
    /\ UNCHANGED <<open, runVars, reqVars, todos>>

ForceExit ==
    /\ plan.state = "plan_executing"
    /\ plan' = [state |-> "normal", active |-> 0]
    /\ canceled' = (phase = "running")
    /\ loop' = Stopped(ExitForced(loop))
    /\ UNCHANGED <<open, phase, run, sampled, runWs, scheduled, reqVars, todos>>

\* POST autoloop with enabled on or off; turning it on is refused while a
\* plan waits for its confirmation.
SetLoop(on) ==
    LET controlled == loop.confirm \/ Unfinished(todos) /= {}
        l == [loop EXCEPT !.enabled = on,
                          !.mode = IF controlled THEN "todo" ELSE "ralph",
                          !.ralph = IF controlled THEN loop.ralph ELSE on,
                          !.paused = controlled /\ ~on,
                          !.running = loop.running /\ on]
    IN  /\ ~(on /\ loop.confirm)
        /\ UNCHANGED <<open, runVars, reqVars, todos>>
        /\ Refreshed(l, plan)

-----------------------------------------------------------------------------
(* Todo items *)

\* What both the user and the agent may do to the items.
TodoEdit(binding) ==
    \/ CanAdd(todos, binding) /\ todos' = Added(todos, binding)
    \/ \E new \in [Slots -> {"absent"} \union Open] :
         CanSet(todos, new) /\ todos' = PlanSet(todos, new, binding)
    \/ \E i \in Slots, status \in Open \union {"completed"} :
         CanSetStatus(todos, i) /\ todos' = StatusSet(todos, i, status)

TodoRemoval ==
    \/ \E i \in Slots : todos' = Removed(todos, {i})
    \/ todos' = Removed(todos, Completed(todos))

\* The todo routes
UserTodo ==
    /\ \/ TodoEdit(Unbound)
       \/ \E i \in Blocked(todos) : todos' \in {Dismissed(todos, {i}), Resumed(todos, i)}
       \/ todos' = Dismissed(todos, Unfinished(todos))
    /\ Refreshed(loop, plan)
    /\ UNCHANGED <<open, runVars, reqVars>>

\* Removals do not refresh the loop.
UserRemoves ==
    /\ TodoRemoval
    /\ UNCHANGED <<open, runVars, reqVars, plan, loop>>

\* The todo tool, which drafting turns do not have
AgentTodo ==
    /\ phase = "running" /\ sampled /= "plan_drafting" /\ ~canceled
    /\ TodoEdit(plan.active) \/ TodoRemoval
    /\ UNCHANGED <<open, runVars, reqVars, plan, loop>>

-----------------------------------------------------------------------------
\* The process restarts: metadata and todo items are on disk.
Crash ==
    /\ Idle
    /\ open' = {}
    /\ scheduled' = FALSE
    /\ waiting' = {} /\ lost' = {} /\ left' = {}
    /\ pending' = NoPending
    /\ timers' = {}
    /\ loop' = Stopped(loop)
    /\ UNCHANGED <<run, lastReq, shown, plan, todos>>

PlanNext ==
    \/ \E s \in Sockets, enter \in BOOLEAN : Chat(s, enter)
    \/ \E enter \in BOOLEAN : ChatRefused(enter)
    \/ Activated \/ PreparationFails
    \/ \E approval \in BOOLEAN : Ask(approval)
    \/ \E s \in Sockets : Answer(s) \/ Disconnect(s) \/ Connect(s)
    \/ \E t \in timers : Expire(t)
    \/ Cancel \/ StopLoop
    \/ Completes \/ CompletesCanceled \/ Fails \/ ContinuationFires
    \/ ExitDraft \/ ExitExecution \/ ForceExit
    \/ \E on \in BOOLEAN : SetLoop(on)
    \/ UserTodo \/ UserRemoves \/ AgentTodo
    \/ Crash

PlanSpec == Init /\ [][PlanNext]_vars

\* Armed timers fire.
PlanFairSpec == PlanSpec /\ WF_vars(\E t \in timers : Expire(t))

-----------------------------------------------------------------------------
(* Properties *)

\* Every field holds what its handler writes; items with more than one in
\* progress are no board the store writes.
PlanTypeOK ==
    /\ open \subseteq Sockets
    /\ phase \in {"idle", "preparing", "running"}
    /\ run \in 0 .. MaxRuns
    /\ sampled \in PlanningStates
    /\ runWs \in Sockets \union {Gone}
    /\ canceled \in BOOLEAN /\ scheduled \in BOOLEAN
    /\ lastReq \in 0 .. MaxRequests
    /\ waiting \subseteq Requests
    /\ pending \in [req : 0 .. MaxRequests, run : 0 .. MaxRuns, approval : BOOLEAN,
                    ws : Sockets \union {Gone}, detached : BOOLEAN]
    /\ timers \subseteq [req : Requests, run : RunIds]
    /\ shown \in [req : 0 .. MaxRequests, run : 0 .. MaxRuns]
    /\ plan \in [state : PlanningStates, active : Plans]
    /\ todos \in Boards
    /\ loop \in [enabled : BOOLEAN, mode : {"ralph", "todo"}, ralph : BOOLEAN,
                 confirm : BOOLEAN, paused : BOOLEAN, running : BOOLEAN]
    /\ lost \subseteq Requests /\ left \subseteq Requests

\* A tool call that waits for the user can be reached: its request is the
\* pending one of the run, whatever answers, expiries and Stops came before.
\* Only an approval whose plan does not fit leaves a call nobody can wake.
WaitersArePending ==
    \A q \in waiting : q \in lost \/ (pending.req = q /\ pending.run = run /\ phase = "running")

\* A request whose browser is gone has a running timer, and no other timer
\* runs that could reach a later request of the same run.
GraceIsRunning ==
    /\ pending.req /= 0 => (pending.ws \in open \/ Armed(pending) \in timers)
    /\ timers \subseteq {Armed(pending)}

\* The session shows the request its run waits for, so that a browser that
\* comes back can answer; only leaving the draft hides it.
RequestIsShown ==
    pending.req /= 0 => (shown = Armed(pending) \/ pending.req \in left)

\* All three: whoever comes back to the session in time can answer the call
\* that waits, and if nobody does it expires.
WaitersAreReachable == WaitersArePending /\ RequestIsShown /\ GraceIsRunning

\* While a plan waits for its confirmation, no way of the user or of a turn
\* starts the loop.
ConfirmBlocksLoop == loop.confirm => ~loop.enabled /\ ~loop.running

\* Unfinished items belong to one plan; those of an executed plan are bound to
\* it or were set by the user; and one at most is in progress.
TodosFollowThePlan ==
    /\ \A i, j \in Unfinished(todos) : todos[i].plan = todos[j].plan
    /\ plan.state = "plan_executing" =>
         \A i \in Unfinished(todos) : todos[i].plan \in {plan.active, Unbound}
    /\ Cardinality(InProgress(todos)) <= 1

\* Execution of a plan ends when its items are finished, or by a forced exit
\* that leaves the loop off and paused.
ExitIsEarned ==
    [][plan.state = "plan_executing" /\ plan'.state = "normal" =>
         \/ Unfinished(todos') = {}
         \/ loop'.paused /\ ~loop'.enabled /\ ~loop'.running]_vars

\* A request whose browser is gone does not wait forever: it is answered from
\* another browser, rejected or expired.
DetachedIsSettled ==
    \A q \in Requests : (pending.req = q /\ pending.ws \notin open) ~> q \notin waiting \/ q \in lost

\* src/doc/design/features/plan-mode-lifecycle.md:46 "Drafting must not make
\* source changes, run destructive commands, or treat an unapproved plan as
\* executable work.": a turn that drafts, in a session that is still drafting,
\* does not schedule a continuation, which has every tool.
DraftsDoNotExecute ==
    [][sampled = "plan_drafting" /\ plan'.state = "plan_drafting" /\ ~scheduled => ~scheduled']_vars
=============================================================================
