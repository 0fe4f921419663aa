# DPAgent: formal models of the session runtime

DPAgent is an agent server: browsers, a CLI and an automation scheduler start
*runs* of an LLM agent in *sessions*; the server keeps the history of each
session, a runtime (an initialised agent) per session, and the loops that
continue unfinished work. This directory models the parts where steps of
several actors meet.

All source paths below are relative to the repository; `web/server` stands for
`src/web/server`.

## 1. The system

| Component | State | Operations | Talks to | Module |
|---|---|---|---|---|
| Run-state tracker (`web/server/RunStateTracker.ts`) | which runs hold a session, the run a session shows, runs being canceled | reserve, activate, finalise, mark canceling, wait for idle, forget | chat preparation, continuations, cancellation, HTTP routes | `SessionRuns` |
| Chat preparation (`web-server-chat-preparation.ts`) | none of its own | gate, wait for a canceled run, reserve, ensure runtime, activate | tracker, runtime factory, auto-loop | `SessionRuns`, `PlanMode` |
| Session runtimes (`web-server-session-runtime-factory.ts`, `WebServer.ts`) | one agent per session, its key, a dirty mark, a cleanup promise | reuse, swap, boot, mark dirty, clean | tracker (forgets runs), auto-loop (stops it), agent | `SessionRuns` |
| Run execution (`RunExecutionOrchestrator.ts`) | none of its own | run the agent, finalise, schedule the continuation of a recoverable error | agent, tracker, running-input queue | `SessionRuns` |
| Continuations (`web-server-callback-continuation.ts`, `WebServer.ts`) | pending 500 ms timers | plan, fire, look at the gate, prepare, look again, start | auto-loop, tracker, runtime factory | `SessionRuns`, `PlanMode` |
| Cancellation (`web-server-control-message-coordinator.ts`) | canceling marks | scoped, by run id, all | tracker, agent, auto-loop | `SessionRuns` |
| Running-input queue (`running-input-queue-coordinator.ts`) | prompts sent during a run, insert requests | enqueue, insert, remove, consume at a checkpoint, release, next turn, requeue | control messages, agent checkpoint, timers | `RunningInput` |
| Agent facade (`dpagent-runtime.ts`) | context leases, registered turn agents | run, cancel, clean up | context store, LLM, tools | `SessionRuns`, `ContextStore`, `AgentTurn` |
| Agent turn loop (`agent/`) | messages, retry budgets, abort signal | LLM attempt, tool batch, checkpoint, recovery, forced completion | LLM, tools, checkpoint coordinator | `AgentTurn` |
| Message protocol, compaction, replay (`agent/`, `context/`, `compression/`) | none of its own | repair, trim, compact, summarise, collect, commit, read back | agent turn loop, context store | `ToolProtocol`, `TurnRecord` |
| Context store (`context/`, `runtime/interrupted-turn-lifecycle.ts`) | event log, pending turns, draft and its replay checkpoints, interrupted artifact, ledger of side effects, metadata | begin, add, commit, roll back, checkpoint, interrupt, truncate, project | agent facade | `ContextStore` |
| Sub-agents (`subagent/`) | records, queues and slots per parent, executions, waiters, registry file | create, resume, cancel, wait, settle, restart | agent facade, the parent's history | `SubAgents` |
| Pending plan input (`pending-plan-input-coordinator.ts`) | one pending request per run, its expiry timer, detached ones | ask, answer, expire, detach, adopt | sockets, plan tools | `PlanMode` |
| Todo store, plan mode, auto-loop (`todo/`, `tools/PlanModeTools.ts`, `web-server-plan-todo-coordinator.ts`, `auto-loop/`) | items with statuses, planning state, approved plan, loop configuration | set, update, approve, exit, enable, pause, resync, continue | continuations, sessions | `TodoBoard`, `PlanMode` |
| Automation (`automation/`) | jobs, next due time, run records, the flag of a running job | tick, claim, skip, execute, settle, edit, restart | agent facade, session runtimes | `Automation` |
| Arena (`arena/`, `web/server/ArenaCoordinator.ts`) | arenas with their branches, winner and proposal, the lock of the source session, workspaces of the branches | create, start, pause, resume, close, judge, select, propose, apply, reopen, promote, submit | agent facade, sessions, files | `Arena` |
| Shared MCP pool (`mcp/`) | connections with lease counts | acquire, release, dispose | agent facade | |
| Memory, skills, governance, sharing, ASR, LLM clients, tools, config, clients | files, sockets, child processes | see `src/doc/code/modules` | | |

### Which behaviours are hard

The server has one thread, so an *interleaving* is a choice of what happens at
an `await` or between two timers. The hard ones are:

* the gate: a chat tests it, then awaits the end of a canceled run, a cleanup
  and an initialisation; a continuation tests it twice around an await;
* the cleanup of a runtime forgets runs and stops the loop, and is started by
  three parties: saved settings, a changed selection, a deleted session;
* a Stop acts on what is registered at that moment;
* the end of a run, its awaited dirty cleanup, the release of its insert
  requests and the next-turn timer are separate steps;
* the history of a session is written in several files, any of which may be
  the last one written before a crash;
* a turn trims, compacts, repairs and retries its conversation in places that
  do not know of each other, and what is left is committed and read back;
* output of a sub-agent arrives after its cancel or its resume, after the end of its parent's
  turn, or in the parent's next turn; there is no timer that starts a queued
  task later;
* an answer, an expiry, a disconnect and a Stop race for one request of a
  drafting turn, and seven handlers write the flags of the loop;
* ticks, manual runs and restarts are kept apart by one record in a file that
  has a retention limit;
* the run of an arena's branch outlives the pause or close that cancelled it,
  and between the review of a winner and its application anybody may edit.

`PROJECT.json` lists each under `hazards` with its line and the properties that
would catch it.

### What makes each component correct

* Tracker and gate: at most one active run per session; the session shows it;
  nothing dead holds the gate; marks die with their runs.
* Runtimes: the agent of a running turn is the one the session points to.
* Cancellation: a stopped turn is aborted, ends, touches nothing any more, and
  is finalised.
* Queue: every prompt is in exactly one place; order; progress.
* Agent turn: every request is acceptable to a provider; every turn ends; what
  it did is durable before it does more, and its successor reads it back.
* Context store: the history grows by entries that overlooked nothing, claims
  nothing that was not done, and side effects stay explicit, across crashes.
* Sub-agents: each task is settled once; no task is stranded; nobody waits for
  what is over.
* Plan mode: a turn that waits for its user can be answered; a plan that is
  not confirmed does not run; one that runs ends with its items.
* Automation: a due job runs once, also across a restart; executions do not
  overlap and give back what they take.
* Arena: the source is locked while, and only while, an arena is active on it;
  what is judged stays as it was; what is applied was reviewed.

## 2. Modules

| Module | Extends | Is |
|---|---|---|
| `SessionRuns` | | runs of one session, their gate, runtimes, continuations and Stops |
| `SessionGate` | | abstract: a lock |
| `RunningInput` | `SessionRuns` | the running-input queue on top of the runs |
| `ContextStore` | | the files of a context, turns, crashes |
| `TurnHistory` | | abstract: a history of whole entries |
| `ToolProtocol` | | conversations with tool calls, their repairs and reductions |
| `TurnRecord` | `ToolProtocol` | what is committed of a turn and read back |
| `AgentTurn` | `TurnRecord` | the loop of one turn |
| `SubAgents` | | the sub-agent manager of one process |
| `SubAgentPromise` | | abstract: a task is settled once |
| `TodoBoard` | | the items of one bucket |
| `PlanMode` | `TodoBoard` | planning state, pending requests, todo items and loop of one session |
| `Automation` | | one scheduled job |
| `Arena` | | the arenas of one source session |
| `…Proofs` | its component | theorems |
| `MC…` | its component | small instances |

### SessionRuns and RunningInput

`SessionRuns` is the core: the runs of one session. The server keeps every
piece of this state per session key, so one session is enough. A run is a
process; `phase[r]` is the await at which the code executing it is suspended:

| `phase` | where the code is |
|---|---|
| `waiting` | `waitForNoActiveRunForContext`, polling every 100 ms for ten seconds |
| `scheduled` | the `setTimeout` of `scheduleCallbackContinuation` |
| `dirtyClean`, `swapClean` | `cleanupSessionRuntime` inside `ensureWebServerSessionRuntime`, for a dirty runtime and for one of another key |
| `booting` | `nextAgent.initialize()` |
| `assembling` | `runWithResult` before `activeTurnAgents.set` |
| `refused` | `runWithResult` threw because the context lease is taken |
| `running` | the turn agent is registered and works |
| `settling` | `finalizeTrackedRun` awaits the cleanup of a dirty runtime |

`tracked`, `snapshot` and `canceling` are the three maps of the tracker; `rt`
is the session's entry of `sessionRuntimes`; a run id also names the agent its
preparation creates. `Env` selects which requests an instance includes, so a
property can be stated with the environment it needs.

An action is the code between two awaits. A settled promise resumes its waiter
before the next timer, message or request is looked at: every action that
begins with a macrotask is guarded by `Drained`, the actions that continue
after a settled promise are not. `cleanup()` and `initialize()` are promises
that take any time.

`SessionGate` is what the gate promises: a lock that is taken when free, held
until its holder ends, and never taken again by a run that had its chance.
`SessionRuns!GateRefinement` maps the tracker to it.

`RunningInput` EXTENDS `SessionRuns`: the queue, its insert requests, the
checkpoint of the agent, and the next-turn timer. Its actions conjoin an
action of `SessionRuns` with what the queue does in the same step
(`FinishAndRelease` is `Finish` followed by `afterFinalizeTrackedRun`). It also
models what the next-turn timer needs of the sockets (`Connectivity`) and keeps
the queue's operations (`Entry`, `InsertRequested`, `FirstInsertFor`,
`InsertsReleasedBy`, `Requeued`) apart from the handlers that call them, as the
code does.

### ContextStore

`ContextStore` is the durable side of a turn, for one context. The five disk
variables are the files:

| variable | file | written by |
|---|---|---|
| `log` | `events.jsonl` | `appendEvents`: commits of turns, `writeNow` |
| `draft` | `interrupted-draft.json` | `beginTurn`; removed by commit and abort |
| `checkpoints` | `interrupted-draft-checkpoints.jsonl` | `flushTurn` |
| `artifact` | `interrupted-artifact.json` | `finalizeInterruptedTurn`; removed after a commit |
| `ledger` | `interrupted-side-effects.json` | `finalizeInterruptedTurn`; removed after a commit |

The server never yields while it writes, but its process can die. An action
therefore changes memory at once and leaves its file operations in `script`;
`DiskStep` does the first of them, and until `script` is empty only `DiskStep`
and `Crash` are enabled. `Crash` may cut the operation at hand short: some lines
of an append, with a torn last one (`torn`) or not (`cut`), or a JSON file that
no longer parses and so counts as absent.

| `phase[t]` | where the code of turn `t` is |
|---|---|
| `assembling` | `contextReplayAssembler.build`, before `beginTurn` |
| `thinking` | the agent awaits the model |
| `tool` | a tool runs, after `onBeforeToolExecution` |
| `batch` | between two tools of one answer |
| `ending` | the file operations of commit or finalisation |

Messages are abstracted to the number of tool results they hold (`steps`),
checkpoints to the number they cover (`upto`), context patches to a count.
`Complete` and `Interrupt` are the two exits of `runWithResult`; `Finalize` is
`finalizeInterruptedRun`, called by `Interrupt` and by the catch block of a
`Complete` whose commit threw.

`TurnHistory` is what the event store promises: a history that grows by whole
entries, where the entry of a turn is added only if nothing was added since it
began. `ContextStore!HistoryRefinement` maps the store to it.

### AgentTurn, TurnRecord, ToolProtocol

`AgentTurn` is the loop of `Agent.runWithResult`. `pc` is its place: `start` of
a step, `prepare` (compaction and budget), `request` (the model is awaited),
`tools` and, for one call, `hook`, `before` and `running`, then `insert` (the
running-input checkpoint) and `finish`. A Stop comes at any place and is looked
at where the code looks at the abort signal. `retries` and `fails` are the
counters of a step and of the turn; what the model answers is one of `Replies`,
what the budget forces is a choice.

`ToolProtocol` has the messages, abstracted to role, text or not, the prompt or
call they carry and what a compaction stands for, and the functions that cut,
repair and compact them (`message-preparation.ts`, `ContextCompressor.ts`,
`Agent.ts`). `TurnRecord` has what a turn leaves: which messages are committed,
the events they become, and the conversation the next turn reads back: what is
selected is a set of positions (`Only`), and the events are read back by a
recursive function (`ReadBackAll`), so that both can be proved about.

### SubAgents

| variable | code |
|---|---|
| `rec` | `records`: status, run sequence and latest result |
| `queue`, `running` | `queuedTaskIds`, `runningTaskIds` of each parent |
| `exec` | calls of `executeTask` suspended at `runTask`: the run they are of, the checkpoint of the parent they took and whether its history has changed since, whether their task names the parent's open turn |
| `disk` | the registry file, written by `persistState` |
| `log`, `buffer` | the published result of each sub-agent in the parent's history, or in the patches of its open turn |
| `bound` | records whose `parentTurnId` is the parent's open turn |
| `turn` | whether the parent has a pending turn, and whether it was overtaken by a write that did not go through it |
| `waiter` | callers of `result(wait=true)` |

The handlers do not await, so one is a step, except for their closing loops:
`pumping` unrolls `processAllQueues` (`StartNext`, `Execute`, `PumpEnds`), and
`canceling` the loop of `cancelContext` (`CancelNext`); nothing but `Restart`
comes between. A sub-agent has one pending task at most, so queues hold
sub-agents. It may have several executions: `resume` asks only for a pending
task, which `cancel` has taken away, so a sub-agent is resumed while its canceled
run unwinds (`MayAsk`), and `Finish` settles whatever run the record is at, with
`by` saying whose output it was. An execution that ran alone beside no open turn
validates its checkpoint of the parent; a mismatch takes the parent's history back
(`RolledBack`). `SubAgents_late` is what follows for the results.

`SubAgentPromise` is what a delegating parent may rely on: each task is settled
once, and its outcome stands until the sub-agent is asked again. A run is open
there while its task is pending, also when late output has already settled its
record.

### PlanMode and TodoBoard

`PlanMode` has one session with one run at a time (that this is so is what
`SessionRuns` is about). `pending`, `timers` and `shown` are `pendingByRunId`,
the detach timers and what the session's metadata shows of the request;
`waiting` are the tool calls whose promise is not settled. `plan` is the
planning state and the active plan, `todos` the session's bucket, `loop` the
configuration and state of the auto-loop, kept equally by controller and
metadata. The handlers are the chat's preparation with the planning state it
sampled (`Chat`, `ChatRefused`, `Activated`, `PreparationFails`), the tool's
question (`Ask`), answers with the activation of a plan (`Answer`), expiry,
disconnect and reconnect, Stop, the ends of a turn with the decision to
continue, the continuation, the exits of draft and execution, the loop switch,
the edits of user and agent, and a restart. Limits of the loop (rounds, time,
similarity) are a choice. `TodoBoard` has the operations of `TodoStore`.

### Automation

One job: the store's operations name one job and are synchronous. A claim
writes the record and the next due time; `CrashInClaim` is a crash between the
two writes. `phase[i]` is what `executeJob` awaits for run `i`: its agent turn,
or the memory synchronisation and cleanup after it. `flagged` is
`runningJobIds`, `runtimes` the session runtimes executions have booted.
`fired` and `orphans` are history variables.

### Arena

The arenas of one source session, with the branches of each. `status`, `branch`,
`sub`, `winner`, `proposal` and `judge` are `arena.json`; `lock` is `arenaLock`
in the metadata of the source. `RunNext` and `BranchNext` are the tables of
`ArenaStore.ts`. A workspace is a version per file, and a hash is the
workspace. `agent` is the run of a branch: `starting` before the turn agent is
registered (a cancel does not reach it), `working`, `stopping`. `refused` are
runs that the lease of an earlier one rejects; their `catch` follows before the
next handler. Every handler is synchronous and therefore one step; where it
throws after its first writes (`StartFails`, `Close` of an arena that has
ended) these are kept. `ProcessEnds` is a restart, or the handler of unhandled
rejections, which ends the process when a `catch` throws.

### How they meet

`SessionRuns` and `ContextStore` meet in `DPAgent.runWithResult`: `TurnBegins`
of the first is `BeginTurn` of the second, `RunEnds` covers everything from
there to the end of `Complete` or `Interrupt`. They share no variable: the
context lease (`LeaseTaken`) is what makes turns of one context sequential,
which `ContextStore!Start` takes as its guard and `SessionRuns!SingleTurn`
establishes for the sessions of the web server. `AgentTurn` is the inside of
one such turn, its `saved` what `ContextStore` counts as a checkpoint.
`SubAgents!WriteIndex` outside of a turn is the `late` write of `ContextStore`,
and a turn it marks as `overtaken` is one whose commit conflicts there.
`PlanMode` takes over the runs of `SessionRuns` without their contention.

## 3. Runs

Passing runs:

* `SessionRuns_gate`: one model selection, three runs; Stop, saved settings,
  failures, loops, marker repairs, and a Stop that names a run that is over.
  The gate is exclusive, the holder is
  shown, two turns never overlap; no dead run holds the gate and the snapshot is
  never stale (`GateIsBacked`); the tracker implements `SessionGate`; a stopped
  turn is finalised and waiters are answered.
  `CalmSpec` leaves out the actions that this environment disables (switch,
  deletion, and the resumption after a swap), which `RunningInput_all` takes; with
  them TLC finds the same 291,890 states.
* `RunningInput_all`: the composition of runs and queue, two selections, one
  queued prompt; every event but loops, markers and stray Stops. Each queued
  prompt is in exactly one place, and `GateIsBacked` survives even the
  divergences below.
* `RunningInput_turns`: order and releasable insert requests (`QueueIsOrderly`)
  and progress while
  runs complete and loops come and go.
* `ContextStore_crash`: three turns, each possibly on the leftovers of the one
  before, with crashes between and inside file operations and writes from
  outside the turns. The store implements `TurnHistory`; nothing in the history
  is made up; checkpoints are on disk before a tool runs; an artifact is backed
  by events; side effects of a turn that a live process interrupted are
  recorded.
* `AgentTurn_turn`: three steps after an earlier turn with a tool, so that rounds
  of that turn and of the turn itself are compacted, with every kind of failure, retry, recovery and
  reduction, and a Stop anywhere. Every request can be sent whatever the budget
  cuts away (`PayloadIsReplaySafe`); a stopped turn starts no tool; prompts are
  read back as they were asked; what earlier steps did is durable when a tool
  starts; the next turn reads back every side effect, in a conversation it can
  send; every step lowers a rank (`EveryStepNearsTheEnd`).
* `SubAgents_tasks`: three sub-agents of two parents, one with turns, one
  served from the browser, and a restart anywhere; canceled runs unwind while
  their sub-agents are resumed. The manager implements `SubAgentPromise`; no task
  is stranded; nobody waits for a run that is over; what a run published of
  itself is only replaced by later runs; every task is settled if the agent turns
  return.
* `PlanMode_session`: two turns with two requests to the user, a browser that
  comes and goes, restarts, and todo items edited by everybody. Waiting turns
  can be answered, and grace periods run while nobody is connected; a plan that waits for its confirmation
  keeps the loop off; items follow their plan; execution ends with its items;
  a detached request is settled.
* `Automation_job`: late and lost ticks, manual runs, edits, a deletion and a
  restart between or inside writes. Recorded executions do not overlap; a
  trigger is executed once; flags, runtimes and records follow the executions.

* `Arena_life`: one arena with two contestants, before or after another that
  stays a draft or is closed; every handler at any time, late submissions and
  rejections, edits of both workspaces, ends of the process. The lock follows
  the active arena although unlocking does not look at whose lock it is; judged
  work is final whatever a late run still does; only the reviewed proposal of
  the selected winner changes the source, and only the source it was made for.

Runs that find a disagreement between the code and its documents (the finding
in `PROJECT.json` quotes the document):

* `SessionRuns_switch`: with a changed selection two runs pass the gate.
* `PlanMode_draft`: an answer to a clarifying question clears the confirmation,
  and the drafting turn then schedules a continuation that has every tool.
* `SubAgents_late`: one sub-agent is asked for, started, canceled and resumed
  before its agent has returned; the output of the canceled run is then recorded
  as the result of the new one, even before that has started.

### Known disagreements without a run

The models show more. The environments and guards of the passing runs leave
them out, or their properties excuse them by name:

* A Stop before the turn agent is registered marks the run but aborts nothing
  (`dpagent-runtime.ts:1004`); `plan-mode-lifecycle.md:58` says it stops the run.
* A turn on a runtime whose cleanup is awaited is out of Stop's reach
  (`WebServer.ts:2109`).
* A next-turn timer left from an earlier turn overtakes a scheduled
  continuation (`WebServer.ts:2731`), and after a Stop nothing starts the prompts
  still queued (`WebServer.ts:2450`). A stopped turn still takes an inserted
  prompt at its checkpoint; an insert request bound to a run whose preparation
  fails is never released; one released after the dirty cleanup can be overtaken.
* Settings saved during a run stop its loop after the continuation was planned;
  a changed selection stops the loop whose continuation picks it up.
* A write from outside makes the commit of a turn conflict, and then the commit
  of its interruption too, so its side effects are recorded nowhere
  (`dpagent-runtime.ts:853`); the pending turn stays in memory. After a torn line
  in the events file every commit of the context conflicts. The turn after a
  crash overwrites the draft whose checkpoints were kept (`ContextManager.ts:177`).
  A crash during the write of the ledger loses earlier side effects.
* `messagesToEvents` replaces the first user message by the raw prompt; after a
  compaction within the turn that is the inserted one (`ContextManager.ts:1095`).
  Compaction and summary notes of a completed turn are dropped when they are
  behind its first checkpoint id; a deterministic trim after max_tokens may
  leave a result without its call; a turn without tools replays only its
  compaction, prompts and last answer; the marker of
  `context-replay-assembly.ts:45` matches no prompt the program writes.
  `PromptsAreKept`, `EarlierStepsAreDurable`, `WorkIsAccounted` and
  `ReplayIsSafe` name in `reduced` the reductions they hold for.
* A compaction within a turn has a checkpoint id (`LlmInputPreparator.ts:510`), so
  the committed messages start there (`dpagent-turn-messages.ts:27`), and what
  it kept of earlier turns is committed again. An answer kept so stands before
  the prompt; `toConversationMessagesWithTimestamps` attaches the next call
  without text to it, past the prompt (`ContextProjector.ts:345`, `:411`), and the
  next turn reads back a call whose result is two messages later. The repair
  (`message-preparation.ts`) turns both into notes. `ReplayIsSafe` excuses this
  (`AnswersBefore`); without the excuse TLC refutes it.
* Output of a canceled sub-agent that arrives in the next turn of its parent is
  written past the open turn, whose commit then conflicts
  (`SubAgentManager.ts:1184`).
* The validation of a checkpoint (REQ-0005, `SubAgentManager.ts:675`) truncates the
  parent's history, and takes back results that siblings published and turns
  that the parent committed while the agent ran. `PublishedResultsStay` excuses this
  (`TakesBack`), and nothing else. A result that was taken over from an older
  run (`SubAgents_late`) is replaced when the run's own output comes, so the
  property speaks of results that a run published of itself.
* A claim made while the flag of the job is set is executed by nobody; its
  record says running until retention evicts it (`AutomationScheduler.ts:94`).
  Jobs with a session id are not run in that session; a one-shot job created
  over HTTP fires again every tick.
* When `setTodoPlan` throws, the request is forgotten but its call never
  answered (`pending-plan-input-coordinator.ts:211`, `lost`). The exit of a draft
  hides the request its turn still waits for, and a later approval is reported
  although nothing is activated (`web-server-session-routes.ts:517`, `left`). A
  refused chat turns the session to drafting, and a run prepared before that
  clears the confirmation (`web-server-chat-preparation.ts:170`).
* Applying a winner reverts edits of the source that were made between the
  start of the arena and the proposal, since both hashes are taken with the
  proposal (`ArenaCoordinator.ts:296`); `src/doc/design/features/arena.md:217`
  says apply must stop "if the source workspace changed after Arena start". A
  resume while the cancelled run of a branch unwinds is rejected by its lease
  and fails the branch. A cancel that comes before the turn agent is registered
  is lost, and the run works on beside the pause. A reopened branch is never run
  again, and blocks the judge; a selected winner may be reopened and still be
  applied. A rejected run whose branch can no longer fail ends the process
  (`ArenaCoordinator.ts:645`, `web/server/index.ts:33`). Closing an applied arena
  cancels its branches and is then refused. A chat that waited for a canceled
  run (`web-server-chat-preparation.ts:234`) or a scheduled continuation starts
  after the source was locked. A start that fails leaves an arena that can
  only be paused and resumed, or closed.

### Bounds

Three runs are a run, one that contends with it, and one started after either
ends; a continuation is one of them. Two keys are a key and another one. Two
queued prompts are enough for order and for one to be inserted while the other
waits. `MaxItems` bounds `sent`; nothing else needs a bound, because a run id
is used once. Deadlock is not checked: when all run ids are used the system
rests. `RunningInput_all` has one prompt, because a lost or doubled one does not
need another; `EachItemOnce` is proved for any number.

Three turns of `ContextStore` are one that is interrupted, one that takes over
its draft and dies, and one that finds the leftovers of both. Two tool steps
over all turns are a batch of two, a batch interrupted after its first, or one
step in each of two turns whose ledgers must be merged. One patch, and one write
from outside, each of which can come at any time. The ledger's limit of 100
entries is out of reach.

The history of `AgentTurn` is the shortest of which a compaction keeps an answer
and replaces the rest; two steps with tools are what makes a round of the turn
itself old enough to be compacted, and a third step answers after it. The responses each step explores
(`ThreeSteps`) put a batch of two calls, or a call that was cut off, behind a
round of the turn, and recoveries and reminders before it; all responses in all
steps are out of reach. Counters are small (one retry, two overflow errors, one
reminder), which is enough for each to run out. `Payload` is checked for every
length the budget could ask for.

`SubAgents_tasks` has three runs over three sub-agents: one in a slot, one in
the queue behind it, one of the other parent under the global limit of two; or
two runs of the same sub-agent. One waiter is enough, since waiters do not
interact; one crash may come between any two handlers, or inside the pump.
`SubAgents_late` needs one sub-agent and its two runs.

`PlanMode_session` has two runs and two requests: a request of an older run, or
two of one run, where the second overwrites the first. Two slots of the todo
bucket hold an item of the plan and one of somebody else. One socket that comes
and goes stands for several, because a detached request may be answered from
any. Restarts are not bounded.

`Automation_job` has four runs of a job that is due every other of eight ticks,
a retention of two, so that the record of a run in progress may be evicted, one
restart and one edit.

`Arena_life` lets one arena leave its draft (`MaxStarts`); the other, before or
after it, is what a late unlock could harm. Two branches are the winner and
another one. `MaxEdits` = 2 versions are one edit of a branch and one of the
source or of the branch after its review, `MaxSubmissions` = 2 a submission before
and one after a reopening. One file is enough, because a proposal takes all of
them. Restarts are not bounded.

### Fairness

`Fairness` of `SessionRuns` assumes what happens by itself: settled promises
resume, timers fire, `initialize()` and `cleanup()` return, and an agent turn
whose abort signal is set ends. It does not assume that an agent turn that
nobody aborts ends, since it may wait for its user. `QFairness` of
`RunningInput` does assume it (`RunEnds`), because the queue is about what
follows the end of a turn; it assumes nothing of users and sockets.
`SubFairness` assumes that a handler that has begun runs to its end (`Pump`,
`CancelNext`), and nothing of agents, parents, callers or the browser. That an
agent turn returns is not assumed: its timeout only warns, and the task goes on
until it ends or is canceled (`SubAgentTurnRunner.ts:204`, `:274-290`;
`SubAgentManager.ts:713`). It is the hypothesis of the property: `RunsSettle` says
that every accepted task is settled if the agent turns return (`TurnsReturn`), so
that what it shows is of the manager: no queued task is forgotten and no slot is
lost on the way. Whether they return is not shown.
`PlanFairSpec` assumes that armed timers fire. `ContextStore`, `Automation`,
`Arena` and `AgentTurn` state safety; `EveryStepNearsTheEnd` is the ranking from which the
end of a turn follows if its steps are taken.

## 4. Theorems

Each proof module shows an inductive invariant, one lemma per action, for any
values of the constants. What is assumed beyond the assumptions of the modules
is in the theorem.

`SessionRunsProofs`, for any set of runs and keys and any environment unless
stated:

* `TypeCorrect`, `GateBacked`: by `AliveInv`: types, what a run's kind implies
  for its phase (a chat is never `scheduled`, only continuations wait for dirty
  cleanups), that tracked runs are live, and that the snapshot is tracked.
* `OneActiveRun`, `ShownWhileActive`, `OneTurn`, assuming no switched selection
  and no deletion (`Calm`): by `GateInv`, which adds to `AliveInv` that the
  runtime's key is the selection (so nothing is swapped) and that a run which
  is inside an agent holds the gate.
* `MarksDieWithRuns`: canceling marks die with their runs (`CancelingIsTracked`),
  assuming no stray Stop, which leaves a mark nobody takes away.
* `ImplementsGate`, assuming `Calm`: each step takes, leaves or passes by the
  gate (`RunStepKinds`), and each of the three maps to a step of the lock or
  to a stutter.

`SessionRuns_switch` shows that `Calm` is needed.

`RunningInputProofs`, for any runs, keys and numbers of prompts and every
environment:

* `QueueKeepsTheRuns`: a step of the composition is a step of the runs, so what
  is proved of them holds here, `GateBackedWithQueue` for one.
* `QTypeCorrect`, `ItemsOnce`: by `QInv`, which adds to `AliveInv` that the queue
  has no entry twice, that a held prompt has one holder, and that this holder
  has begun (`HeldApart`); a run id that was used never begins again
  (`NeverIdleAgain`). One lemma per operation of the queue (`ItemAppended`,
  `ItemPutFirst`, `ItemRemoved`) says which prompt changes its place.
* `TurnsInOrder`: `QueueIsOrderly` for any number of keys, assuming
  `Undisturbed`: no page reload, no preparation that fails, no deletion.
  Switched models, cancels, stray Stops, the loop, markers, offline sockets and
  invalid prompts are allowed. By `OrderInv`: entries of a queue ascend in the
  order of arrival; what is held by a run, begun as a turn or inserted is older
  than every normal entry still waiting; and a run that holds a prompt is
  underway, in a state of `Steady`. The order invariant was checked by TLC before
  it was proved. TLC refutes `QueueIsOrderly` with each of the three: after
  `reload` a run that has ended and waits for the dirty cleanup keeps its insert
  while the timer starts the next turn, a failed preparation puts its prompt
  back behind an insert, and a deletion drops what was held.

`ContextStoreProofs`, for any turns, numbers of steps, patches and writes, and
any environment (so with crashes, torn files and writes from outside):

* `TypeCorrect`, `NoFabrication`, `EventsBeforeArtifact`: by the inductive
  invariant `Inv`. Besides the types it says that one turn is at work at a time
  (`OneTurn`), that a turn began no later than the history is long
  (`Baseline`), that a running tool has room for its result (`ToolBound`, from
  the bound of the instance), that entries and checkpoints claim no more than
  their turns did (`ClaimsOK`: in the history, in the checkpoint file, and
  queued), and what the file operations still to be done look like
  (`ScriptOK`): at most one of them appends, only flushes of checkpoints come
  before it, its entry is that of the turn that is ending and still begins
  where the history ends, and an artifact of a committed checkpoint has its
  events before it. The script is why none of the three is inductive by itself:
  what a crash leaves behind is a prefix of it. `Shape` describes the scripts
  that the exits of a turn write; each handler is shown to write one of that
  shape, and a disk step to keep the invariant whatever the script.
* `ImplementsHistory`: the step that appends, done or cut short by a crash,
  maps to `Commit` of the turn that is ending or to `Write`, the other steps to
  the begin or end of a turn or to a stutter. That nothing was added since
  the turn began follows from `NoConflict`: the count that `appendEvents`
  compares is at least the length of the history.
* `DurableBeforeEveryTool` (`DurableBeforeTools`): by `DurableInv`, which says of
  the draft in memory, the file operations to be done and the two files that
  what a tool is about to act on is already in the file, for each step of the
  turn and whatever the flush that is cut short. `FlushIsNeverRefused`: the file
  the flush of a turn finds is never that of another turn, so the refusal in
  `flushCheckpoint` is unreachable.
* `EffectsAreAccounted` (`SideEffectsRecorded`): by `EffectsInv`, which follows a
  tool that has run from the draft through the checkpoint to the history or the
  recovery entry; the crash may come between any two operations.

The two rest on `NoneAssumption` of `ContextStore`: `null` is not a record.

`SubAgentsProofs`, for any sub-agents, parents, callers, limits and restarts, and
however many canceled executions of a sub-agent still unwind: by `SubInv`. Its
parts: a pending task is either once in the queue of its parent or in a slot
there, never both, and a record that is open says which; a record may be settled
by late output while its task is pending, but one that is settled by its own run
has no task (`Placed`, `RecInv`); an execution is
of a run that has begun, each run has one at most, and the one of a task in a
slot was not told to stop (`ExecInv`, `Begun`, `Unique`); the registry
file is the state of the manager (`DiskInv`), which is why a restart finds every
pending task; between handlers each slot has an execution of its latest run and
nothing could be started (`ServedInv`); callers wait for open runs
(`CallerInv`). Each handler is described once by what it does to records and
places (the lemmas named `...Moves`), and once by what the parts make of that
(`...Step`). The lemmas on queues say what append, head and filter do to a
sequence without repetition.

* `NothingStrands`, `NobodySleeps`, `TypeCorrect` follow from it.
* `KeepsPromise`: an ask maps to `Ask`, the end of a pending task to `Settle`,
  output that finds its task gone to a stutter, a restart to `Die`.
* `PublishedStay` (`PublishedResultsStay`): every place that holds a result of a
  sub-agent outside of its record (the history, the patches of an open turn, the
  checkpoints of executions) holds one of a run that was asked for, and if it is
  the own result of the latest run, it is that of the record (`NoteOf`,
  `PublishedInv`, `SavedInv`). A turn that can be committed has no older patch than
  the history (`TurnNotes`). So a commit of the parent's turn or a restart only ever
  writes the same result or a later one, and a checkpoint brings an older one back
  only in `TakesBack`.

`SubAgents_late` shows why `ResultsAreOwn` is not among them.

`PlanModeProofs`, for any sockets, runs, requests and todo items:

* `ConfirmationFirst`: the flags of the loop only.
* `Reachable`: one invariant over the pending request, its timer,
  what is shown and the calls that wait.
* `OnePlan`: unfinished items, the active plan, and the state they imply,
  together with what a pending approval may still activate.
* `ExitEarned`: an action property from the same invariant.
* `TypeCorrect`.

`AutomationProofs`, for any schedule, retention, threshold and bounds:

* `TypeCorrect`, `ApartByRecord`, `OutcomesAreRecorded`: every execution in its
  turn has its record saying so, or the record is gone; claims come after no
  running record.
* `CleanedUp`: the flag with the one execution of the scheduler.
* `TriggersOnce`: the next due time is later than every trigger that was
  executed, and a claim that was torn left the execution undone.

`ArenaProofs`, for any arenas, branches, files and bounds: by `ArenaInv`. The
tables of transitions come first (`RunTable`, `BranchTable`): nothing leads out of
an arena that has ended, nor from the judge back to work.

* `LockCorrect`: an arena is created only while nothing is active, and only an
  active one can become closed or applied, so the unlock is of its own lock.
* `JudgedStays`: branches of an arena whose judge was asked are ready and the
  arena is past the states in which one may be reopened (`JudgedIsReady`); from
  a ready status nothing but a reopening leads back to work.
* `AppliedIsReviewed`: branches that can win have submitted
  (`EligibleSubmitted`), and after the proposal the winner stays the proposal's
  (`ProposalIsWinners`).
* `TypeCorrect`.

`AgentTurnProofs`, for any calls, budgets and answers and any history a turn can
start with (`AgentTurnAssumption`: `ContextReplayAssembler` leaves no checkpoint
ids, no compactions and no internal messages but the notes of the sanitiser, whose
result is replay-safe), so for conversations of any length:

* The induction theorems of the library take an operator as a parameter, so
  what must be shown of every length is shown by the smallest counterexample
  (`Least`, `Upto`, `Latest`): a set of naturals that is not empty has a least
  element, and the one below it is no counterexample. On this rest `Chain` and
  `FlattenLayout`, which say where `FlattenSeq` puts each message of each part
  (`Layout`), and the lemmas on bundles (an assistant message with calls and
  the results that follow it) and on who owns a result.
* `SanitizedIsReplaySafe`: what the sanitiser returns is replay-safe, for
  every sequence of messages.
* `EveryRequestIsAcceptable` (`PayloadIsReplaySafe`): by `ConversationInv`, since
  each reduction of the payload ends in the sanitiser.
* `NoToolAfterStop` (`StoppedTurnsDoNotAct`) and `TurnsEnd`
  (`EveryStepNearsTheEnd`: the rank is a natural number and every step lowers
  it): by `CountersInv`, which bounds the counters of retries, nudges, recoveries
  and reductions by their limits.
* `StepsAreDurable` (`EarlierStepsAreDurable`) and `WorkIsRecorded`
  (`WorkIsAccounted`): by `RecordInv`, which TLC checked on the run first. While
  no response is processed, every bundle of `msgs` is whole (`Sound`), the
  turn has begun (`Begun`: a message has a checkpoint id), and each call that was
  started is told by a message of the turn and by the checkpoint (`SettledIn`). While a
  response is processed that holds of what precedes it, and the results so far are
  those of its first calls (`OpenedAt`). A compaction stays first
  (`Shaped`) and stands for what it replaces (`CompactedHolds`); a checkpoint cuts
  no bundle that is whole (`KeptIsSafe`, `CheckpointKnows`). The last lemmas say that
  reading the events back keeps every result and compaction
  (`ReadBackKeeps`, `ConversationKnows`), and that what the checkpoint lacks is in the
  ledger (`LedgerHolds`).
* `PromptsStay` (`PromptsAreKept`): by `PromptInv`, which TLC checked on the run
  first. In a turn that was not reduced the messages are the history, the typed
  prompt and what the turn added, among which the inserted prompt is the only
  user message that is not internal (`TurnOf`). Reading back keeps the prompts message
  by message (`ReadBackPrompts`, `ConversationPrompts`), and the replacement of
  the first user message finds the typed one.

* `NextTurnCanSend` (`ReplayIsSafe`): by `OrderInv`, which TLC checked on the run
  first. Replay-safe messages are not enough: `ReadBack` attaches a call without
  text to the last assistant before it, past what a user said in between, which is
  safe only if a tool has answered that assistant before the user speaks (`Orderly`,
  `ReadBackSafe`). So the conversation keeps its order (`Tidy`: what a user says
  comes after such an answer, or precedes the typed prompt), what is
  checkpointed can be read back (`Fit`), and a response whose calls are processed
  has its results up to the next call (`OpenAt`). A
  compaction may leave an answer of an earlier turn before the prompt; where it
  does not (`~AnswersBefore`), what is `Fit` is `Orderly` (`FitIsOrderly`). `Heard` says
  the same of where results come from.

Only model-checked: liveness (`AbortedRunsEnd`, `WaitersAnswered`,
`QueueIsServed`, `RunsSettle`, `DetachedIsSettled`), which is outside what the
prover does.

## 5. Not modelled

* `SessionRuns`: the contents of runs and of the loop; workspace runs that use
  the root runtime; the step numbers of the snapshot; the boots of two runs of
  one session that install their runtimes at once; an error after the turn in
  `executePreparedChatRun`, which requeues a served item.
* `ContextStore`: version jumps and the truncation of the history by
  `ContextIntegrityHelper`, the transaction interface of
  `ContextTransactionCoordinator`, forks and deletion of a session during a
  run, and the errors after a successful `commitTurn`, whose catch block fails
  with "Unknown pending turn" and hides them. The replay that a turn starts with
  is read before its baseline is counted; a write in between is neither in the
  replay nor a conflict.
* `AgentTurn`: contents of messages and the estimate of their size (what the
  budget asks for is a choice), hooks that change a call, parallel model
  endpoints, continuations by completion markers.
* `SubAgents`: the catalogue, prompts and contexts of the sub-agents' own runs
  (`SubAgentTurnRunner`), heartbeats and warnings. A checkpoint is the results its
  parent's history held: when the validation of another execution has cut the
  history before it, the code keeps what came after, and the model restores what
  was saved. An open turn that was overtaken stays so, though a
  truncation may bring its count back.
* `PlanMode`: continuations by completion markers, which the configuration turns
  off; the todo buckets other than the session's; the contention of runs, which
  is `SessionRuns`; a plan approved in a turn that is then canceled leaves a
  record nothing commits.
* `Automation`: calendars, one-shot schedules, system tasks, templates, reports.
* `Arena`: rankings and texts, the histories of the forks, the copying of single
  files, an application that fails between two files, a crash inside a handler.
* Everything `PROJECT.json` lists as `not_modelled`, with its reason: text,
  network, child processes and user interfaces make most of the lines of the
  repository.

## 6. Plan

Done: runs and gate, running input, context store, agent turn, sub-agents, plan
mode with the loop, automation, arenas. What is left, in this order:

| Module | Of | Interesting steps | Properties |
|---|---|---|---|
| `McpPool` | `SharedMcpRuntimePool.ts` | acquire while starting, failing start, release while starting, dispose | a connection is closed when, and only when, its last lease ends |

The pool counts in synchronous code and would be a counted resource. Recursion
stays out of modules that are proved about.
