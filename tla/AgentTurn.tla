----------------------------- MODULE AgentTurn ------------------------------
(***************************************************************************)
(* One turn of the agent: the loop of Agent.runWithResult with its         *)
(* requests, retries and recoveries, the tools of a response, the replay   *)
(* checkpoints, and what DPAgent.runWithResult commits when the loop ends. *)
(* A Stop may come at every await.                                         *)
(***************************************************************************)
EXTENDS TurnRecord

CONSTANTS
    History,         \* messages of earlier turns
    Replies,         \* bound: for each step, shapes of responses: finish, text, promise
                     \* and number of calls
    MaxSteps,        \* maxSteps
    MaxTransport,    \* DEFAULT_TRANSPORT_RETRY_MAX_ATTEMPTS
    MaxOverflow,     \* contextOverflowMaxErrorsBeforeTrim
    MaxProgress,     \* progressOnlyMaxAttempts
    MaxRecovery,     \* maxTokensRecoveryMaxAttempts
    KeepRounds,      \* contextPrecompressKeepLlmRounds
    KeepLatest,      \* keepLatestCount of every trim
    CompactTail,     \* tail window of compactCompletedToolHistory
    KeepRecent,      \* keepRecentMessages of the summary tool
    RecoveryTail,    \* keepTail of compressForMaxTokensRecovery
    Reductions,      \* bound: ways of reducing the conversation that are explored
    None

ReductionKinds == {"compacted", "trimmed", "recovered", "summarised"}

\* What extractReplayMessages and the sanitiser leave of earlier turns: no ids, no
\* compactions, and no internal messages but the sanitiser's notes.
Replayed == {m \in Messages : /\ ~m.ckpt /\ m.mark # "summary" /\ m.covers = {}
                              /\ m.mark = "internal" => m.role = "user"}

ASSUME AgentTurnAssumption ==
    /\ {MaxSteps, KeepRounds} \subseteq Nat \ {0}
    /\ {MaxTransport, MaxOverflow, MaxProgress, MaxRecovery, KeepLatest, CompactTail, RecoveryTail,
      KeepRecent}
         \subseteq Nat
    /\ \A n \in 0 .. MaxSteps - 1 : \A r \in Replies[n] :
          /\ r.finish \in {"end_turn", "tool_use", "max_tokens"}
          /\ {r.text, r.promise} \subseteq BOOLEAN
          /\ r.calls \in Nat
    /\ History \in Seq(Replayed) /\ ReplaySafe(History)
    /\ Reductions \subseteq ReductionKinds

\* Who a prompt or a call is.
TypedPrompt == 2
InsertedPrompt == 3
FirstCall == 4

VARIABLES
    scope,     \* whether the context is a session
    msgs,      \* messageStore.messages without the system prompt
    pc,        \* where the loop is
    step,
    reply,     \* the response that is processed
    todo,      \* its calls that are not processed yet
    issued,    \* calls the model has made
    ran,       \* calls whose tool has been started
    stopped,   \* abortController.signal.aborted
    retries,   \* of the step: transport and overflow
    fails,     \* of the turn: proto, progress and recovery
    closing,   \* forcedTurnCompletion
    pending,   \* pendingSummaryApplyRequest
    waiting,   \* a running input waits to be inserted
    saved,     \* messages of the last replay checkpoint
    reduced,   \* ways in which the conversation was reduced in this turn
    reason     \* finish reason, or none

loop == <<step, reply, todo, issued, retries, fails, closing, pending>>
vars == <<scope, msgs, pc, step, reply, todo, issued, ran, stopped, retries, fails, closing,
          pending, waiting, saved, reduced, reason>>

NoRetries == [transport |-> 0, overflow |-> 0, calm |-> FALSE]

AgentInit ==
    /\ scope \in {"session", "other"}
    /\ msgs = Append(History, UserPrompt(TypedPrompt))
    /\ pc = "start"
    /\ step = 0
    /\ reply = None
    /\ todo = <<>>
    /\ issued = 0
    /\ ran = {}
    /\ stopped = FALSE
    /\ retries = NoRetries
    /\ fails = [proto |-> 0, progress |-> 0, recovery |-> 0]
    /\ closing = FALSE
    /\ pending = None
    /\ waiting = TRUE
    /\ saved = <<>>
    /\ reduced = {}
    /\ reason = "none"

-----------------------------------------------------------------------------
(* Building blocks *)

\* The messages of this turn; the prompt itself was counted into the baseline once.
Turn(ms) == Collected(ms, Len(History))

\* onReplayCheckpoint and saveReplayCheckpoint of messages ms: the messages of the
\* turn up to the first calls that wait for their results.
Checkpoint(ms) == IF Progressed(Turn(ms)) THEN SafePrefix(Turn(ms)) ELSE saved

\* The loop returns or throws.
End(why) ==
    /\ pc' = "ended"
    /\ reason' = why

Reduces(how) == how \in Reductions /\ reduced' = reduced \cup {how}

-----------------------------------------------------------------------------
(* Requests *)

\* Top of the loop: hook onTurnStart, then the look at the abort signal.
StartStep ==
    /\ pc = "start"
    /\ \/ step >= MaxSteps /\ End("max_steps")
       \/ step < MaxSteps /\ End("hook_blocked")
       \/ step < MaxSteps /\ stopped /\ End("cancelled")
       \/ step < MaxSteps /\ ~stopped /\ pc' = "prepare" /\ UNCHANGED reason
    /\ retries' = NoRetries
    /\ UNCHANGED <<scope, msgs, step, reply, todo, issued, ran, stopped, fails, closing, pending,
                   waiting, saved, reduced>>

\* prepareLlmInput, which compresses on the first attempt of a step only, and the
\* hook onInputToLLM.
Prepare ==
    /\ pc = "prepare"
    /\ \/ UNCHANGED <<msgs, reduced>>
       \/ /\ ~retries.calm
          /\ CanCompact(msgs, KeepRounds)
          /\ msgs' = Compacted(msgs, KeepRounds)
          /\ Reduces("compacted")
    /\ \/ pc' = "request" /\ UNCHANGED reason
       \/ End("hook_blocked")
    /\ UNCHANGED <<scope, loop, ran, stopped, waiting, saved>>

\* A response is complete.  One without tool calls is checkpointed at once.
Answer ==
    /\ pc = "request"
    /\ \E r \in Replies[step] :
        LET calls == [k \in 1 .. r.calls |-> FirstCall + issued + k - 1]
        IN  /\ reply' = r
            /\ todo' = calls
            /\ issued' = issued + r.calls
            /\ msgs' = Append(msgs, Assistant(r.text, calls))
            /\ saved' = IF calls = <<>> THEN Checkpoint(msgs') ELSE saved
            /\ fails' = [fails EXCEPT !.proto = 0]
            /\ pc' = IF calls = <<>> THEN "finish" ELSE "tools"
            /\ UNCHANGED <<scope, step, ran, stopped, retries, closing, pending, waiting, reduced, reason>>

\* The request fails and the signal is aborted.
RequestCancelled ==
    /\ pc = "request"
    /\ stopped
    /\ End("cancelled")
    /\ UNCHANGED <<scope, msgs, loop, ran, stopped, waiting, saved, reduced>>

\* The provider does not know a tool id: handleToolCallProtocolRecovery.
ToolIdUnknown ==
    /\ pc = "request"
    /\ ~stopped
    /\ msgs' = Append(msgs, InternalUser)
    /\ fails' = [fails EXCEPT !.proto = @ + 1]
    /\ IF fails.proto + 1 >= 2
       THEN End("error") /\ UNCHANGED step
       ELSE pc' = "start" /\ step' = step + 1 /\ UNCHANGED reason
    /\ UNCHANGED <<scope, reply, todo, issued, ran, stopped, retries, closing, pending, waiting,
                   saved, reduced>>

\* Mutant: a retry is not counted.
TransportRetryUncounted ==
    /\ pc = "request"
    /\ ~stopped
    /\ retries.transport < MaxTransport
    /\ retries' = [retries EXCEPT !.calm = TRUE]
    /\ pc' = "prepare"
    /\ UNCHANGED <<scope, msgs, step, reply, todo, issued, ran, stopped, fails, closing, pending,
                   waiting, saved, reduced, reason>>
\* The transport fails before anything of the response was seen.
TransportRetry ==
    /\ pc = "request"
    /\ ~stopped
    /\ retries.transport < MaxTransport
    /\ retries' = [retries EXCEPT !.transport = @ + 1, !.calm = TRUE]
    /\ pc' = "prepare"
    /\ UNCHANGED <<scope, msgs, step, reply, todo, issued, ran, stopped, fails, closing, pending,
                   waiting, saved, reduced, reason>>

\* Any other failure ends the turn; the text that was streamed is kept if it was the
\* transport.
RequestFails ==
    /\ pc = "request"
    /\ ~stopped
    /\ \/ UNCHANGED <<msgs, saved>>
       \/ /\ msgs' = Append(msgs, Assistant(TRUE, <<>>))
          /\ saved' = Checkpoint(msgs')
    /\ End("error")
    /\ UNCHANGED <<scope, loop, ran, stopped, waiting, reduced>>

\* handleContextOverflow: compress, then trim once, then give up.
Overflow ==
    /\ pc = "request"
    /\ ~stopped
    /\ \/ /\ retries.overflow + 1 < MaxOverflow
          /\ \/ UNCHANGED <<msgs, reduced>>
             \/ /\ CanCompact(msgs, 1)
                /\ msgs' = Compacted(msgs, 1)
                /\ Reduces("compacted")
          /\ retries' = [retries EXCEPT !.overflow = @ + 1, !.calm = TRUE]
          /\ pc' = "prepare" /\ UNCHANGED reason
       \/ /\ retries.overflow + 1 = MaxOverflow
          /\ \E n \in {k \in DOMAIN msgs : k >= KeepLatest} \cup {Len(msgs)} :
                /\ msgs' = Sanitized(Trimmed(msgs, n))
                /\ IF n < Len(msgs) THEN Reduces("trimmed") ELSE UNCHANGED reduced
          /\ retries' = [retries EXCEPT !.overflow = @ + 1, !.calm = TRUE]
          /\ pc' = "prepare" /\ UNCHANGED reason
       \/ /\ retries.overflow + 1 > MaxOverflow
          /\ End("error")
          /\ UNCHANGED <<msgs, reduced, retries>>
    /\ UNCHANGED <<scope, step, reply, todo, issued, ran, stopped, fails, closing, pending, waiting, saved>>

-----------------------------------------------------------------------------
(* executeAgentToolCallsForTurn *)

\* The next call, or the end of a stopped turn.
NextTool ==
    /\ pc = "tools"
    /\ todo # <<>>
    /\ IF stopped THEN End("cancelled") ELSE pc' = "hook" /\ UNCHANGED reason
    /\ UNCHANGED <<scope, msgs, loop, ran, stopped, waiting, saved, reduced>>

\* The hook onBeforeToolCall refuses the call: an error is its result.
ToolBlocked ==
    /\ pc = "hook"
    /\ msgs' = Append(msgs, ToolResult(Head(todo)))
    /\ todo' = Tail(todo)
    /\ saved' = Checkpoint(msgs')
    /\ pc' = "tools"
    /\ UNCHANGED <<scope, step, reply, issued, ran, stopped, retries, fails, closing, pending,
                   waiting, reduced, reason>>

\* The hook lets it pass, and onBeforeToolExecution makes the checkpoint durable.
ToolAllowed ==
    /\ pc = "hook"
    /\ pc' = "before"
    /\ UNCHANGED <<scope, msgs, loop, ran, stopped, waiting, saved, reduced, reason>>

\* Mutant: the signal is not looked at again.
ToolStartsUnlooked ==
    /\ pc = "before"
    /\ pc' = "running" /\ ran' = ran \cup {Head(todo)} /\ UNCHANGED reason
    /\ UNCHANGED <<scope, msgs, loop, stopped, waiting, saved, reduced>>
\* The second look at the signal, and the start of the tool.
ToolStarts ==
    /\ pc = "before"
    /\ IF stopped
       THEN End("cancelled") /\ UNCHANGED ran
       ELSE pc' = "running" /\ ran' = ran \cup {Head(todo)} /\ UNCHANGED reason
    /\ UNCHANGED <<scope, msgs, loop, stopped, waiting, saved, reduced>>

\* The result, whatever it is; finalize_plan may close the turn, and the summary
\* tool may ask for a reduction to one of the checkpointed messages.
ToolEnds ==
    /\ pc = "running"
    /\ msgs' = Append(msgs, ToolResult(Head(todo)))
    /\ todo' = Tail(todo)
    /\ \/ closing' = TRUE /\ UNCHANGED pending
       \/ UNCHANGED <<closing, pending>>
       \/ /\ "summarised" \in Reductions
          /\ pending' \in {i \in DOMAIN msgs : msgs[i].ckpt}
          /\ UNCHANGED closing
    /\ pc' = "tools"
    /\ UNCHANGED <<scope, step, reply, issued, ran, stopped, retries, fails, waiting, saved, reduced, reason>>

\* After the last call: the summary, then the checkpoint of the step.
\* Mutant: no checkpoint.
ToolsEndUnsaved ==
    /\ pc = "tools"
    /\ todo = <<>>
    /\ msgs' = IF pending = None THEN msgs ELSE SummaryApplied(msgs, pending, KeepRecent)
    /\ IF pending = None THEN UNCHANGED reduced ELSE Reduces("summarised")
    /\ pending' = None
    /\ pc' = IF closing THEN "finish" ELSE "insert"
    /\ UNCHANGED <<scope, step, reply, todo, issued, ran, stopped, retries, fails, closing, waiting, saved, reason>>
ToolsEnd ==
    /\ pc = "tools"
    /\ todo = <<>>
    /\ msgs' = IF pending = None THEN msgs ELSE SummaryApplied(msgs, pending, KeepRecent)
    /\ IF pending = None THEN UNCHANGED reduced ELSE Reduces("summarised")
    /\ pending' = None
    /\ saved' = Checkpoint(msgs')
    /\ pc' = IF closing THEN "finish" ELSE "insert"
    /\ UNCHANGED <<scope, step, reply, todo, issued, ran, stopped, retries, fails, closing, waiting, reason>>

\* consumeRunningInputAtCheckpoint, also when the turn was stopped.
Insert ==
    /\ pc = "insert"
    /\ \/ UNCHANGED <<msgs, saved, waiting>>
       \/ /\ waiting
          /\ waiting' = FALSE
          /\ msgs' = Append(msgs, UserPrompt(InsertedPrompt))
          /\ saved' = Checkpoint(msgs')
    /\ pc' = "finish"
    /\ UNCHANGED <<scope, loop, ran, stopped, reduced, reason>>

-----------------------------------------------------------------------------
(* The end of a step *)

\* handleMaxTokensRecovery
RecoverFromMaxTokens ==
    /\ pc = "finish"
    /\ ~closing
    /\ reply.finish = "max_tokens"
    /\ \E ms \in RecoveredHistories(ToolHistoryCompacted(msgs, CompactTail), RecoveryTail) :
          /\ IF ms = msgs THEN UNCHANGED reduced ELSE Reduces("recovered")
          /\ fails' = [fails EXCEPT !.progress = 0, !.recovery = @ + 1]
          /\ IF fails.recovery + 1 <= MaxRecovery
             THEN /\ msgs' = Append(ms, InternalUser)
                  /\ pc' = "start"
                  /\ step' = step + 1
                  /\ UNCHANGED reason
             ELSE /\ msgs' = ms
                  /\ End("max_tokens")
                  /\ UNCHANGED step
    /\ UNCHANGED <<scope, reply, todo, issued, ran, stopped, retries, closing, pending, waiting, saved>>

\* handleProgressOnlyRecovery, which sessions do not use: the prompt that asks the
\* model to go on is no internal message.
IsPromise == scope # "session" /\ reply.finish = "end_turn" /\ reply.calls = 0 /\ reply.promise

AskToContinue ==
    /\ pc = "finish"
    /\ IsPromise
    /\ IF fails.progress + 1 > MaxProgress
       THEN End("protocol_stall") /\ UNCHANGED <<msgs, fails, step>>
       ELSE /\ msgs' = Append(msgs, Plain)
            /\ fails' = [fails EXCEPT !.progress = @ + 1]
            /\ pc' = "start"
            /\ step' = step + 1
            /\ UNCHANGED reason
    /\ UNCHANGED <<scope, reply, todo, issued, ran, stopped, retries, closing, pending, waiting,
                   saved, reduced>>

FinishStep ==
    /\ pc = "finish"
    /\ \/ closing /\ End("end_turn") /\ UNCHANGED <<step, fails>>
       \/ /\ ~closing
          /\ reply.finish # "max_tokens"
          /\ ~IsPromise
          /\ fails' = [fails EXCEPT !.progress = 0]
          /\ IF reply.finish = "end_turn"
             THEN End("end_turn") /\ UNCHANGED step
             ELSE pc' = "start" /\ step' = step + 1 /\ UNCHANGED reason
    /\ UNCHANGED <<scope, msgs, reply, todo, issued, ran, stopped, retries, closing, pending, waiting,
                   saved, reduced>>

\* cancel of the agent
Stop ==
    /\ pc # "ended"
    /\ ~stopped
    /\ stopped' = TRUE
    /\ UNCHANGED <<scope, msgs, pc, loop, ran, waiting, saved, reduced, reason>>

Request == RequestCancelled \/ RequestFails \/ TransportRetry \/ ToolIdUnknown \/ Overflow \/ Answer
Tools == NextTool \/ ToolAllowed \/ ToolBlocked \/ ToolStarts \/ ToolEnds \/ ToolsEnd \/ Insert
Loop == StartStep \/ Prepare \/ Request \/ Tools \/ RecoverFromMaxTokens \/ AskToContinue \/ FinishStep

\* The turn is over; nothing else of it happens.
Over ==
    /\ pc = "ended"
    /\ UNCHANGED vars

AgentNext == Loop \/ Stop \/ Over

AgentSpec == AgentInit /\ [][AgentNext]_vars

-----------------------------------------------------------------------------
(* What is left of the turn *)

\* The loop returned: everything is committed.  It was canceled or threw:
\* finalizeInterruptedRun commits the last checkpoint.
Completed == reason \notin {"cancelled", "error"}

Committed == IF Completed THEN Turn(msgs) ELSE saved

\* Whether a last answer is recorded besides the messages.
Answered ==
    IF Completed
    THEN TRUE
    ELSE saved # <<>> /\ saved[Len(saved)].role = "assistant" /\ ~HasCalls(saved[Len(saved)])

NextHistory ==
    IF Committed = <<>> THEN History ELSE Conversation(History, Committed, TypedPrompt, Answered)

SideEffects == IF Completed THEN {} ELSE Ledger(Preview(Turn(msgs), saved))

-----------------------------------------------------------------------------
(* Properties *)

\* However the conversation was cut, every request is acceptable: no result without
\* its call, no call without its results, for every size the budget may ask for.
PayloadIsReplaySafe ==
    pc = "request" => \A n \in 1 .. Len(msgs) : ReplaySafe(Payload(msgs, n))

\* A stopped turn does not touch anything any more.
StoppedTurnsDoNotAct == [][stopped => ran' = ran]_vars

\* No step is run twice and none is forgotten: when a tool starts, what the steps
\* before have done can be recovered from the checkpoint alone.
EarlierStepsAreDurable ==
    pc = "running" /\ reduced \subseteq {"compacted"} =>
        \A c \in ran :
            \/ c \in Results(saved) \cup Covered(saved)
            \/ \E i \in DOMAIN msgs : /\ HasCalls(msgs[i])
                                      /\ c \in ToSet(msgs[i].calls)
                                      /\ Head(todo) \in ToSet(msgs[i].calls)

\* Side effects remain explicit: whatever a tool did in the turn is read back by
\* the next turn as a result, stands behind a compaction, or is in the ledger.
WorkIsAccounted ==
    pc = "ended" /\ reduced \subseteq {"compacted"} =>
        ran \subseteq Results(NextHistory) \cup Covered(NextHistory) \cup SideEffects

\* A compaction in the middle of a turn may keep the answer of an earlier turn: it is
\* then committed before the prompt, and a later call without a text is attached to it.
AnswersBefore ==
    \E i, j \in DOMAIN Committed : /\ i < j
                                   /\ Committed[i].role = "assistant" /\ Committed[i].mark = "none"
                                   /\ Committed[j] = UserPrompt(TypedPrompt)

\* The next turn of a session reads back a conversation it can send, unless an answer
\* of an earlier turn is committed again, and no result of a tool that was never called.
ReplayIsSafe ==
    pc = "ended" /\ scope = "session" /\ reduced \subseteq {"compacted", "trimmed"} =>
        /\ AnswersBefore \/ ReplaySafe(NextHistory)
        /\ Results(NextHistory) \subseteq Results(History) \cup (FirstCall .. FirstCall + issued - 1)

\* What the user asked for is read back as it was asked, in order.
Asked == Prompts(History) \o (IF waiting THEN <<TypedPrompt>> ELSE <<TypedPrompt, InsertedPrompt>>)
PromptsAreKept ==
    pc = "ended" /\ Completed /\ reduced = {} => Prompts(NextHistory) = Asked

\* How far a turn is from its end: the steps and the retries of the step that are
\* left, the attempt, and the place in the calls of the response.
Attempt == CASE pc = "prepare" -> 2 [] pc = "request" -> 1 [] OTHER -> 0
Place ==
    CASE pc = "tools" -> 4 * Len(todo) + 3
      [] pc = "hook" -> 4 * Len(todo) + 2
      [] pc = "before" -> 4 * Len(todo) + 1
      [] pc = "running" -> 4 * Len(todo)
      [] pc = "insert" -> 2
      [] pc = "finish" -> 1
      [] OTHER -> 0
Rank == <<MaxSteps - step, IF pc = "start" THEN 1 ELSE 0, MaxTransport - retries.transport,
          MaxOverflow - retries.overflow, Attempt, Place>>
Lower(a, b) == \E i \in DOMAIN a : a[i] < b[i] /\ \A j \in 1 .. i - 1 : a[j] = b[j]

\* Every turn ends: no retry, recovery, tool or continuation returns to an earlier
\* place without using up one of the bounded counters.
EveryStepNearsTheEnd == [][stopped' = stopped => Lower(Rank', Rank)]_vars
=============================================================================
