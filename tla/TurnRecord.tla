----------------------------- MODULE TurnRecord -----------------------------
(***************************************************************************)
(* What a turn leaves in the history: which of the agent's messages are    *)
(* committed, the events they become, and the conversation a later turn    *)
(* reads back from these events.                                           *)
(***************************************************************************)
EXTENDS ToolProtocol

\* filterCommittedTurnMessages
IsCommitted(m) == m.mark # "internal"

\* collectCommittedTurnMessagesFromSnapshot: the turn begins with the first message
\* that has a checkpoint id, since ids are not replayed.
TurnStart(ms, baseline) ==
    LET own == {i \in DOMAIN ms : ms[i].ckpt}
    IN  IF own = {} THEN baseline + 1 ELSE CHOOSE i \in own : \A j \in own : i <= j

\* Mutant: the turn begins where the replayed messages ended when it started.
CollectedAt(ms, baseline) == Only(ms, {i \in DOMAIN ms : i > baseline /\ IsCommitted(ms[i])})
Collected(ms, baseline) ==
    Only(ms, {i \in DOMAIN ms : i >= TurnStart(ms, baseline) /\ IsCommitted(ms[i])})

\* hasCheckpointProgress
Progressed(ms) == \E i \in DOMAIN ms : ms[i].role # "user"

-----------------------------------------------------------------------------
(* messagesToEvents followed by toConversationMessages *)

\* The first user message is committed with the text the user typed.
\* Mutant: every user message is.
WithRawPromptAlways(ms, prompt) ==
    [i \in DOMAIN ms |-> IF ms[i].role = "user" THEN [ms[i] EXCEPT !.ref = prompt] ELSE ms[i]]
WithRawPrompt(ms, prompt) ==
    LET users == {i \in DOMAIN ms : ms[i].role = "user"}
    IN  [i \in DOMAIN ms |->
            IF users # {} /\ i = (CHOOSE u \in users : \A v \in users : u <= v)
            THEN [ms[i] EXCEPT !.ref = prompt] ELSE ms[i]]

\* Reading back the events of one message: an assistant event without text is
\* skipped, and a tool call belongs to the last assistant since the last result.
ReadBack(acc, m) ==
    LET n == Len(acc.out)
        next == Append(acc.out, [m EXCEPT !.calls = <<>>, !.ckpt = FALSE])
        spoken == m.role = "assistant" /\ m.mark = "none" /\ m.text
        at == IF spoken THEN n + 1 ELSE acc.at
    IN  CASE m.role = "tool" -> [out |-> next, at |-> 0]
          [] m.role = "user" \/ m.mark = "summary" -> [out |-> next, at |-> acc.at]
          [] HasCalls(m) /\ at = 0 ->
                [out |-> Append(acc.out, [m EXCEPT !.ckpt = FALSE]), at |-> n + 1]
          [] HasCalls(m) /\ at # 0 ->
                [out |-> [(IF spoken THEN next ELSE acc.out) EXCEPT ![at].calls = @ \o m.calls], at |-> at]
          [] OTHER -> [out |-> IF spoken THEN next ELSE acc.out, at |-> at]

ReadBackAll(ms) ==
    LET acc[n \in 0 .. Len(ms)] ==
            IF n = 0 THEN [out |-> <<>>, at |-> 0] ELSE ReadBack(acc[n - 1], ms[n])
    IN  acc[Len(ms)].out

\* The conversation after a turn that was committed with messages ms: a turn with
\* tool calls is replayed message by message, any other one as its compaction, its
\* prompts and its last answer.
Conversation(history, ms, prompt, answered) ==
    LET events == WithRawPrompt(ms, prompt)
        read == ReadBackAll(events)
        summaries == Only(read, {i \in DOMAIN read : read[i].mark = "summary"})
        base == IF summaries = <<>> THEN history ELSE <<>>
        last == IF read # <<>> THEN read[Len(read)] ELSE Plain
        closing == IF ~answered \/ (last.role = "assistant" /\ ~HasCalls(last))
                   THEN <<>> ELSE <<Assistant(TRUE, <<>>)>>
        spoke == answered \/ \E i \in DOMAIN read : read[i].role = "assistant" /\ read[i].mark = "none"
    IN  IF \E i \in DOMAIN events : HasCalls(events[i]) \/ events[i].role = "tool"
        THEN base \o read \o closing
        ELSE base \o (IF summaries = <<>> THEN <<>> ELSE Newest(summaries, 1))
                  \o Only(read, {i \in DOMAIN read : read[i].role = "user"})
                  \o (IF spoke THEN <<Assistant(TRUE, <<>>)>> ELSE <<>>)

-----------------------------------------------------------------------------
(* A turn that did not complete *)

\* slicePreviewMessages: what the turn had beyond its checkpoint
Preview(ms, saved) ==
    LET equal == {n \in 0 .. (IF Len(ms) < Len(saved) THEN Len(ms) ELSE Len(saved)) :
                      \A i \in 1 .. n : ms[i] = saved[i]}
        n == CHOOSE x \in equal : \A y \in equal : y <= x
    IN  From(ms, n + 1)

\* buildSideEffectLedgerFromPreview; the tools of the model change the workspace,
\* which shouldPersistInterruptedSideEffect asks for.
Ledger(preview) == {preview[i].ref : i \in {j \in DOMAIN preview : preview[j].role = "tool"}}

Results(ms) == {ms[i].ref : i \in {j \in DOMAIN ms : ms[j].role = "tool"}}
Prompts(ms) == LET users == Only(ms, {i \in DOMAIN ms : ms[i].role = "user" /\ ms[i].ref # 0})
               IN  [i \in DOMAIN users |-> users[i].ref]
Covered(ms) == UNION {ms[i].covers : i \in DOMAIN ms}
=============================================================================
