---------------------------- MODULE ToolProtocol ----------------------------
(***************************************************************************)
(* Conversations with tool calls, and what the program does to keep them   *)
(* acceptable to a provider: an assistant message with tool calls is       *)
(* followed by one result per call.                                        *)
(*                                                                         *)
(* A message is abstracted to its role, whether it has text, the prompt or *)
(* call it carries (ref), its tool calls, whether it has a checkpoint id,  *)
(* whether its text starts with one of the program's own markers, and for  *)
(* a compaction what it stands for.                                        *)
(***************************************************************************)
EXTENDS Naturals, Sequences, FiniteSets, SequencesExt

Plain == [role |-> "user", text |-> TRUE, ref |-> 0, calls |-> <<>>, ckpt |-> FALSE,
          mark |-> "none", covers |-> {}]

\* What a conversation is made of.
Messages == [role : {"user", "assistant", "tool"}, text : BOOLEAN, ref : Nat, calls : Seq(Nat),
             ckpt : BOOLEAN, mark : {"none", "internal", "summary"}, covers : SUBSET Nat]

UserPrompt(p) == [Plain EXCEPT !.ref = p, !.ckpt = TRUE]
Assistant(text, calls) ==
    [Plain EXCEPT !.role = "assistant", !.text = text, !.calls = calls, !.ckpt = calls # <<>>]
ToolResult(c) == [Plain EXCEPT !.role = "tool", !.ref = c]

\* Messages the program writes to itself; they are not committed.
InternalUser == [Plain EXCEPT !.mark = "internal"]
InternalAssistant == [Plain EXCEPT !.role = "assistant", !.mark = "internal"]

\* buildContextPrecompressedContent, with its checkpoint id
Compaction(covered) ==
    [Plain EXCEPT !.role = "assistant", !.ckpt = TRUE, !.mark = "summary", !.covers = covered]

HasCalls(m) == m.role = "assistant" /\ m.calls # <<>>

\* The messages at some positions, in their order.
Only(ms, at) == FlattenSeq([i \in DOMAIN ms |-> IF i \in at THEN <<ms[i]>> ELSE <<>>])

-----------------------------------------------------------------------------
(* analyzeAssistantToolBundle *)

\* How many tool messages follow the message at i.
Following(ms, i) ==
    Cardinality({j \in i + 1 .. Len(ms) : \A k \in i + 1 .. j : ms[k].role = "tool"})

\* The calls of the message at i have names of their own, and the messages that
\* follow are their results, in any order.
ValidBundle(ms, i) ==
    LET calls == ms[i].calls
        results == {ms[i + k].ref : k \in DOMAIN calls}
    IN  /\ HasCalls(ms[i])
        /\ Len(calls) <= Following(ms, i)
        /\ IsInjective(calls)
        /\ results = ToSet(calls)

\* The message that a tool message at i follows: 0 if there is none.
Owner(ms, i) ==
    LET before == {j \in 1 .. i - 1 : ms[j].role # "tool"}
    IN  IF before = {} THEN 0 ELSE CHOOSE j \in before : \A k \in before : k <= j

\* The tool message at i is a result of the bundle it follows.
InBundle(ms, i) ==
    LET o == Owner(ms, i)
    IN  ms[i].role = "tool" /\ o # 0 /\ i - o <= Len(ms[o].calls) /\ ValidBundle(ms, o)

\* assertReplaySafeToolProtocol: no orphan result, no unanswered call
ReplaySafe(ms) ==
    \A i \in DOMAIN ms :
        /\ ms[i].role = "tool" => InBundle(ms, i)
        /\ HasCalls(ms[i]) => ValidBundle(ms, i)

-----------------------------------------------------------------------------
(* sanitizeMessagesForToolProtocol and trimMessagesForContextWindow *)

\* What becomes of the message at i: results of a bundle are put into the order of
\* the calls, calls without results and results without call become notes.
\* Mutant: an orphan result is kept.
RepairedCallsOnly(ms, i) ==
    LET m == ms[i]
        o == Owner(ms, i)
    IN  CASE HasCalls(m) /\ ~ValidBundle(ms, i) -> <<[m EXCEPT !.calls = <<>>], InternalUser>>
          [] InBundle(ms, i) -> <<ToolResult(ms[o].calls[i - o])>>
          [] OTHER -> <<m>>
Repaired(ms, i) ==
    LET m == ms[i]
        o == Owner(ms, i)
    IN  CASE HasCalls(m) /\ ~ValidBundle(ms, i) -> <<[m EXCEPT !.calls = <<>>], InternalUser>>
          [] InBundle(ms, i) -> <<ToolResult(ms[o].calls[i - o])>>
          [] m.role = "tool" /\ ~InBundle(ms, i) -> <<InternalUser>>
          [] OTHER -> <<m>>

Sanitized(ms) == FlattenSeq([i \in DOMAIN ms |-> Repaired(ms, i)])

Newest(ms, n) == SubSeq(ms, Len(ms) - n + 1, Len(ms))

\* A message list over its budget keeps its newest n messages.
Trimmed(ms, n) ==
    IF n < Len(ms) THEN <<InternalAssistant>> \o Newest(ms, n) ELSE ms

\* projectForProvider: sanitize, then prepareMessagesForModel
Payload(ms, n) == Sanitized(Trimmed(Sanitized(Sanitized(ms)), n))

\* trimMessagesToReplaySafeBoundary: the messages before the first one that is
\* not replay-safe, bundles in the order of their calls.
SafePrefix(ms) ==
    LET bad == {i \in DOMAIN ms : \/ ms[i].role = "tool" /\ ~InBundle(ms, i)
                                  \/ HasCalls(ms[i]) /\ ~ValidBundle(ms, i)}
        n == IF bad = {} THEN Len(ms) ELSE (CHOOSE i \in bad : \A j \in bad : i <= j) - 1
    IN  Sanitized(SubSeq(ms, 1, n))

-----------------------------------------------------------------------------
(* What reduces a conversation *)

Prefix(ms, n) == SubSeq(ms, 1, n)
From(ms, i) == SubSeq(ms, i, Len(ms))

\* Prompts and calls that a list of messages stands for.
Standing(ms) == (UNION {{ms[i].ref} \cup ms[i].covers : i \in DOMAIN ms}) \ {0}

\* The rounds of splitMessagesForPrecompress end with an assistant and its results.
RoundEnds(ms) ==
    {i \in DOMAIN ms : \E a \in 1 .. i :
        ms[a].role = "assistant" /\ i = a + Following(ms, a)}

\* The first message of the newest n rounds, 1 if there are not more.
TailStart(ms, n) ==
    LET ends == RoundEnds(ms)
        older == {e \in ends : Cardinality({f \in ends : f > e}) >= n}
    IN  IF older = {} THEN 1 ELSE 1 + CHOOSE e \in older : \A f \in older : f <= e

\* applyPrecompressIfNeeded, when it applies
CanCompact(ms, n) == TailStart(ms, n) > 3
Compacted(ms, n) ==
    LET start == TailStart(ms, n)
    IN  Sanitized(<<Compaction(Standing(Prefix(ms, start - 1)))>> \o From(ms, start))

\* compactCompletedToolHistory: bundles that are complete before the newest
\* messages give way to one note.
WithoutBundles(ms) ==
    LET gone == {i \in DOMAIN ms : \/ ValidBundle(ms, i)
                                   \/ ms[i].role = "tool" /\ Owner(ms, i) # 0 /\ ValidBundle(ms, Owner(ms, i))}
    IN  [messages |-> Only(ms, DOMAIN ms \ gone), changed |-> gone # {}]

ToolHistoryCompacted(ms, tail) ==
    LET n == IF tail < Len(ms) THEN Len(ms) - tail ELSE 0
        head == WithoutBundles(Prefix(ms, n))
    IN  IF Len(ms) > 2 /\ head.changed
        THEN head.messages \o <<InternalAssistant>> \o From(ms, n + 1)
        ELSE ms

\* compressForMaxTokensRecovery: the older messages become a summary, or the
\* list is trimmed without looking at bundles.
RecoveredHistories(ms, tail) ==
    IF Len(ms) <= 1 THEN {ms}
    ELSE {Trimmed(ms, n) : n \in tail .. (IF tail < Len(ms) THEN Len(ms) ELSE tail)}
         \cup {<<InternalAssistant>> \o Newest(ms, n) : n \in {tail} \cap (0 .. Len(ms) - 3)}

\* applyPendingSummaryIfNeeded
SummaryApplied(ms, at, keep) ==
    LET n == IF Len(ms) - keep > at THEN keep ELSE Len(ms) - at
    IN  Sanitized(Prefix(ms, at) \o Newest(ms, n) \o <<[InternalAssistant EXCEPT !.ckpt = TRUE]>>)
=============================================================================
