---------------------------- MODULE MCAgentTurn ----------------------------
(***************************************************************************)
(* Small instances of AgentTurn for TLC.                                   *)
(***************************************************************************)
EXTENDS AgentTurn

\* One earlier turn: a prompt, a call with its result, and the answer.
EarlierCall == 9
OneExchange == <<[Plain EXCEPT !.ref = 1],
                 [Assistant(TRUE, <<EarlierCall>>) EXCEPT !.ckpt = FALSE],
                 ToolResult(EarlierCall), Assistant(TRUE, <<>>)>>

Reply(finish, text, promise, calls) ==
    [finish |-> finish, text |-> text, promise |-> promise, calls |-> calls]

\* The first step has a call, a promise, or too many tokens; the second two calls,
\* or is cut off at one; the third answers.
ThreeSteps == [n \in 0 .. 2 |->
    CASE n = 0 -> {Reply("end_turn", TRUE, FALSE, 0), Reply("end_turn", TRUE, TRUE, 0),
                   Reply("tool_use", FALSE, FALSE, 1), Reply("max_tokens", TRUE, FALSE, 0)}
      [] n = 1 -> {Reply("end_turn", TRUE, FALSE, 0), Reply("tool_use", TRUE, FALSE, 2),
                   Reply("max_tokens", TRUE, FALSE, 1)}
      [] n = 2 -> {Reply("end_turn", TRUE, FALSE, 0)}]
=============================================================================
