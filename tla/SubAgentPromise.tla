-------------------------- MODULE SubAgentPromise --------------------------
(***************************************************************************)
(* What the sub-agent manager promises to whoever delegated work: each     *)
(* task of a sub-agent is settled once, with one outcome, and that outcome *)
(* stands until the sub-agent is asked to run again.                       *)
(***************************************************************************)
EXTENDS Naturals

CONSTANT Agents

VARIABLES run,    \* how often each sub-agent was asked to run
          outcome \* of its latest run

vars == <<run, outcome>>

Settlements == {"succeeded", "failed", "canceled"}

Init ==
    /\ run = [a \in Agents |-> 0]
    /\ outcome = [a \in Agents |-> "none"]

\* Work is delegated; a run that cannot start at all fails at once.
Ask(a) ==
    /\ outcome[a] # "open"
    /\ run' = [run EXCEPT ![a] = @ + 1]
    /\ \E o \in {"open", "failed"} : outcome' = [outcome EXCEPT ![a] = o]

Settle(a) ==
    /\ outcome[a] = "open"
    /\ \E o \in Settlements : outcome' = [outcome EXCEPT ![a] = o]
    /\ UNCHANGED run

\* The process dies: every open run is settled as failed.
Die ==
    /\ outcome' = [a \in Agents |-> IF outcome[a] = "open" THEN "failed" ELSE outcome[a]]
    /\ UNCHANGED run

Next == (\E a \in Agents : Ask(a) \/ Settle(a)) \/ Die

Spec == Init /\ [][Next]_vars
=============================================================================
