----------------------------- MODULE TurnHistory -----------------------------
(***************************************************************************)
(* What the event store promises about the history of one context: it only *)
(* grows, by whole entries, and the entry of a turn is added only if       *)
(* nothing was added since the turn began.  Whoever comes first wins.      *)
(***************************************************************************)
EXTENDS Naturals, Sequences

CONSTANTS Turns, \* turns of an agent in this context
          None,  \* a write that is no turn
          Shut   \* a turn that is not open

VARIABLES history, \* whose entry is where
          open     \* how long the history was when an open turn began

vars == <<history, open>>

Init ==
    /\ history = <<>>
    /\ open = [t \in Turns |-> Shut]

Begin(t) ==
    /\ open[t] = Shut
    /\ open' = [open EXCEPT ![t] = Len(history)]
    /\ UNCHANGED history

Commit(t) ==
    /\ open[t] = Len(history)
    /\ history' = Append(history, t)
    /\ open' = [open EXCEPT ![t] = Shut]

\* A turn ends without an entry: it was aborted or refused.
Abandon(t) ==
    /\ open[t] # Shut
    /\ open' = [open EXCEPT ![t] = Shut]
    /\ UNCHANGED history

\* Somebody writes to the context outside of any of its turns.
Write ==
    /\ history' = Append(history, None)
    /\ UNCHANGED open

\* The process dies, perhaps while it writes: no turn stays open.
Die ==
    /\ history' \in {history, Append(history, None)}
    /\ open' = [t \in Turns |-> Shut]

Next ==
    \/ \E t \in Turns : Begin(t) \/ Commit(t) \/ Abandon(t)
    \/ Write
    \/ Die

Spec == Init /\ [][Next]_vars
=============================================================================
