---------------------------- MODULE MCSessionRuns ----------------------------
(***************************************************************************)
(* Small instances of SessionRuns for TLC.                                 *)
(***************************************************************************)
EXTENDS SessionRuns

\* What can happen while the selection stays and the session is not deleted: no
\* runtime is swapped under a run, so no run resumes after a swap.  RunningInput_all
\* has the rest.
CalmNext ==
    \/ \E r \in Runs :
        \/ ChatArrives(r) \/ WaitEnds(r) \/ WaitTimesOut(r) \/ ContinuationFires(r)
        \/ BootDone(r) \/ BootFails(r) \/ TurnBegins(r) \/ Finish(r)
        \/ \E o \in Outcomes : RunEnds(r, o)
        \/ PurgeDone(r) \/ CancelAll(r)
    \/ Cancel \/ ConfigReload

CalmSpec == Init /\ [][CalmNext]_vars /\ Fairness
=============================================================================
