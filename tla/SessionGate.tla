----------------------------- MODULE SessionGate -----------------------------
(***************************************************************************)
(* What a session's active-run gate promises: one run at a time, and a run *)
(* that has left the gate does not return.                                 *)
(***************************************************************************)
CONSTANTS Runs, \* run ids
          None  \* no run

VARIABLES holder,  \* the active run of the session
          retired  \* runs that ended or were turned away

Init == holder = None /\ retired = {}

Acquire(r) == /\ holder = None
              /\ r \notin retired
              /\ holder' = r
              /\ UNCHANGED retired

Release(r) == /\ holder = r
              /\ holder' = None
              /\ retired' = retired \cup {r}

\* A run that never held the gate is turned away.
TurnAway(r) == /\ holder # r
               /\ retired' = retired \cup {r}
               /\ UNCHANGED holder

Next == \E r \in Runs : Acquire(r) \/ Release(r) \/ TurnAway(r)

Spec == Init /\ [][Next]_<<holder, retired>>
=============================================================================
