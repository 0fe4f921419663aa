-------------------------- MODULE SessionRunsProofs --------------------------
(***************************************************************************)
(* Theorems about SessionRuns, for every set of run ids and runtime keys.  *)
(***************************************************************************)
EXTENDS SessionRuns, TLAPS

-----------------------------------------------------------------------------
(* Types of what the helpers leave behind. *)

RunsOK == phase \in [Runs -> Phases] /\ agentOf \in [Runs -> Runs \cup {None}]
TrackerOK == tracked \subseteq Runs /\ snapshot \in Runs \cup {None} /\ canceling \subseteq Runs
LoopOK == looping \in BOOLEAN /\ loopOn \in BOOLEAN
AgentsOK == aborted \subseteq Runs /\ rt \in Runtimes /\ purging \subseteq Runs
PrepOK == RunsOK /\ TrackerOK /\ LoopOK /\ AgentsOK
RestOK == /\ kind \in [Runs -> {"chat", "cont"}] /\ want \in [Runs -> Keys]
          /\ selection \in Keys /\ outcome \in [Runs -> Outcomes]

LEMMA TypeParts == (TypeOK <=> PrepOK /\ RestOK) /\ (TypeOK' <=> PrepOK' /\ RestOK')
BY DEF TypeOK, PrepOK, RestOK, RunsOK, TrackerOK, LoopOK, AgentsOK

LEMMA RuntimeFacts ==
  ASSUME rt \in Runtimes
  PROVE  /\ rt.agent \in Runs \cup {None}
         /\ rt.agent # None => rt.agent \in Runs /\ rt.key \in Keys /\ rt.dirty \in BOOLEAN
         /\ rt.dirty => rt.agent # None
BY ConstantsAssumption DEF Runtimes, NoRuntime

LEMMA SuspendOK ==
  ASSUME RunsOK, NEW r \in Runs, NEW p \in Phases, NEW a \in Runs \cup {None},
         Suspend(r, p, a)
  PROVE  RunsOK'
BY DEF RunsOK, Suspend

LEMMA TrackOK ==
  ASSUME TrackerOK, NEW r \in Runs, Track(r) PROVE TrackerOK'
BY DEF TrackerOK, Track

LEMMA ClearOK ==
  ASSUME TrackerOK, NEW r \in Runs, ClearRun(r) PROVE TrackerOK'
BY DEF TrackerOK, ClearRun

LEMMA EnterOK ==
  ASSUME RunsOK, NEW r \in Runs, NEW a \in Runs \cup {None}, EnterAgent(r, a)
  PROVE  RunsOK'
BY SuspendOK DEF EnterAgent, Phases

LEMMA ResyncOK == ASSUME LoopOK, ResyncLoop PROVE LoopOK'
BY DEF LoopOK, ResyncLoop

LEMMA SwapOK ==
  ASSUME PrepOK, NEW r \in Runs, rt.agent # None, SwapRuntime(r) PROVE PrepOK'
<1>1. rt.agent \in Runs
  BY RuntimeFacts DEF PrepOK, AgentsOK
<1>2. RunsOK'
  BY <1>1, SuspendOK DEF SwapRuntime, PrepOK, Phases
<1>3. TrackerOK'
  BY DEF SwapRuntime, RemoveTrackedRuns, TrackerOK, PrepOK
<1>4. LoopOK'
  BY DEF SwapRuntime, StopLoop, LoopOK
<1>5. AgentsOK'
  BY <1>1 DEF SwapRuntime, AgentsOK, PrepOK, RegisteredWith
<1> QED
  BY <1>2, <1>3, <1>4, <1>5 DEF PrepOK

LEMMA PrepareChatOK ==
  ASSUME PrepOK, NEW r \in Runs, NEW k, PrepareChat(r, k) PROVE PrepOK'
<1>1. CASE rt.agent = None
  <2>1. RunsOK'
    BY <1>1, SuspendOK DEF PrepareChat, PrepOK, Phases
  <2>2. TrackerOK'
    BY <1>1, TrackOK DEF PrepareChat, PrepOK
  <2>3. LoopOK' /\ AgentsOK'
    BY <1>1 DEF PrepareChat, PrepOK, LoopOK, AgentsOK
  <2> QED
    BY <2>1, <2>2, <2>3 DEF PrepOK
<1>2. CASE rt.agent # None /\ rt.key = k
  <2>1. RunsOK'
    BY <1>2, EnterOK, RuntimeFacts DEF PrepareChat, PrepOK, AgentsOK
  <2>2. TrackerOK'
    BY <1>2, TrackOK DEF PrepareChat, PrepOK
  <2>3. LoopOK'
    BY <1>2, ResyncOK DEF PrepareChat, PrepOK
  <2>4. AgentsOK'
    BY <1>2 DEF PrepareChat, PrepOK, AgentsOK
  <2> QED
    BY <2>1, <2>2, <2>3, <2>4 DEF PrepOK
<1>3. CASE rt.agent # None /\ rt.key # k
  BY <1>3, SwapOK DEF PrepareChat
<1> QED
  BY <1>1, <1>2, <1>3

\* The selection saved by a chat is the one it was prepared with.
LEMMA SavedOK ==
  ASSUME NEW r \in Runs, NEW k, PrepareChat(r, k) PROVE selection' \in {selection, k}
BY DEF PrepareChat

LEMMA StartContinuationOK ==
  ASSUME RunsOK, TrackerOK, LoopOK, NEW r \in Runs, NEW a \in Runs \cup {None},
         StartContinuation(r, a)
  PROVE  RunsOK' /\ TrackerOK' /\ LoopOK'
<1>1. CASE HasActive
  <2>1. RunsOK'
    BY <1>1, SuspendOK DEF StartContinuation, Phases
  <2>2. TrackerOK' /\ LoopOK'
    BY <1>1 DEF StartContinuation, TrackerOK, LoopOK, tracker
  <2> QED
    BY <2>1, <2>2
<1>2. CASE ~HasActive
  <2>1. RunsOK'
    BY <1>2, EnterOK DEF StartContinuation
  <2>2. TrackerOK'
    BY <1>2, TrackOK DEF StartContinuation
  <2>3. LoopOK'
    BY <1>2 DEF StartContinuation, LoopOK
  <2> QED
    BY <2>1, <2>2, <2>3
<1> QED
  BY <1>1, <1>2

LEMMA EnsureForContinuationOK ==
  ASSUME PrepOK, NEW r \in Runs, NEW k, EnsureForContinuation(r, k) PROVE PrepOK'
<1>1. CASE rt.agent = None
  <2>1. RunsOK'
    BY <1>1, SuspendOK DEF EnsureForContinuation, PrepOK, Phases
  <2>2. TrackerOK' /\ LoopOK' /\ AgentsOK'
    BY <1>1 DEF EnsureForContinuation, PrepOK, TrackerOK, LoopOK, AgentsOK, tracker
  <2> QED
    BY <2>1, <2>2 DEF PrepOK
<1>2. CASE rt.agent # None /\ rt.key = k
  <2>1. RunsOK' /\ TrackerOK' /\ LoopOK'
    BY <1>2, StartContinuationOK, RuntimeFacts DEF EnsureForContinuation, PrepOK, AgentsOK
  <2>2. AgentsOK'
    BY <1>2 DEF EnsureForContinuation, PrepOK, AgentsOK
  <2> QED
    BY <2>1, <2>2 DEF PrepOK
<1>3. CASE rt.agent # None /\ rt.key # k
  BY <1>3, SwapOK DEF EnsureForContinuation
<1> QED
  BY <1>1, <1>2, <1>3

-----------------------------------------------------------------------------
(* Type correctness. *)

LEMMA RunStepOK ==
  ASSUME TypeOK, NEW r \in Runs, RunStep(r) PROVE TypeOK'
<1> USE TypeParts
<1>1. CASE ChatArrives(r)
  <2>1. RestOK'
    BY <1>1, SavedOK DEF ChatArrives, RestOK, Requested
  <2>2. CASE ~HasActive
    BY <1>1, <2>1, <2>2, PrepareChatOK DEF ChatArrives
  <2>3. CASE HasActive
    <3>1. RunsOK'
      BY <1>1, <2>3, SuspendOK DEF ChatArrives, PrepOK, Phases
    <3> QED
      BY <1>1, <2>1, <2>3, <3>1
      DEF ChatArrives, PrepOK, TrackerOK, LoopOK, AgentsOK, tracker
  <2> QED
    BY <2>2, <2>3
<1>2. CASE WaitEnds(r)
  BY <1>2, PrepareChatOK, SavedOK DEF WaitEnds, RestOK
<1>3. CASE WaitTimesOut(r)
  <2>1. RunsOK'
    BY <1>3, SuspendOK DEF WaitTimesOut, PrepOK, Phases
  <2> QED
    BY <1>3, <2>1 DEF WaitTimesOut, PrepOK, RestOK, TrackerOK, LoopOK, AgentsOK, tracker
<1>4. CASE ContinuationFires(r)
  <2>1. RestOK'
    BY <1>4 DEF ContinuationFires, RestOK
  <2>2. CASE ~(looping /\ ~HasActive)
    <3>1. RunsOK'
      BY <1>4, <2>2, SuspendOK DEF ContinuationFires, PrepOK, Phases
    <3> QED
      BY <1>4, <2>1, <2>2, <3>1
      DEF ContinuationFires, PrepOK, TrackerOK, LoopOK, AgentsOK, tracker
  <2>3. CASE looping /\ ~HasActive /\ rt.dirty
    <3>1. rt.agent \in Runs
      BY <2>3, RuntimeFacts DEF PrepOK, AgentsOK
    <3>2. RunsOK'
      BY <1>4, <2>3, <3>1, SuspendOK DEF ContinuationFires, PrepOK, Phases
    <3>3. LoopOK' /\ AgentsOK'
      BY <1>4, <2>3, <3>1
      DEF ContinuationFires, PurgeIdleRuntime, StopLoop, PrepOK, LoopOK, AgentsOK
    <3>4. TrackerOK'
      BY <1>4, <2>3 DEF ContinuationFires, PrepOK, TrackerOK, tracker
    <3> QED
      BY <2>1, <3>2, <3>3, <3>4 DEF PrepOK
  <2>4. CASE looping /\ ~HasActive /\ ~rt.dirty
    BY <1>4, <2>1, <2>4, EnsureForContinuationOK DEF ContinuationFires
  <2> QED
    BY <2>2, <2>3, <2>4
<1>5. CASE Resume(r)
  <2>1. CASE phase[r] = "swapClean"
    <3>1. RunsOK'
      BY <1>5, <2>1, SuspendOK DEF Resume, PrepOK, Phases
    <3> QED
      BY <1>5, <2>1, <3>1
      DEF Resume, PrepOK, RestOK, TrackerOK, LoopOK, AgentsOK, tracker
  <2>2. CASE phase[r] = "dirtyClean"
    BY <1>5, <2>2, EnsureForContinuationOK DEF Resume, RestOK
  <2> QED
    BY <1>5, <2>1, <2>2 DEF Resume
<1>6. CASE BootDone(r)
  <2>1. RestOK' /\ AgentsOK'
    BY <1>6 DEF BootDone, RestOK, PrepOK, AgentsOK, Runtimes
  <2>2. CASE kind[r] = "chat"
    <3>1. RunsOK' /\ TrackerOK' /\ LoopOK'
      BY <1>6, <2>2, EnterOK, TrackOK, ResyncOK DEF BootDone, PrepOK
    <3> QED
      BY <2>1, <3>1 DEF PrepOK
  <2>3. CASE kind[r] # "chat"
    BY <1>6, <2>1, <2>3, StartContinuationOK DEF BootDone, PrepOK
  <2> QED
    BY <2>2, <2>3
<1>7. CASE BootFails(r)
  <2>1. RunsOK'
    BY <1>7, SuspendOK DEF BootFails, PrepOK, Phases
  <2>2. TrackerOK'
    BY <1>7, ClearOK DEF BootFails, PrepOK, TrackerOK, tracker
  <2> QED
    BY <1>7, <2>1, <2>2 DEF BootFails, PrepOK, RestOK, LoopOK, AgentsOK
<1>8. CASE TurnBegins(r)
  <2>1. RunsOK'
    BY <1>8 DEF TurnBegins, PrepOK, RunsOK, Phases
  <2> QED
    BY <1>8, <2>1 DEF TurnBegins, PrepOK, RestOK, TrackerOK, LoopOK, AgentsOK, tracker
<1>9. ASSUME NEW o \in Outcomes, RunEnds(r, o) PROVE TypeOK'
  <2> DEFINE cleans == r \in tracked /\ rt.dirty /\ tracked = {r}
  <2>1. TrackerOK'
    <3>1. CASE r \in tracked
      BY <1>9, <3>1, ClearOK DEF RunEnds, PrepOK
    <3>2. CASE r \notin tracked
      BY <1>9, <3>2 DEF RunEnds, PrepOK, TrackerOK
    <3> QED
      BY <3>1, <3>2
  <2>2. cleans => rt.agent \in Runs
    BY RuntimeFacts DEF PrepOK, AgentsOK
  <2>3. AgentsOK'
    BY <1>9, <2>2 DEF RunEnds, PrepOK, AgentsOK
  <2>4. agentOf' \in [Runs -> Runs \cup {None}]
    BY <1>9, <2>2 DEF RunEnds, PrepOK, RunsOK
  <2>5. phase' \in [Runs -> Phases]
    BY <1>9 DEF RunEnds, PrepOK, RunsOK, Phases
  <2>6. RestOK'
    BY <1>9 DEF RunEnds, RestOK
  <2>7. LoopOK'
    BY <1>9 DEF RunEnds, StopLoop, PrepOK, LoopOK
  <2> QED
    BY <2>1, <2>3, <2>4, <2>5, <2>6, <2>7 DEF PrepOK, RunsOK
<1>10. CASE Finish(r)
  <2>1. RunsOK'
    BY <1>10 DEF Finish, PrepOK, RunsOK, Phases
  <2>2. LoopOK' /\ RestOK'
    BY <1>10 DEF Finish, PrepOK, LoopOK, RestOK, Outcomes
  <2> QED
    BY <1>10, <2>1, <2>2 DEF Finish, PrepOK, TrackerOK, AgentsOK, tracker
<1> QED
  BY <1>1, <1>2, <1>3, <1>4, <1>5, <1>6, <1>7, <1>8, <1>9, <1>10 DEF RunStep

LEMMA StepTypeOK ==
  ASSUME TypeOK, [Next]_vars PROVE TypeOK'
<1> USE TypeParts
<1>1. ASSUME NEW r \in Runs, RunStep(r) PROVE TypeOK'
  BY <1>1, RunStepOK
<1>2. ASSUME NEW r \in Runs, PurgeDone(r) PROVE TypeOK'
  BY <1>2 DEF PurgeDone, PrepOK, RestOK, RunsOK, TrackerOK, LoopOK, AgentsOK,
              tracker, Runtimes
<1>3. ASSUME NEW r \in Runs, CancelAll(r) PROVE TypeOK'
  BY <1>3 DEF CancelAll, PrepOK, RestOK, RunsOK, TrackerOK, LoopOK, AgentsOK,
              RegisteredWith
<1>4. CASE Cancel
  BY <1>4 DEF Cancel, PrepOK, RestOK, RunsOK, TrackerOK, LoopOK, AgentsOK,
              RegisteredWith, StopLoop
<1>5. CASE ConfigReload
  <2>1. rt.agent \in Runs /\ rt' \in Runtimes
    BY <1>5, RuntimeFacts DEF ConfigReload, PrepOK, AgentsOK, Runtimes, NoRuntime
  <2> QED
    BY <1>5, <2>1 DEF ConfigReload, PurgeIdleRuntime, StopLoop, PrepOK, RestOK, RunsOK,
                      TrackerOK, LoopOK, AgentsOK, tracker
<1>6. CASE DeleteSession
  <2>1. rt.agent \in Runs
    BY <1>6, RuntimeFacts DEF DeleteSession, PrepOK, AgentsOK
  <2> QED
    BY <1>6, <2>1 DEF DeleteSession, RemoveTrackedRuns, PurgeIdleRuntime, StopLoop,
                      PrepOK, RestOK, RunsOK, TrackerOK, LoopOK, AgentsOK, RegisteredWith
<1>7. CASE SwitchSelection
  BY <1>7 DEF SwitchSelection, PrepOK, RestOK, RunsOK, TrackerOK, LoopOK, AgentsOK, tracker
<1>8. CASE UNCHANGED vars
  BY <1>8 DEF vars, tracker, PrepOK, RestOK, RunsOK, TrackerOK, LoopOK, AgentsOK
<1> QED
  BY <1>1, <1>2, <1>3, <1>4, <1>5, <1>6, <1>7, <1>8 DEF Next

\* Every variable keeps its type, whatever the environment does.
THEOREM TypeCorrect == Spec => []TypeOK
<1>1. Init => TypeOK
  BY ConstantsAssumption DEF Init, TypeOK, Phases, Outcomes, Runtimes
<1>2. TypeOK /\ [Next]_vars => TypeOK'
  BY StepTypeOK
<1> QED
  BY <1>1, <1>2, PTL DEF Spec

-----------------------------------------------------------------------------
(* Holders are alive and shown, in every environment. *)

\* A continuation takes the gate only after its runtime is ready, and a run
\* that has not been prepared is a chat.
KindInv ==
    \A r \in Runs :
      /\ phase[r] \in {"idle", "waiting"} => kind[r] = "chat"
      /\ phase[r] \in {"scheduled", "dirtyClean"} => kind[r] = "cont"

HolderAlive ==
    \A r \in tracked : /\ phase[r] \in Live
                       /\ kind[r] = "cont" => phase[r] # "booting"

AliveInv == TypeOK /\ KindInv /\ HolderAlive /\ SnapshotIsTracked

\* What a step of the run r does to the phases and the tracker.
Moves(r) == phase' = [phase EXCEPT ![r] = phase'[r]]
Takes(r) == tracked' = tracked \cup {r} /\ snapshot' = r /\ canceling' = canceling
Forgets == RemoveTrackedRuns

LEMMA EnterEffect ==
  ASSUME PrepOK, NEW r \in Runs, NEW a, EnterAgent(r, a)
  PROVE  Moves(r) /\ phase'[r] \in {"refused", "assembling"}
BY DEF EnterAgent, Suspend, Moves, PrepOK, RunsOK

LEMMA PrepareEffect ==
  ASSUME PrepOK, NEW r \in Runs, NEW k, PrepareChat(r, k)
  PROVE  /\ Moves(r)
         /\ \/ phase'[r] \in {"booting", "refused", "assembling"} /\ Takes(r)
            \/ /\ phase'[r] = "swapClean" /\ Forgets
               /\ rt.agent # None /\ rt.key # k
<1>1. CASE rt.agent = None
  BY <1>1 DEF PrepareChat, Suspend, Track, Moves, Takes, PrepOK, RunsOK
<1>2. CASE rt.agent # None /\ rt.key = k
  BY <1>2, EnterEffect DEF PrepareChat, Track, Takes
<1>3. CASE rt.agent # None /\ rt.key # k
  BY <1>3 DEF PrepareChat, SwapRuntime, Suspend, Moves, Forgets, PrepOK, RunsOK
<1> QED
  BY <1>1, <1>2, <1>3

LEMMA StartEffect ==
  ASSUME PrepOK, NEW r \in Runs, NEW a, StartContinuation(r, a)
  PROVE  /\ Moves(r)
         /\ \/ phase'[r] = "done" /\ UNCHANGED tracker
            \/ phase'[r] \in {"refused", "assembling"} /\ ~HasActive /\ Takes(r)
<1>1. CASE HasActive
  BY <1>1 DEF StartContinuation, Suspend, Moves, PrepOK, RunsOK
<1>2. CASE ~HasActive
  BY <1>2, EnterEffect DEF StartContinuation, Track, Takes
<1> QED
  BY <1>1, <1>2

LEMMA EnsureEffect ==
  ASSUME PrepOK, NEW r \in Runs, NEW k, EnsureForContinuation(r, k)
  PROVE  /\ Moves(r)
         /\ \/ phase'[r] \in {"booting", "done"} /\ UNCHANGED tracker
            \/ phase'[r] \in {"refused", "assembling"} /\ ~HasActive /\ Takes(r)
            \/ /\ phase'[r] = "swapClean" /\ Forgets
               /\ rt.agent # None /\ rt.key # k
<1>1. CASE rt.agent = None
  BY <1>1 DEF EnsureForContinuation, Suspend, Moves, PrepOK, RunsOK
<1>2. CASE rt.agent # None /\ rt.key = k
  BY <1>2, StartEffect DEF EnsureForContinuation
<1>3. CASE rt.agent # None /\ rt.key # k
  BY <1>3 DEF EnsureForContinuation, SwapRuntime, Suspend, Moves, Forgets, PrepOK, RunsOK
<1> QED
  BY <1>1, <1>2, <1>3

\* The four kinds of steps of a run, as far as the tracker can tell.
TakesGate(r) ==
    /\ phase[r] \notin {"settling", "done"}
    /\ ~HasActive \/ (phase[r] = "booting" /\ kind[r] = "chat")
    /\ Moves(r) /\ Takes(r) /\ kind' = kind
    /\ \/ phase'[r] \in {"refused", "assembling"}
       \/ phase'[r] = "booting" /\ kind[r] = "chat"
Forgotten(r) ==
    /\ Moves(r) /\ Forgets /\ kind' = kind
    /\ phase'[r] = "swapClean"
    /\ rt.agent # None /\ rt.key # want'[r]
PassesBy(r) ==
    /\ phase[r] \notin {"settling", "done"}
    /\ Moves(r) /\ UNCHANGED tracker /\ kind' = kind
    /\ phase'[r] \notin {"idle", "scheduled", "settling", "swapClean",
                       "assembling", "refused"}
    /\ phase'[r] = "booting" => kind[r] = "cont" \/ phase[r] = "swapClean"
    /\ phase'[r] = "waiting" => kind[r] = "chat"
    /\ phase'[r] = "dirtyClean" => kind[r] = "cont"
    /\ \/ r \notin tracked
       \/ phase'[r] = "running"
    /\ phase'[r] = "running" => phase[r] = "assembling"
LeavesGate(r) ==
    /\ phase'[r] \in {"settling", "done"}
    /\ \A c \in Runs \ {r} :
         \/ phase'[c] = phase[c] /\ kind'[c] = kind[c]
         \/ phase[c] = "idle" /\ phase'[c] = "scheduled" /\ kind'[c] = "cont"
    /\ \/ ClearRun(r)
       \/ /\ r \notin tracked /\ UNCHANGED <<tracked, snapshot>>
          /\ canceling' \subseteq canceling

LEMMA RunStepKinds ==
  ASSUME AliveInv, NEW r \in Runs, RunStep(r)
  PROVE  TakesGate(r) \/ Forgotten(r) \/ PassesBy(r) \/ LeavesGate(r)
<1> USE TypeParts DEF AliveInv
<1>0. /\ phase \in [Runs -> Phases] /\ kind \in [Runs -> {"chat", "cont"}]
      /\ want \in [Runs -> Keys]
  BY DEF TypeOK
<1>a. phase[r] \notin Live => r \notin tracked
  BY DEF HolderAlive
<1>1. CASE ChatArrives(r)
  <2>1. kind[r] = "chat" /\ kind' = kind /\ r \notin tracked
    BY <1>1, <1>a DEF ChatArrives, KindInv, Live
  <2>2. CASE ~HasActive
    BY <1>0, <1>1, <2>1, <2>2, PrepareEffect DEF ChatArrives, TakesGate, Forgotten
  <2>3. CASE HasActive
    BY <1>0, <1>1, <2>1, <2>3 DEF ChatArrives, Suspend, PassesBy, Moves
  <2> QED
    BY <2>2, <2>3
<1>2. CASE WaitEnds(r)
  BY <1>2, PrepareEffect DEF WaitEnds, KindInv, TakesGate, Forgotten
<1>3. CASE WaitTimesOut(r)
  BY <1>0, <1>3, <1>a DEF WaitTimesOut, Suspend, PassesBy, Moves, Live
<1>4. CASE ContinuationFires(r)
  <2>1. kind[r] = "cont" /\ kind' = kind /\ r \notin tracked
    BY <1>4, <1>a DEF ContinuationFires, KindInv, Live
  <2>2. CASE ~(looping /\ ~HasActive)
    BY <1>0, <1>4, <2>1, <2>2 DEF ContinuationFires, Suspend, PassesBy, Moves
  <2>3. CASE looping /\ ~HasActive /\ rt.dirty
    BY <1>0, <1>4, <2>1, <2>3 DEF ContinuationFires, Suspend, PassesBy, Moves
  <2>4. CASE looping /\ ~HasActive /\ ~rt.dirty
    BY <1>0, <1>4, <2>1, <2>4, EnsureEffect
    DEF ContinuationFires, TakesGate, Forgotten, PassesBy
  <2> QED
    BY <2>2, <2>3, <2>4
<1>5. CASE Resume(r)
  <2>1. CASE phase[r] = "swapClean"
    BY <1>0, <1>5, <1>a, <2>1 DEF Resume, Suspend, PassesBy, Moves, Live
  <2>2. CASE phase[r] = "dirtyClean"
    BY <1>5, <1>a, <2>2, EnsureEffect
    DEF Resume, TakesGate, Forgotten, PassesBy, Live, KindInv
  <2> QED
    BY <1>5, <2>1, <2>2 DEF Resume
<1>6. CASE BootDone(r)
  <2>1. CASE kind[r] = "chat"
    BY <1>6, <2>1, EnterEffect DEF BootDone, Track, Takes, TakesGate
  <2>2. CASE kind[r] # "chat"
    <3>1. r \notin tracked
      BY <1>0, <1>6, <2>2 DEF BootDone, HolderAlive
    <3> QED
      BY <1>6, <2>2, <3>1, StartEffect DEF BootDone, TakesGate, PassesBy
  <2> QED
    BY <2>1, <2>2
<1>7. CASE BootFails(r)
  <2>1. kind[r] # "chat" => r \notin tracked
    BY <1>0, <1>7 DEF BootFails, HolderAlive
  <2> QED
    BY <1>0, <1>7, <2>1 DEF BootFails, Suspend, LeavesGate, tracker
<1>8. CASE TurnBegins(r)
  BY <1>0, <1>8 DEF TurnBegins, PassesBy, Moves
<1>9. ASSUME NEW o \in Outcomes, RunEnds(r, o) PROVE LeavesGate(r)
  <2>1. /\ phase'[r] = "settling"
        /\ \A c \in Runs \ {r} :
             \/ phase'[c] = phase[c] /\ kind'[c] = kind[c]
             \/ phase[c] = "idle" /\ phase'[c] = "scheduled" /\ kind'[c] = "cont"
    BY <1>0, <1>9 DEF RunEnds
  <2>2. \/ ClearRun(r)
        \/ /\ r \notin tracked /\ UNCHANGED <<tracked, snapshot>>
           /\ canceling' \subseteq canceling
    BY <1>9 DEF RunEnds
  <2> QED
    BY <2>1, <2>2 DEF LeavesGate
<1>10. CASE Finish(r)
  <2>1. r \notin tracked
    BY <1>10, <1>a DEF Finish, Live
  <2>2. /\ phase'[r] = "done"
        /\ \A c \in Runs \ {r} :
             \/ phase'[c] = phase[c] /\ kind'[c] = kind[c]
             \/ phase[c] = "idle" /\ phase'[c] = "scheduled" /\ kind'[c] = "cont"
    BY <1>0, <1>10 DEF Finish
  <2> QED
    BY <1>10, <2>1, <2>2 DEF LeavesGate, Finish, tracker
<1> QED
  BY <1>1, <1>2, <1>3, <1>4, <1>5, <1>6, <1>7, <1>8, <1>9, <1>10 DEF RunStep

-----------------------------------------------------------------------------
(* The gate, when neither the selection nor the session goes away. *)

Calm == "switch" \notin Env /\ "delete" \notin Env

\* Without a switch every runtime has the one key, so none is swapped.
OneKey == /\ \A r \in Runs : want[r] = selection /\ phase[r] # "swapClean"
          /\ rt.agent # None => rt.key = selection

\* A chat holds the gate from its reservation to its end, a continuation
\* while it is inside the agent.
Holding ==
    \A r \in Runs :
      \/ phase[r] \in {"assembling", "running", "refused"}
      \/ phase[r] = "booting" /\ kind[r] = "chat"
      => r \in tracked

GateInv == AliveInv /\ OneKey /\ Holding /\ GateExclusive /\ HolderIsShown

-----------------------------------------------------------------------------
(* The invariants are kept. *)

LEMMA AliveRunStep ==
  ASSUME AliveInv, NEW r \in Runs, RunStep(r) PROVE AliveInv'
<1>1. TypeOK'
  BY RunStepOK DEF AliveInv
<1>2. phase \in [Runs -> Phases] /\ tracked \subseteq Runs /\ None \notin Runs
  BY ConstantsAssumption DEF AliveInv, TypeOK
<1>3. CASE TakesGate(r)
  BY <1>1, <1>2, <1>3
  DEF TakesGate, Moves, Takes, AliveInv, KindInv, HolderAlive, SnapshotIsTracked, Live
<1>4. CASE Forgotten(r)
  BY <1>1, <1>2, <1>4
  DEF Forgotten, Moves, Forgets, RemoveTrackedRuns, AliveInv, KindInv, HolderAlive,
      SnapshotIsTracked
<1>5. CASE PassesBy(r)
  BY <1>1, <1>2, <1>5
  DEF PassesBy, Moves, tracker, AliveInv, KindInv, HolderAlive, SnapshotIsTracked, Live
<1>6. CASE LeavesGate(r)
  <2>1. KindInv'
    BY <1>6 DEF LeavesGate, AliveInv, KindInv
  <2>2. HolderAlive'
    <3>1. r \notin tracked' /\ tracked' \subseteq tracked
      BY <1>6 DEF LeavesGate, ClearRun
    <3> QED
      BY <1>2, <1>6, <3>1 DEF LeavesGate, AliveInv, HolderAlive, Live
  <2>3. SnapshotIsTracked'
    BY <1>6 DEF LeavesGate, ClearRun, AliveInv, SnapshotIsTracked
  <2> QED
    BY <1>1, <2>1, <2>2, <2>3 DEF AliveInv
<1> QED
  BY <1>3, <1>4, <1>5, <1>6, RunStepKinds

\* Steps that leave the phases of the runs alone.
Requests == \/ \E r \in Runs : PurgeDone(r) \/ CancelAll(r)
            \/ Cancel \/ ConfigReload \/ DeleteSession \/ SwitchSelection
            \/ UNCHANGED vars

LEMMA StepCases == [Next]_vars => Requests \/ \E r \in Runs : RunStep(r)
BY DEF Next, Requests

LEMMA RequestEffect ==
  ASSUME rt \in Runtimes, Requests
  PROVE  /\ phase' = phase /\ kind' = kind /\ want' = want
         /\ \/ tracked' = tracked /\ snapshot' = snapshot
            \/ RemoveTrackedRuns /\ DeleteSession
         /\ rt' = NoRuntime \/ (rt'.agent = rt.agent /\ rt'.key = rt.key)
         /\ selection' = selection \/ SwitchSelection
<1>1. /\ phase' = phase /\ kind' = kind /\ want' = want
      /\ selection' = selection \/ SwitchSelection
  BY DEF Requests, PurgeDone, CancelAll, Cancel, ConfigReload, DeleteSession,
         SwitchSelection, vars
<1>2. \/ tracked' = tracked /\ snapshot' = snapshot
      \/ RemoveTrackedRuns /\ DeleteSession
  BY DEF Requests, PurgeDone, CancelAll, Cancel, ConfigReload, DeleteSession,
         SwitchSelection, vars, tracker
<1>3. rt' \in {rt, NoRuntime, [rt EXCEPT !.dirty = TRUE]}
  BY DEF Requests, PurgeDone, CancelAll, Cancel, ConfigReload, DeleteSession,
         SwitchSelection, vars
<1>4. rt' = NoRuntime \/ (rt'.agent = rt.agent /\ rt'.key = rt.key)
  BY <1>3 DEF Runtimes, NoRuntime
<1> QED
  BY <1>1, <1>2, <1>4

LEMMA AliveStep == AliveInv /\ [Next]_vars => AliveInv'
<1> SUFFICES ASSUME AliveInv, [Next]_vars PROVE AliveInv'
  OBVIOUS
<1>1. CASE Requests
  <2>1. TypeOK'
    BY StepTypeOK DEF AliveInv
  <2> QED
    BY <1>1, <2>1, RequestEffect
    DEF TypeOK, AliveInv, KindInv, HolderAlive, SnapshotIsTracked, RemoveTrackedRuns
<1>2. CASE \E r \in Runs : RunStep(r)
  BY <1>2, AliveRunStep
<1> QED
  BY <1>1, <1>2, StepCases

LEMMA AliveInit == Init => AliveInv
<1> SUFFICES ASSUME Init PROVE AliveInv
  OBVIOUS
<1>1. TypeOK
  BY ConstantsAssumption DEF Init, TypeOK, Phases, Outcomes, Runtimes
<1> QED
  BY <1>1 DEF Init, AliveInv, KindInv, HolderAlive, SnapshotIsTracked

LEMMA Alive == Spec => []AliveInv
<1>1. Init => AliveInv
  BY AliveInit
<1>2. AliveInv /\ [Next]_vars => AliveInv'
  BY AliveStep
<1> QED
  BY <1>1, <1>2, PTL DEF Spec

\* Whatever the user, the settings and failures do, a run that holds the gate
\* is being prepared or inside its agent: a session is never refused on
\* behalf of a run that has ended.
THEOREM NoGhosts == Spec => []NoGhostHolder
<1>1. AliveInv => NoGhostHolder
  BY DEF AliveInv, HolderAlive, NoGhostHolder
<1> QED
  BY <1>1, Alive, PTL

\* The active run that is broadcast and hydrated is one that holds the gate.
THEOREM NoStaleSnapshot == Spec => []SnapshotIsTracked
<1>1. AliveInv => SnapshotIsTracked
  BY DEF AliveInv
<1> QED
  BY <1>1, Alive, PTL

\* What the tracker says of the gate is true of a run that will be finalised.
THEOREM GateBacked == Spec => []GateIsBacked
<1>1. NoGhostHolder /\ SnapshotIsTracked => GateIsBacked
  BY DEF GateIsBacked
<1> QED
  BY <1>1, NoGhosts, NoStaleSnapshot, PTL

-----------------------------------------------------------------------------
(* The gate. *)

LEMMA OneKeyStep ==
  ASSUME Calm, AliveInv, OneKey, [Next]_vars PROVE OneKey'
<1>0. /\ phase \in [Runs -> Phases] /\ want \in [Runs -> Keys]
      /\ None \notin Runs /\ "switch" \notin Env /\ rt \in Runtimes
  BY ConstantsAssumption DEF AliveInv, TypeOK, Calm
<1>1. CASE Requests
  BY <1>0, <1>1, RequestEffect DEF OneKey, SwitchSelection, NoRuntime
<1>2. ASSUME NEW r \in Runs, RunStep(r) PROVE OneKey'
  <2>1. selection' = selection
    <3>1. ChatArrives(r) => selection' = selection
      BY <1>0, SavedOK DEF Requested, ChatArrives
    <3>2. WaitEnds(r) \/ BootDone(r) => selection' = selection
      BY SavedOK DEF OneKey, WaitEnds, BootDone
    <3> QED
      BY <1>2, <3>1, <3>2 DEF RunStep, WaitTimesOut, ContinuationFires, Resume,
                              BootFails, TurnBegins, RunEnds, Finish
  <2>2. want' = [want EXCEPT ![r] = selection] \/ want' = want
    <3>1. ChatArrives(r) => want' = [want EXCEPT ![r] = selection]
      BY <1>0 DEF Requested, ChatArrives
    <3> QED
      BY <1>2, <3>1 DEF RunStep, WaitEnds, WaitTimesOut, ContinuationFires, Resume,
                        BootDone, BootFails, TurnBegins, RunEnds, Finish
  <2>3. \A s \in Runs : want'[s] = selection'
    BY <1>0, <2>1, <2>2 DEF OneKey
  <2>4. rt' = rt \/ rt' = [agent |-> r, key |-> want[r], dirty |-> FALSE]
    BY <1>2 DEF RunStep, ChatArrives, WaitEnds, WaitTimesOut, ContinuationFires,
                Resume, BootDone, BootFails, TurnBegins, RunEnds, Finish,
                PrepareChat, EnsureForContinuation
  <2>5. rt'.agent # None => rt'.key = selection'
    BY <1>0, <2>1, <2>4 DEF OneKey
  <2>6. ASSUME NEW s \in Runs PROVE phase'[s] # "swapClean"
    <3>1. ~Forgotten(r)
      BY <2>1, <2>3 DEF Forgotten, OneKey
    <3>2. TakesGate(r) \/ PassesBy(r) \/ LeavesGate(r)
      BY <1>2, <3>1, RunStepKinds
    <3> QED
      BY <1>0, <3>2 DEF TakesGate, PassesBy, LeavesGate, Moves, OneKey
  <2> QED
    BY <2>3, <2>5, <2>6 DEF OneKey
<1> QED
  BY <1>1, <1>2, StepCases

LEMMA GateRunStep ==
  ASSUME Calm, GateInv, NEW r \in Runs, RunStep(r), OneKey'
  PROVE  TakesGate(r) \/ PassesBy(r) \/ LeavesGate(r)
<1>1. ~Forgotten(r)
  BY DEF Forgotten, OneKey, Moves
<1> QED
  BY <1>1, RunStepKinds DEF GateInv

LEMMA GateStep ==
  ASSUME Calm, GateInv, [Next]_vars PROVE GateInv'
<1>0. /\ phase \in [Runs -> Phases] /\ kind \in [Runs -> {"chat", "cont"}]
      /\ tracked \subseteq Runs /\ "delete" \notin Env /\ rt \in Runtimes
  BY DEF GateInv, AliveInv, TypeOK, Calm
<1>1. AliveInv' /\ OneKey'
  BY AliveStep, OneKeyStep DEF GateInv
<1>2. CASE Requests
  BY <1>0, <1>1, <1>2, RequestEffect
  DEF GateInv, Holding, GateExclusive, HolderIsShown, DeleteSession
<1>3. ASSUME NEW r \in Runs, RunStep(r) PROVE GateInv'
  <2>1. CASE TakesGate(r)
    <3>1. tracked' = {r} /\ snapshot' = r /\ r \in tracked'
      BY <2>1 DEF TakesGate, Takes, HasActive, GateInv, Holding, GateExclusive
    <3>2. tracked \subseteq tracked'
      BY <2>1 DEF TakesGate, Takes
    <3>3. Holding'
      BY <1>0, <2>1, <3>1, <3>2 DEF TakesGate, Moves, GateInv, Holding
    <3> QED
      BY <1>1, <3>1, <3>3 DEF GateInv, GateExclusive, HolderIsShown
  <2>2. CASE PassesBy(r)
    <3>1. Holding'
      BY <1>0, <2>2, <1>1 DEF PassesBy, Moves, tracker, GateInv, Holding, OneKey
    <3> QED
      BY <1>1, <2>2, <3>1 DEF PassesBy, tracker, GateInv, GateExclusive, HolderIsShown
  <2>3. CASE LeavesGate(r)
    <3>1. Holding'
      BY <1>0, <2>3 DEF LeavesGate, ClearRun, GateInv, Holding
    <3>2. GateExclusive' /\ HolderIsShown'
      BY <2>3 DEF LeavesGate, ClearRun, GateInv, GateExclusive, HolderIsShown
    <3> QED
      BY <1>1, <3>1, <3>2 DEF GateInv
  <2> QED
    BY <1>1, <1>3, <2>1, <2>2, <2>3, GateRunStep
<1> QED
  BY <1>2, <1>3, StepCases

LEMMA GateInit == Init => GateInv
<1> SUFFICES ASSUME Init PROVE GateInv
  OBVIOUS
<1>1. OneKey
  BY DEF Init, OneKey, NoRuntime
<1>2. Holding /\ GateExclusive /\ HolderIsShown
  BY DEF Init, Holding, GateExclusive, HolderIsShown
<1> QED
  BY <1>1, <1>2, AliveInit DEF GateInv

LEMMA GateHolds == ASSUME Calm PROVE Spec => []GateInv
<1>1. Init => GateInv
  BY GateInit
<1>2. GateInv /\ [Next]_vars => GateInv'
  BY GateStep
<1> QED
  BY <1>1, <1>2, PTL DEF Spec

\* Unless the saved model changes or the session is deleted, a session never
\* has two active runs: chats, waiting chats, queued turns and continuations
\* that are suspended at their awaits do not slip past each other.
THEOREM OneActiveRun == ASSUME Calm PROVE Spec => []GateExclusive
<1>1. GateInv => GateExclusive
  BY DEF GateInv
<1> QED
  BY <1>1, GateHolds, PTL

\* Under the same condition the run that holds the gate is the one shown, so
\* the end of an older run never clears a newer one.
THEOREM ShownWhileActive == ASSUME Calm PROVE Spec => []HolderIsShown
<1>1. GateInv => HolderIsShown
  BY DEF GateInv
<1> QED
  BY <1>1, GateHolds, PTL

\* Under the same condition two agent turns never work on the session's
\* history at once, even when a Stop leaves a turn winding down.
THEOREM OneTurn == ASSUME Calm PROVE Spec => []SingleTurn
<1>1. GateInv => SingleTurn
  BY DEF GateInv, Holding, GateExclusive, SingleTurn, OnAgent
<1> QED
  BY <1>1, GateHolds, PTL

-----------------------------------------------------------------------------
(* Canceling marks. *)

\* When every Stop names its session, a canceling mark disappears with its
\* run, so only a run that is really stopping makes a new message wait.
THEOREM MarksDieWithRuns ==
  ASSUME "stray" \notin Env PROVE Spec => []CancelingIsTracked
<1>1. Init => CancelingIsTracked
  BY DEF Init, CancelingIsTracked
<1>2. AliveInv /\ CancelingIsTracked /\ [Next]_vars => CancelingIsTracked'
  <2> SUFFICES ASSUME AliveInv, CancelingIsTracked, [Next]_vars
               PROVE  CancelingIsTracked'
    OBVIOUS
  <2>1. CASE Requests
    <3>1. \A r \in Runs : ~CancelAll(r)
      BY DEF CancelAll
    <3> QED
      BY <2>1, <3>1 DEF Requests, PurgeDone, Cancel, ConfigReload, DeleteSession,
         SwitchSelection, RemoveTrackedRuns, vars, tracker, CancelingIsTracked
  <2>2. ASSUME NEW r \in Runs, RunStep(r) PROVE CancelingIsTracked'
    <3>1. TakesGate(r) \/ Forgotten(r) \/ PassesBy(r) \/ LeavesGate(r)
      BY <2>2, RunStepKinds
    <3> QED
      BY <3>1 DEF TakesGate, Takes, Forgotten, Forgets, RemoveTrackedRuns, PassesBy,
         tracker, LeavesGate, ClearRun, CancelingIsTracked
  <2> QED
    BY <2>1, <2>2, StepCases
<1> QED
  BY <1>1, <1>2, Alive, PTL DEF Spec

-----------------------------------------------------------------------------
(* The tracker implements the abstract gate. *)

Holder == IF HasActive THEN snapshot ELSE None

LEMMA HolderFacts ==
  ASSUME GateInv
  PROVE  /\ Holder = None <=> tracked = {}
         /\ Holder # None => tracked = {Holder}
         /\ tracked \subseteq Runs
<1>1. tracked \subseteq Runs /\ None \notin Runs
  BY ConstantsAssumption DEF GateInv, AliveInv, TypeOK
<1>2. CASE tracked = {}
  BY <1>1, <1>2 DEF Holder, HasActive
<1>3. CASE tracked # {}
  BY <1>1, <1>3 DEF Holder, HasActive, GateInv, HolderIsShown, GateExclusive
<1> QED
  BY <1>2, <1>3

LEMMA GateSimulation ==
  ASSUME Calm, GateInv, [Next]_vars, GateInv'
  PROVE  [Gate!Next]_<<Holder, Retired>>
<1>0. /\ phase \in [Runs -> Phases] /\ kind \in [Runs -> {"chat", "cont"}]
      /\ "delete" \notin Env /\ rt \in Runtimes /\ None \notin Runs
  BY ConstantsAssumption DEF GateInv, AliveInv, TypeOK, Calm
<1>1. CASE Requests
  <2>1. phase' = phase /\ tracked' = tracked /\ snapshot' = snapshot
    BY <1>0, <1>1, RequestEffect DEF DeleteSession
  <2> QED
    BY <2>1 DEF Holder, HasActive, Retired
<1>2. ASSUME NEW r \in Runs, RunStep(r) PROVE [Gate!Next]_<<Holder, Retired>>
  <2>1. CASE TakesGate(r)
    <3>1. Retired' = Retired /\ r \notin Retired
      BY <1>0, <2>1 DEF TakesGate, Moves, Retired
    <3>2. tracked' = {r} /\ Holder' = r
      BY <2>1 DEF TakesGate, Takes, HasActive, Holder, GateInv, Holding, GateExclusive
    <3>3. CASE tracked = {}
      <4>1. Gate!Acquire(r)
        BY <3>1, <3>2, <3>3 DEF Gate!Acquire, Holder, HasActive
      <4> QED
        BY <4>1 DEF Gate!Next
    <3>4. CASE tracked # {}
      <4>1. Holder = r
        BY <2>1, <3>4, HolderFacts DEF TakesGate, HasActive, GateInv, Holding
      <4> QED
        BY <3>1, <3>2, <4>1
    <3> QED
      BY <3>3, <3>4
  <2>2. CASE PassesBy(r)
    <3>1. Holder' = Holder
      BY <2>2 DEF PassesBy, tracker, Holder, HasActive
    <3>2. CASE phase'[r] = "done"
      <4>1. Retired' = Retired \cup {r}
        BY <1>0, <2>2, <3>2 DEF PassesBy, Moves, Retired
      <4>2. Holder # r
        BY <1>0, <2>2, <3>2, HolderFacts DEF PassesBy
      <4>3. Gate!TurnAway(r)
        BY <3>1, <4>1, <4>2 DEF Gate!TurnAway, Holder
      <4> QED
        BY <4>3 DEF Gate!Next
    <3>3. CASE phase'[r] # "done"
      <4>1. Retired' = Retired
        BY <1>0, <2>2, <3>3 DEF PassesBy, Moves, Retired
      <4> QED
        BY <3>1, <4>1
    <3> QED
      BY <3>2, <3>3
  <2>3. CASE LeavesGate(r)
    <3>1. Retired' = Retired \cup {r}
      BY <1>0, <2>3 DEF LeavesGate, Retired
    <3>2. CASE r \in tracked
      <4>1. Holder = r /\ tracked' = {}
        BY <1>0, <2>3, <3>2, HolderFacts DEF LeavesGate, ClearRun
      <4>2. Holder' = None
        BY <4>1 DEF Holder, HasActive
      <4>3. Gate!Release(r)
        BY <3>1, <4>1, <4>2 DEF Gate!Release, Holder
      <4> QED
        BY <4>3 DEF Gate!Next
    <3>3. CASE r \notin tracked
      <4>1. Holder # r
        BY <1>0, <3>3, HolderFacts
      <4>2. tracked' = tracked /\ Holder' = Holder
        BY <2>3, <3>3 DEF LeavesGate, ClearRun, Holder, HasActive, GateInv,
                          HolderIsShown
      <4>3. Gate!TurnAway(r)
        BY <3>1, <4>1, <4>2 DEF Gate!TurnAway, Holder
      <4> QED
        BY <4>3 DEF Gate!Next
    <3> QED
      BY <3>2, <3>3
  <2> QED
    BY <1>2, <2>1, <2>2, <2>3, GateRunStep DEF GateInv
<1> QED
  BY <1>1, <1>2, StepCases

\* Under the same condition the tracker, with everything around it, is a lock
\* that each run takes at most once and only its holder gives back.
THEOREM ImplementsGate == ASSUME Calm PROVE Spec => GateRefinement
<1>1. Init => Gate!Init
  BY DEF Init, Gate!Init, HasActive, Retired
<1>2. GateInv /\ GateInv' /\ [Next]_vars => [Gate!Next]_<<Holder, Retired>>
  BY GateSimulation
<1>3. [Gate!Next]_<<Holder, Retired>>
        => [Gate!Next]_<<IF HasActive THEN snapshot ELSE None, Retired>>
  BY DEF Holder
<1> QED
  BY <1>1, <1>2, <1>3, GateHolds, PTL DEF Spec, GateRefinement, Gate!Spec
=============================================================================
