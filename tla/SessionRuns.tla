----------------------------- MODULE SessionRuns -----------------------------
(***************************************************************************)
(* The life of the runs of one Web session: the active-run gate that chat  *)
(* preparation and scheduled continuations pass, the run-state tracker,    *)
(* the session's runtime (a DPAgent kept between runs), cancellation and   *)
(* finalisation.  The server keeps this state per session key, so one      *)
(* session is the whole story.                                             *)
(*                                                                         *)
(* The server is single threaded: an action is the code between two        *)
(* awaits.  A promise that has settled resumes its waiter before the next  *)
(* timer, socket message or request is looked at; Drained says that.       *)
(*                                                                         *)
(* A run id is also the name of the DPAgent that its preparation creates.  *)
(***************************************************************************)
EXTENDS Naturals, FiniteSets

CONSTANTS Runs,   \* the run ids createRunId may hand out in this instance
          Keys,   \* runtime keys: workspace, model selection, MCP servers
          Env,    \* the kinds of environment events this instance includes
          None    \* neither a run nor an agent

EnvEvents == {"cancel",  \* the user presses Stop
              "offline", \* every browser socket closes
              "invalid", \* a prompt or selection is refused before the gate
              "reload",  \* a saved configuration invalidates idle runtimes
              "delete",  \* the session is deleted over HTTP
              "switch",  \* the saved model selection changes
              "stray",   \* a Stop names only the id of a run that has ended
              "marker",  \* an answer lacks the enforced completion marker
              "loop",    \* Todo or Ralph continuation is turned on and off
              "error"}   \* initialisation, an LLM call or a tool throws

ASSUME ConstantsAssumption ==
    /\ None \notin Runs
    /\ Keys # {}
    /\ Env \subseteq EnvEvents

VARIABLES
    phase,      \* where the code executing each run is suspended
    kind,       \* chat or scheduled continuation
    agentOf,    \* the agent a run executes on, or whose cleanup it awaits
    want,       \* the runtime key sampled when the run was prepared
    aborted,    \* runs whose agent's abort signal is set
    tracked,    \* activeRunContexts: the runs that hold the gate
    snapshot,   \* activeRunStatesByContext: the run the session shows
    canceling,  \* cancelingRunIds
    rt,         \* the session's entry of sessionRuntimes
    purging,    \* agents whose cleanup() is in flight
    selection,  \* the runtime key of the settings saved now
    looping,    \* AutoLoopController.isRunning
    loopOn,     \* auto-loop enabled and not paused by the user
    outcome     \* how a run's agent call ended

tracker == <<tracked, snapshot, canceling>>
vars == <<phase, kind, agentOf, want, aborted, tracker, rt, purging,
          selection, looping, loopOn, outcome>>

Phases == {"idle",        \* run id not handed out yet
           "waiting",     \* chat waiting for the canceled run to stop
           "scheduled",   \* continuation timer pending (500 ms)
           "dirtyClean",  \* awaiting cleanup of a runtime marked dirty
           "swapClean",   \* awaiting cleanup of a runtime of another key
           "booting",     \* awaiting initialize() of a new agent
           "assembling",  \* agent run entered, turn agent not registered
           "refused",     \* agent refused the run: context lease taken
           "running",     \* turn agent registered, abort signal live
           "settling",    \* finalised, awaiting the dirty cleanup
           "done"}

Outcomes == {"open",         \* not ended yet
             "continue",     \* completed, a continuation was planned
             "rest",         \* completed, no continuation was planned
             "cancelled",
             "recoverable",  \* error that left a replay-safe checkpoint
             "fatal"}

NoRuntime == [agent |-> None, key |-> None, dirty |-> FALSE]
Runtimes == [agent : Runs, key : Keys, dirty : BOOLEAN] \cup {NoRuntime}

\* Phases in which a run is on its way to, or inside, an agent.
Live == {"booting", "assembling", "refused", "running"}
OnAgent == {"assembling", "running"}

TypeOK ==
    /\ phase \in [Runs -> Phases]
    /\ kind \in [Runs -> {"chat", "cont"}]
    /\ agentOf \in [Runs -> Runs \cup {None}]
    /\ want \in [Runs -> Keys]
    /\ aborted \subseteq Runs
    /\ tracked \subseteq Runs
    /\ snapshot \in Runs \cup {None}
    /\ canceling \subseteq Runs
    /\ rt \in Runtimes
    /\ purging \subseteq Runs
    /\ selection \in Keys
    /\ looping \in BOOLEAN
    /\ loopOn \in BOOLEAN
    /\ outcome \in [Runs -> Outcomes]

Init ==
    /\ phase = [r \in Runs |-> "idle"]
    /\ kind = [r \in Runs |-> "chat"]
    /\ agentOf = [r \in Runs |-> None]
    /\ selection \in Keys
    /\ want = [r \in Runs |-> selection]
    /\ aborted = {}
    /\ tracked = {} /\ snapshot = None /\ canceling = {}
    /\ rt = NoRuntime
    /\ purging = {}
    /\ looping = FALSE
    /\ loopOn \in IF "loop" \in Env THEN BOOLEAN ELSE {FALSE}
    /\ outcome = [r \in Runs |-> "open"]

-----------------------------------------------------------------------------
(* The run-state tracker. *)

HasActive == tracked # {}

\* Mutant for HolderIsShown: a reservation that is not shown.
TrackUnseen(r) == tracked' = tracked \cup {r} /\ UNCHANGED <<snapshot, canceling>>

Track(r) == /\ tracked' = tracked \cup {r}
            /\ snapshot' = r
            /\ UNCHANGED canceling

\* Mutant for GateIsBacked: the snapshot stays.
ClearRunKeepsSnapshot(r) == /\ tracked' = tracked \ {r}
                            /\ canceling' = canceling \ {r}
                            /\ UNCHANGED snapshot

ClearRun(r) == /\ tracked' = tracked \ {r}
               /\ snapshot' = IF snapshot = r THEN None ELSE snapshot
               /\ canceling' = canceling \ {r}

RemoveTrackedRuns == /\ tracked' = {}
                     /\ snapshot' = None
                     /\ canceling' = canceling \ tracked

-----------------------------------------------------------------------------
(* The session runtime and the agents. *)

\* A settled promise resumes its waiter before the next event is handled.
Pending(r) == \/ /\ phase[r] \in {"dirtyClean", "swapClean", "settling"}
                 /\ agentOf[r] \notin purging
              \/ phase[r] = "refused"
Drained == \A r \in Runs : ~Pending(r)

\* cancelContext reaches the turn agents registered with that agent.
RegisteredWith(a) == {r \in Runs : phase[r] = "running" /\ agentOf[r] = a}

LeaseTaken(a) == \E r \in Runs : phase[r] \in OnAgent /\ agentOf[r] = a

StopLoop == looping' = FALSE /\ loopOn' = FALSE

\* What the Todo list and the Ralph switch may make of the auto-loop.
ResyncLoop ==
    \/ /\ loopOn' \in IF "loop" \in Env THEN BOOLEAN ELSE {loopOn}
       /\ looping' = loopOn'
    \/ UNCHANGED <<looping, loopOn>>

Suspend(r, p, a) == /\ phase' = [phase EXCEPT ![r] = p]
                    /\ agentOf' = [agentOf EXCEPT ![r] = a]

\* runWithResult takes the context's lease of that agent, or throws.
EnterAgent(r, a) ==
    Suspend(r, IF LeaseTaken(a) THEN "refused" ELSE "assembling", a)

\* ensureSessionRuntime meets a runtime of another key: it cancels what runs
\* there, stops the loop, forgets every tracked run and awaits the cleanup.
SwapRuntime(r) ==
    /\ aborted' = aborted \cup RegisteredWith(rt.agent)
    /\ RemoveTrackedRuns
    /\ StopLoop
    /\ purging' = purging \cup {rt.agent}
    /\ Suspend(r, "swapClean", rt.agent)
    /\ UNCHANGED rt

\* cleanupSessionRuntime of an idle session that cancels nothing.
PurgeIdleRuntime == StopLoop /\ purging' = purging \cup {rt.agent}

\* agent.cleanup() resolves; the runtime is dropped if it is still the one.
PurgeDone(a) ==
    /\ Drained
    /\ a \in purging
    /\ purging' = purging \ {a}
    /\ rt' = IF rt.agent = a THEN NoRuntime ELSE rt
    /\ UNCHANGED <<phase, kind, agentOf, want, aborted, tracker, selection,
                   looping, loopOn, outcome>>

-----------------------------------------------------------------------------
(* Chat messages. *)

\* A message may carry its own selection; otherwise the saved one is taken.
Requested == IF "switch" \in Env THEN Keys ELSE {selection}

\* The gate is open: reserve the run and ensure a runtime for the key k.  When
\* the run starts, the selection it was prepared with is saved again.
PrepareChat(r, k) ==
    /\ IF rt.agent = None
         THEN /\ Track(r)
              /\ Suspend(r, "booting", None)
              /\ UNCHANGED <<aborted, purging, selection, looping, loopOn>>
         ELSE IF rt.key = k
         THEN /\ Track(r)
              /\ EnterAgent(r, rt.agent)
              /\ selection' = k
              /\ ResyncLoop
              /\ UNCHANGED <<aborted, purging>>
         ELSE SwapRuntime(r) /\ UNCHANGED selection
    /\ UNCHANGED rt

ChatArrives(r) ==
    /\ Drained
    /\ phase[r] = "idle"
    /\ \E k \in Requested :
         /\ want' = [want EXCEPT ![r] = k]
         /\ \/ ~HasActive /\ PrepareChat(r, k)
            \/ /\ HasActive
               /\ Suspend(r, IF tracked \cap canceling # {} THEN "waiting" ELSE "done",
                          None)
               /\ UNCHANGED <<aborted, tracker, rt, purging, selection, looping,
                              loopOn>>
    /\ UNCHANGED <<kind, outcome>>

\* waitForNoActiveRunForContext polls; it gives up after ten seconds.
WaitEnds(r) ==
    /\ Drained
    /\ phase[r] = "waiting"
    /\ ~HasActive
    /\ PrepareChat(r, want[r])
    /\ UNCHANGED <<kind, want, outcome>>

\* Mutant for WaitersAnswered: the wait has no limit.
WaitNeverTimesOut(r) == FALSE /\ UNCHANGED vars

WaitTimesOut(r) ==
    /\ Drained
    /\ phase[r] = "waiting"
    /\ HasActive
    /\ Suspend(r, "done", None)
    /\ UNCHANGED <<kind, want, aborted, tracker, rt, purging, selection,
                   looping, loopOn, outcome>>

-----------------------------------------------------------------------------
(* Scheduled continuations. *)

\* Mutant for GateExclusive: the gate is not looked at after the preparation.
StartWithoutGate(r, a) == Track(r) /\ EnterAgent(r, a) /\ UNCHANGED <<looping, loopOn>>

\* startScheduledCallbackContinuation looks at the gate again.
StartContinuation(r, a) ==
    IF HasActive
      THEN /\ Suspend(r, "done", None)
           /\ looping' = FALSE
           /\ UNCHANGED <<tracker, loopOn>>
      ELSE /\ Track(r)
           /\ EnterAgent(r, a)
           /\ UNCHANGED <<looping, loopOn>>

EnsureForContinuation(r, k) ==
    /\ IF rt.agent = None
         THEN /\ Suspend(r, "booting", None)
              /\ UNCHANGED <<aborted, tracker, purging, looping, loopOn>>
         ELSE IF rt.key = k
         THEN /\ StartContinuation(r, rt.agent)
              /\ UNCHANGED <<aborted, purging>>
         ELSE SwapRuntime(r)
    /\ UNCHANGED rt

ContinuationFires(r) ==
    /\ Drained
    /\ phase[r] = "scheduled"
    /\ IF looping /\ ~HasActive
         THEN /\ want' = [want EXCEPT ![r] = selection]
              /\ IF rt.dirty
                   THEN /\ PurgeIdleRuntime
                        /\ Suspend(r, "dirtyClean", rt.agent)
                        /\ UNCHANGED <<aborted, tracker, rt>>
                   ELSE EnsureForContinuation(r, selection)
         ELSE /\ Suspend(r, "done", None)
              /\ looping' = FALSE
              /\ UNCHANGED <<want, aborted, tracker, rt, purging, loopOn>>
    /\ UNCHANGED <<kind, selection, outcome>>

-----------------------------------------------------------------------------
(* A runtime becomes ready. *)

\* The cleanup a preparation awaited is over.
Resume(r) ==
    /\ Pending(r)
    /\ \/ /\ phase[r] = "swapClean"
          /\ Suspend(r, "booting", None)
          /\ UNCHANGED <<aborted, tracker, rt, purging, looping, loopOn>>
       \/ /\ phase[r] = "dirtyClean"
          /\ EnsureForContinuation(r, want[r])
    /\ UNCHANGED <<kind, want, selection, outcome>>

\* initialize() of the new agent resolves: install it and start the run.
BootDone(r) ==
    /\ Drained
    /\ phase[r] = "booting"
    /\ rt' = [agent |-> r, key |-> want[r], dirty |-> FALSE]
    /\ IF kind[r] = "chat"
         THEN Track(r) /\ EnterAgent(r, r) /\ ResyncLoop /\ selection' = want[r]
         ELSE StartContinuation(r, r) /\ UNCHANGED selection
    /\ UNCHANGED <<kind, want, aborted, purging, outcome>>

\* initialize() throws: the reservation is released, the loop stopped.
BootFails(r) ==
    /\ Drained
    /\ "error" \in Env
    /\ phase[r] = "booting"
    /\ Suspend(r, "done", None)
    /\ IF kind[r] = "chat"
         THEN ClearRun(r) /\ UNCHANGED looping
         ELSE looping' = FALSE /\ UNCHANGED tracker
    /\ UNCHANGED <<kind, want, aborted, rt, purging, selection, loopOn, outcome>>

\* The history is assembled (and perhaps compressed): the turn begins.
TurnBegins(r) ==
    /\ Drained
    /\ phase[r] = "assembling"
    /\ phase' = [phase EXCEPT ![r] = "running"]
    /\ UNCHANGED <<kind, agentOf, want, aborted, tracker, rt, purging,
                   selection, looping, loopOn, outcome>>

-----------------------------------------------------------------------------
(* A run ends. *)

\* Mutant for AbortedRunsEnd: the turn does not look at its abort signal.
CanEndUnlessStopped(r, o) ==
    \/ phase[r] = "refused" /\ o = "fatal"
    \/ phase[r] = "running" /\ Drained /\ o \in {"rest", "continue"}

CanEnd(r, o) ==
    \/ phase[r] = "refused" /\ o = "fatal"
    \/ phase[r] = "assembling" /\ "error" \in Env /\ o = "fatal" /\ Drained
    \/ /\ phase[r] = "running" /\ Drained
       /\ \/ o = "rest"
          \/ o = "continue" /\ (loopOn \/ Env \cap {"loop", "marker"} # {})
          \/ o = "cancelled" /\ r \in aborted
          \/ o \in {"recoverable", "fatal"} /\ "error" \in Env

\* finalizeTrackedRun: clear the run, then clean a dirty runtime if idle.
\* A completed run has decided on its continuation before that: the loop's
\* next round, or the repair of a missing marker, which starts no loop.
RunEnds(r, o) ==
    /\ CanEnd(r, o)
    /\ outcome' = [outcome EXCEPT ![r] = o]
    /\ IF r \in tracked THEN ClearRun(r)
       ELSE canceling' = canceling \ {r} /\ UNCHANGED <<tracked, snapshot>>
    /\ LET cleans == r \in tracked /\ rt.dirty /\ tracked = {r} IN
       /\ agentOf' = [agentOf EXCEPT ![r] = IF cleans THEN rt.agent ELSE None]
       /\ purging' = IF cleans THEN purging \cup {rt.agent} ELSE purging
       /\ \/ /\ o = "continue"
             /\ \E c \in Runs \ {r} :
                  /\ phase[c] = "idle"
                  /\ phase' = [phase EXCEPT ![r] = "settling",
                                            ![c] = "scheduled"]
                  /\ kind' = [kind EXCEPT ![c] = "cont"]
             /\ \/ /\ ~cleans
                   /\ loopOn \/ "loop" \in Env
                   /\ looping' = TRUE /\ loopOn' = TRUE
                \/ cleans /\ StopLoop
                \/ "marker" \in Env /\ ~cleans /\ UNCHANGED <<looping, loopOn>>
          \/ /\ o # "continue"
             /\ phase' = [phase EXCEPT ![r] = "settling"]
             /\ looping' \in IF cleans THEN {FALSE}
                             ELSE IF o = "rest" THEN {looping, FALSE}
                             ELSE {looping}
             /\ loopOn' = (loopOn /\ ~cleans)
             /\ UNCHANGED kind
    /\ aborted' = aborted \ {r}
    /\ UNCHANGED <<want, rt, selection>>

\* After finalisation: a recoverable error may schedule a continuation, any
\* other error stops the loop.
Finish(r) ==
    /\ phase[r] = "settling"
    /\ agentOf[r] \notin purging
    /\ \/ /\ outcome[r] = "recoverable"
          /\ loopOn \/ "loop" \in Env
          /\ \E c \in Runs :
               /\ phase[c] = "idle"
               /\ phase' = [phase EXCEPT ![r] = "done", ![c] = "scheduled"]
               /\ kind' = [kind EXCEPT ![c] = "cont"]
          /\ looping' = TRUE /\ loopOn' = TRUE
       \/ /\ phase' = [phase EXCEPT ![r] = "done"]
          /\ looping' \in CASE outcome[r] = "fatal" -> {FALSE}
                            [] outcome[r] = "recoverable" -> {looping, FALSE}
                            [] OTHER -> {looping}
          /\ UNCHANGED <<kind, loopOn>>
    /\ agentOf' = [agentOf EXCEPT ![r] = None]
    /\ UNCHANGED <<want, aborted, tracker, rt, purging, selection, outcome>>

-----------------------------------------------------------------------------
(* Requests that meet the runs. *)

\* Mutant for SingleTurn: Stop forgets the runs instead of marking them.
CancelForgetsRuns ==
    /\ Drained
    /\ "cancel" \in Env
    /\ aborted' = aborted \cup RegisteredWith(rt.agent)
    /\ RemoveTrackedRuns
    /\ StopLoop
    /\ UNCHANGED <<phase, kind, agentOf, want, rt, purging, selection, outcome>>

\* The Stop button: mark the runs, abort the registered turn agents of the
\* session's agent, stop the loop.
Cancel ==
    /\ Drained
    /\ "cancel" \in Env
    /\ canceling' = canceling \cup tracked
    /\ aborted' = aborted \cup RegisteredWith(rt.agent)
    /\ StopLoop
    /\ UNCHANGED <<phase, kind, agentOf, want, tracked, snapshot, rt, purging,
                   selection, outcome>>

\* A Stop without a session that names a run which has just ended resolves to
\* no session and stops every run.
CancelAll(r) ==
    /\ Drained
    /\ "stray" \in Env
    /\ outcome[r] # "open"
    /\ canceling' = canceling \cup tracked \cup {r}
    /\ aborted' = aborted \cup RegisteredWith(rt.agent)
    /\ UNCHANGED <<phase, kind, agentOf, want, tracked, snapshot, rt, purging,
                   selection, looping, loopOn, outcome>>

\* Mutant for GateRefinement: the runtime of an active session is cleaned too.
ReloadEvenIfActive ==
    /\ Drained
    /\ "reload" \in Env
    /\ rt.agent # None
    /\ RemoveTrackedRuns
    /\ PurgeIdleRuntime
    /\ UNCHANGED <<phase, kind, agentOf, want, aborted, rt, selection, outcome>>

\* Settings saved: an active session's runtime is marked, an idle one cleaned.
ConfigReload ==
    /\ Drained
    /\ "reload" \in Env
    /\ rt.agent # None
    /\ IF HasActive
         THEN rt' = [rt EXCEPT !.dirty = TRUE] /\ UNCHANGED <<purging, looping, loopOn>>
         ELSE PurgeIdleRuntime /\ UNCHANGED rt
    /\ UNCHANGED <<phase, kind, agentOf, want, aborted, tracker, selection, outcome>>

\* DELETE /api/sessions/:id.
DeleteSession ==
    /\ Drained
    /\ "delete" \in Env
    /\ rt.agent # None
    /\ aborted' = aborted \cup RegisteredWith(rt.agent)
    /\ RemoveTrackedRuns
    /\ PurgeIdleRuntime
    /\ UNCHANGED <<phase, kind, agentOf, want, rt, selection, outcome>>

\* The saved model selection, and with it the runtime key, changes.
SwitchSelection ==
    /\ Drained
    /\ "switch" \in Env
    /\ selection' \in Keys \ {selection}
    /\ UNCHANGED <<phase, kind, agentOf, want, aborted, tracker, rt, purging,
                   looping, loopOn, outcome>>

-----------------------------------------------------------------------------
RunStep(r) == \/ ChatArrives(r) \/ WaitEnds(r) \/ WaitTimesOut(r)
              \/ ContinuationFires(r) \/ Resume(r)
              \/ BootDone(r) \/ BootFails(r) \/ TurnBegins(r)
              \/ \E o \in Outcomes : RunEnds(r, o)
              \/ Finish(r)

Next == \/ \E r \in Runs : RunStep(r) \/ PurgeDone(r) \/ CancelAll(r)
        \/ Cancel \/ ConfigReload \/ DeleteSession \/ SwitchSelection

Spec == Init /\ [][Next]_vars

\* What does end by itself: promises, timers, the ten-second wait, and an
\* agent turn whose abort signal is set.  An agent turn that nobody aborts
\* may wait for its user, so its end is not assumed.
Progress(r) == \/ WaitEnds(r) \/ WaitTimesOut(r)
               \/ ContinuationFires(r) \/ Resume(r)
               \/ BootDone(r) \/ BootFails(r) \/ TurnBegins(r)
               \/ RunEnds(r, "cancelled") \/ Finish(r)
               \/ phase[r] = "refused" /\ RunEnds(r, "fatal")

Fairness == \A r \in Runs : WF_vars(Progress(r)) /\ WF_vars(PurgeDone(r))

FairSpec == Spec /\ Fairness

-----------------------------------------------------------------------------
(* Properties. *)

\* The session has at most one active run (doc/spec/protocols/
\* web-session-ownership-protocol.md): preparations and continuations that
\* are suspended at their awaits never let a second run through the gate.
GateExclusive == \A p, q \in tracked : p = q

\* Whatever holds the gate is a run that is still on its way to, or inside,
\* an agent, so it will be finalised: no dead run keeps refusing the user's
\* messages with "already has an active run".
NoGhostHolder == \A r \in tracked : phase[r] \in Live

\* The run the session shows is a run that holds the gate: finalising,
\* replacing or forgetting runs in any order leaves no stale snapshot.
SnapshotIsTracked == snapshot # None => snapshot \in tracked

\* Both: what the tracker says of the gate is true of a run that will end.
GateIsBacked == NoGhostHolder /\ SnapshotIsTracked

\* While something holds the gate the session shows it, so the composer
\* offers Stop and the queue: an older run's end never hides a newer run.
HolderIsShown == tracked # {} => snapshot \in tracked

\* A canceling mark dies with its run; a mark left behind would make every
\* later chat message wait ten seconds.
CancelingIsTracked == canceling \subseteq tracked

\* Two agent turns never work on the session's history at the same time.
SingleTurn ==
    \A p, q \in Runs : phase[p] \in OnAgent /\ phase[q] \in OnAgent => p = q

\* A turn whose abort signal is set ends, and its run is finalised.
AbortedRunsEnd == \A r \in Runs : r \in aborted ~> phase[r] = "done"

\* A chat message that waits for the canceled run gets an answer: its run
\* starts, or it is told to try again.
WaitersAnswered ==
    \A r \in Runs : phase[r] = "waiting" ~> phase[r] # "waiting"
-----------------------------------------------------------------------------
(* What the gate promises. *)

\* A run that has ended, or was turned away, has had its chance.
Retired == {r \in Runs : phase[r] \in {"settling", "done"}}

Gate == INSTANCE SessionGate
          WITH holder <- IF HasActive THEN snapshot ELSE None, retired <- Retired

\* The tracker implements a lock: a run takes it when nobody holds it, keeps
\* it until it ends, and never comes back.  No reload, Stop, failed start or
\* stale continuation hands the gate over while its holder is still at work.
GateRefinement == Gate!Spec
=============================================================================
