---------------------------- MODULE ContextStore ----------------------------
(***************************************************************************)
(* The durable history of one context: the events file that committed      *)
(* turns are appended to, and the files that keep an unfinished turn       *)
(* recoverable (draft, replay checkpoints, interrupted artifact, ledger of *)
(* side effects).  The process may die between any two file operations.    *)
(*                                                                         *)
(* The server has one thread: the code between two awaits is one action.   *)
(* It changes memory at once and leaves its file operations, in order, in  *)
(* script; until they are done, nothing but a crash can happen.            *)
(*                                                                         *)
(* A turn is a sequence of tool steps, grouped in batches: the tool calls  *)
(* of one model answer.  Messages are abstracted to the number of steps    *)
(* they cover, buffered context patches to their number.                   *)
(***************************************************************************)
EXTENDS Integers, Sequences, FiniteSets

CONSTANTS
    Turns,      \* agent turns in this context, one at a time
    None,       \* no file, no checkpoint, no turn
    Env,        \* what may happen: "crash", "torn", "late"
    MaxSteps,   \* tool steps of a turn in this instance
    MaxAllSteps,\* tool steps of all turns together in this instance
    MaxPatches, \* context patches of a turn in this instance
    MaxWrites   \* writes from outside the turns in this instance

Hazards == {"crash", "torn", "late"}

ASSUME BoundsAssumption ==
    /\ MaxSteps \in Nat
    /\ MaxAllSteps \in Nat
    /\ MaxPatches \in Nat
    /\ MaxWrites \in Nat
    /\ None \notin Turns
    /\ Env \subseteq Hazards

VARIABLES
    log,         \* events.jsonl: one entry per appended group of events
    draft,       \* interrupted-draft.json
    checkpoints, \* interrupted-draft-checkpoints.jsonl
    artifact,    \* interrupted-artifact.json
    ledger,      \* interrupted-side-effects.json
    script,      \* file operations the running code still has to do
    phase,       \* where the code of each turn is
    base,        \* eventSequenceBase of a pending turn
    draftId,     \* the draft a turn works on, named after its first turn
    seen,        \* what recovery state the turn found when it started
    steps,       \* tool results in the turn's messages
    sealed,      \* steps covered by the newest replay checkpoint of the turn
    patches,     \* context patches buffered in the pending turn
    queued,      \* checkpoint waiting in ReplayCheckpointCoordinator
    timers,      \* turns with a pending setImmediate
    pending,     \* pendingTurns of ContextManager
    excused,     \* history: side effects cleared by a completed turn, or lost
                 \* when a crash cut the file of the ledger
    refused      \* history: interrupted turns whose commit met a conflict

disk == <<log, draft, checkpoints, artifact, ledger>>
turnVars == <<base, draftId, seen, steps, sealed, patches>>
coordinator == <<queued, timers, pending>>
vars == <<disk, script, phase, turnVars, coordinator, excused, refused>>

Ended == {"idle", "done", "crashed"}
Live == {"thinking", "tool", "batch"}
Phases == Ended \cup Live \cup {"assembling", "ending"}

Steps == 1..MaxSteps
Effects == Turns \X Steps
Groups == [turn : Turns \cup {None}, kind : {"complete", "interrupted", "write"},
           upto : 0..MaxSteps, patches : 0..MaxPatches, end : {"whole", "cut", "torn"}]
Drafts == [turn : Turns, id : Turns]
Checkpoints == [turn : Turns, id : Turns, upto : 0..MaxSteps, patches : 0..MaxPatches]
Artifacts == [turn : Turns, id : Turns, committed : BOOLEAN]
Ops == [op : {"append"}, group : Groups]
         \cup [op : {"draft"}, draft : Drafts]
         \cup [op : {"checkpoint"}, checkpoint : Checkpoints]
         \cup [op : {"artifact"}, artifact : Artifacts]
         \cup [op : {"ledger"}, effects : SUBSET Effects]
         \cup [op : {"rmDraft", "rmCheckpoints", "rmArtifact", "rmLedger"}]

\* No file and no checkpoint is mistaken for one (null in the code).
ASSUME NoneAssumption == None \notin Drafts \cup Checkpoints

TypeOK ==
    /\ log \in Seq(Groups)
    /\ draft \in Drafts \cup {None}
    /\ checkpoints \in Seq(Checkpoints)
    /\ artifact \in Artifacts \cup {None}
    /\ ledger \subseteq Effects
    /\ script \in Seq(Ops)
    /\ phase \in [Turns -> Phases]
    /\ base \in [Turns -> Nat]
    /\ draftId \in [Turns -> Turns]
    /\ seen \in [Turns -> [artifact : BOOLEAN, ledger : BOOLEAN]]
    /\ steps \in [Turns -> 0..MaxSteps]
    /\ sealed \in [Turns -> 0..MaxSteps]
    /\ patches \in [Turns -> 0..MaxPatches]
    /\ queued \in [Turns -> Checkpoints \cup {None}]
    /\ timers \subseteq Turns
    /\ pending \subseteq Turns
    /\ excused \subseteq Effects
    /\ refused \subseteq Turns

Init ==
    /\ log = <<>>
    /\ draft = None
    /\ checkpoints = <<>>
    /\ artifact = None
    /\ ledger = {}
    /\ script = <<>>
    /\ phase = [t \in Turns |-> "idle"]
    /\ base = [t \in Turns |-> 0]
    /\ draftId = [t \in Turns |-> t]
    /\ seen = [t \in Turns |-> [artifact |-> FALSE, ledger |-> FALSE]]
    /\ steps = [t \in Turns |-> 0]
    /\ sealed = [t \in Turns |-> 0]
    /\ patches = [t \in Turns |-> 0]
    /\ queued = [t \in Turns |-> None]
    /\ timers = {}
    /\ pending = {}
    /\ excused = {}
    /\ refused = {}

-----------------------------------------------------------------------------
(* The files. *)

Settled == script = <<>>

\* readEvents skips a malformed line, countEventsFromFile counts it; every
\* other line counts for both, so a group counts one whatever its length.
TornGroups == {i \in DOMAIN log : log[i].end = "torn"}
ReadCount == Len(log)
FileCount == Len(log) + Cardinality(TornGroups)

\* Mutant for NothingFabricated: the lines of an older turn that worked on
\* the same draft are taken for this turn's.
LatestOfDraft ==
    LET lines == {k \in DOMAIN checkpoints : checkpoints[k].id = draft.id} IN
      IF lines = {} THEN None
      ELSE checkpoints[CHOOSE k \in lines : \A j \in lines : j <= k]

\* readLatestDraftCheckpoint: the last line of the turn the draft is about.
LatestCheckpoint ==
    LET lines == {k \in DOMAIN checkpoints :
                    /\ checkpoints[k].id = draft.id
                    /\ checkpoints[k].turn = draft.turn} IN
      IF lines = {} THEN None
      ELSE checkpoints[CHOOSE k \in lines : \A j \in lines : j <= k]

\* Mutant for SideEffectsRecorded: the ledger is overwritten.
LedgerReplaced(effects) == effects

LedgerMerged(effects) == ledger \cup effects

Perform(o) ==
    /\ log' = IF o.op = "append" THEN Append(log, o.group) ELSE log
    /\ draft' = CASE o.op = "draft" -> o.draft
                  [] o.op = "rmDraft" -> None
                  [] OTHER -> draft
    /\ checkpoints' = CASE o.op = "checkpoint" -> Append(checkpoints, o.checkpoint)
                        [] o.op = "rmCheckpoints" -> <<>>
                        [] OTHER -> checkpoints
    /\ artifact' = CASE o.op = "artifact" -> o.artifact
                     [] o.op = "rmArtifact" -> None
                     [] OTHER -> artifact
    /\ ledger' = CASE o.op = "ledger" -> LedgerMerged(o.effects)
                   [] o.op = "rmLedger" -> {}
                   [] OTHER -> ledger

DiskStep ==
    /\ ~Settled
    /\ Perform(Head(script))
    /\ script' = Tail(script)
    /\ phase' = [t \in Turns |->
                   IF phase[t] = "ending" /\ Len(script) = 1 THEN "done" ELSE phase[t]]
    /\ excused' = IF Head(script).op = "rmLedger"
                       THEN excused \cup ledger ELSE excused
    /\ UNCHANGED <<turnVars, coordinator, refused>>

ClearDraft == <<[op |-> "rmDraft"], [op |-> "rmCheckpoints"]>>

-----------------------------------------------------------------------------
(* A turn begins. *)

\* runWithResult up to the assembly of the replay: the lease is taken, and
\* the artifact and the ledger of an interrupted turn are read.
Start(t) ==
    /\ Settled
    /\ phase[t] = "idle"
    /\ \A u \in Turns : phase[u] \in Ended
    /\ phase' = [phase EXCEPT ![t] = "assembling"]
    /\ draftId' = [draftId EXCEPT ![t] = IF artifact = None THEN t ELSE artifact.id]
    /\ seen' = [seen EXCEPT ![t] = [artifact |-> artifact # None, ledger |-> ledger # {}]]
    /\ UNCHANGED <<disk, script, base, steps, sealed, patches, coordinator,
                   excused, refused>>

\* The assembly (a compression, for instance) throws: there is no turn.
AssemblyFails(t) ==
    /\ Settled
    /\ phase[t] = "assembling"
    /\ phase' = [phase EXCEPT ![t] = "done"]
    /\ UNCHANGED <<disk, script, turnVars, coordinator, excused, refused>>

BeginTurn(t) ==
    /\ Settled
    /\ phase[t] = "assembling"
    /\ phase' = [phase EXCEPT ![t] = "thinking"]
    /\ base' = [base EXCEPT ![t] = ReadCount]
    /\ pending' = pending \cup {t}
    /\ script' = <<[op |-> "draft", draft |-> [turn |-> t, id |-> draftId[t]]]>>
    /\ UNCHANGED <<disk, draftId, seen, steps, sealed, patches, queued, timers,
                   excused, refused>>

-----------------------------------------------------------------------------
(* The end of a turn, as its handlers share it. *)

\* flushTurn refuses to append to a draft that is not the turn's.  In the model
\* the draft is never another's; outside it, somebody may touch the files.
Flushable(t) ==
    queued[t] # None =>
      /\ draft # None
      /\ draft.turn = t
      /\ draft.id = queued[t].id

FlushOps(t) ==
    IF queued[t] = None THEN <<>>
    ELSE <<[op |-> "checkpoint", checkpoint |-> queued[t]]>>

Flushed(t) ==
    /\ queued' = [queued EXCEPT ![t] = None]
    /\ timers' = timers \ {t}

\* Mutant for HistoryRefinement: appendEvents does not compare the counts.
NeverConflicts(t) == FALSE

Conflict(t) == FileCount # base[t]

Ends(t, ops) ==
    /\ script' = ops
    /\ phase' = [phase EXCEPT ![t] = IF ops = <<>> THEN "done" ELSE "ending"]

\* finalizeInterruptedRun throws out of the catch block: the pending turn, its
\* draft and its checkpoints stay, and no artifact is written.
GivesUp(t) ==
    /\ IF Flushable(t)
       THEN Ends(t, FlushOps(t)) /\ Flushed(t)
       ELSE Ends(t, <<>>) /\ UNCHANGED <<queued, timers>>
    /\ UNCHANGED pending

\* The checkpoint an interrupted turn falls back to, once it is flushed.
SafePoint(t) ==
    IF queued[t] # None THEN queued[t]
    ELSE IF draft # None /\ draft.turn = t THEN LatestCheckpoint
    ELSE None

Entry(t, kind, n) ==
    [op |-> "append",
     group |-> [turn |-> t, kind |-> kind, upto |-> n,
                patches |-> patches[t], end |-> "whole"]]

\* Mutant for ArtifactIsProven: the artifact is written before the events.
ArtifactFirst(t, kept, entry, effects) ==
    <<[op |-> "artifact",
       artifact |-> [turn |-> t, id |-> draftId[t], committed |-> kept # None]]>>
      \o entry
      \o ClearDraft
      \o (IF effects = {} THEN <<>> ELSE <<[op |-> "ledger", effects |-> effects]>>)
      \o ClearDraft

\* finalizeInterruptedTurn, in the order of its file operations.
InterruptOps(t, kept, entry, effects) ==
    entry
      \o ClearDraft
      \o <<[op |-> "artifact",
            artifact |-> [turn |-> t, id |-> draftId[t], committed |-> kept # None]]>>
      \o (IF effects = {} THEN <<>> ELSE <<[op |-> "ledger", effects |-> effects]>>)
      \o ClearDraft

\* Steps up to the checkpoint and all patches are committed as an interrupted
\* turn; later steps go to the ledger.  Without checkpoint and patches the
\* turn is aborted and all its steps go to the ledger.
Finalize(t) ==
    LET kept == SafePoint(t)
        commits == kept # None \/ patches[t] > 0
        n == IF kept = None THEN 0 ELSE kept.upto
        effects == {t} \X ((n + 1)..steps[t])
        entry == IF commits THEN <<Entry(t, "interrupted", n)>> ELSE <<>>
    IN IF commits /\ Conflict(t)
       THEN GivesUp(t) /\ refused' = refused \cup {t}
       ELSE /\ UNCHANGED refused
            /\ Ends(t, FlushOps(t) \o InterruptOps(t, kept, entry, effects))
            /\ Flushed(t)
            /\ pending' = pending \ {t}

-----------------------------------------------------------------------------
(* A turn at work. *)

\* The bound of the instance: one turn has patches.
AnotherPatch(t) ==
    /\ patches[t] < MaxPatches
    /\ \A u \in Turns \ {t} : patches[u] = 0

\* A tool of the turn, or a sub-agent of it, patches the context.
RecordPatch(t) ==
    /\ Settled
    /\ t \in pending
    /\ AnotherPatch(t)
    /\ patches' = [patches EXCEPT ![t] = @ + 1]
    /\ UNCHANGED <<disk, script, phase, base, draftId, seen, steps, sealed,
                   coordinator, excused, refused>>

\* The bound of the instance.
AnotherStep(t) ==
    /\ steps[t] < MaxSteps
    /\ Cardinality(UNION {{u} \X (1..steps[u]) : u \in Turns}) < MaxAllSteps

\* Mutant for DurableBeforeTools: the checkpoint is left to its timer.
ToolWithoutFlush(t) ==
    /\ Settled
    /\ phase[t] \in {"thinking", "batch"}
    /\ AnotherStep(t)
    /\ phase' = [phase EXCEPT ![t] = "tool"]
    /\ UNCHANGED <<disk, script, turnVars, coordinator, excused, refused>>

\* onBeforeToolExecution flushes the checkpoint; if it cannot, the run fails.
BeforeTool(t) ==
    /\ Settled
    /\ phase[t] \in {"thinking", "batch"}
    /\ AnotherStep(t)
    /\ IF Flushable(t)
       THEN /\ script' = FlushOps(t)
            /\ Flushed(t)
            /\ phase' = [phase EXCEPT ![t] = "tool"]
            /\ UNCHANGED pending
       ELSE GivesUp(t)
    /\ UNCHANGED <<disk, turnVars, excused, refused>>

ToolDone(t) ==
    /\ Settled
    /\ phase[t] = "tool"
    /\ phase' = [phase EXCEPT ![t] = "batch"]
    /\ steps' = [steps EXCEPT ![t] = @ + 1]
    /\ UNCHANGED <<disk, script, base, draftId, seen, sealed, patches, coordinator,
                   excused, refused>>

\* onReplayCheckpoint after the last tool of a batch.
EndBatch(t) ==
    /\ Settled
    /\ phase[t] = "batch"
    /\ phase' = [phase EXCEPT ![t] = "thinking"]
    /\ sealed' = [sealed EXCEPT ![t] = steps[t]]
    /\ queued' = [queued EXCEPT ![t] =
                    [turn |-> t, id |-> IF draft = None THEN draftId[t] ELSE draft.id,
                     upto |-> steps[t], patches |-> patches[t]]]
    /\ timers' = timers \cup {t}
    /\ UNCHANGED <<disk, script, base, draftId, seen, steps, patches, pending,
                   excused, refused>>

\* The setImmediate of a queued checkpoint.
TimerFires(t) ==
    /\ Settled
    /\ t \in timers
    /\ IF Flushable(t)
       THEN script' = FlushOps(t) /\ Flushed(t)
       ELSE timers' = timers \ {t} /\ UNCHANGED <<script, queued>>
    /\ UNCHANGED <<disk, phase, turnVars, pending, excused, refused>>

\* A completed turn has recovered what it found when it started.
RecoveryCleared(t) ==
    (IF seen[t].artifact THEN <<[op |-> "rmArtifact"]>> ELSE <<>>)
      \o (IF seen[t].ledger THEN <<[op |-> "rmLedger"]>> ELSE <<>>)

\* The agent returns: commitTurn, and the recovery state is cleared.  If the
\* commit throws, the turn is finalised as interrupted.
Complete(t) ==
    /\ Settled
    /\ phase[t] = "thinking"
    /\ IF ~Flushable(t) THEN GivesUp(t) /\ UNCHANGED refused
       ELSE IF Conflict(t) THEN Finalize(t)
       ELSE /\ UNCHANGED refused
            /\ Ends(t, FlushOps(t) \o <<Entry(t, "complete", steps[t])>>
                         \o ClearDraft \o RecoveryCleared(t))
            /\ Flushed(t)
            /\ pending' = pending \ {t}
    /\ UNCHANGED <<disk, turnVars, excused>>

\* The agent was stopped, or the model or a tool failed for good.
Interrupt(t) ==
    /\ Settled
    /\ phase[t] \in Live
    /\ IF Flushable(t) THEN Finalize(t) ELSE GivesUp(t) /\ UNCHANGED refused
    /\ UNCHANGED <<disk, turnVars, excused>>

-----------------------------------------------------------------------------
(* The environment. *)

Writes == {i \in DOMAIN log : log[i].turn = None}

\* writeNow from outside the turn: a sub-agent of an earlier turn settles, or
\* a turn of another context patches this one.
LateWrite ==
    /\ Settled
    /\ "late" \in Env
    /\ Cardinality(Writes) < MaxWrites
    /\ script' = <<[op |-> "append",
                    group |-> [turn |-> None, kind |-> "write", upto |-> 0,
                               patches |-> 0, end |-> "whole"]]>>
    /\ UNCHANGED <<disk, phase, turnVars, coordinator, excused, refused>>

\* What a write that the crash cut short leaves: some of the group's lines,
\* the last one torn or not; a JSON file that no longer parses.
CutShort(o) ==
    /\ \/ /\ o.op = "append"
          /\ \E end \in {"cut", "torn"} : log' = Append(log, [o.group EXCEPT !.end = end])
       \/ o.op # "append" /\ UNCHANGED log
    /\ draft' = IF o.op = "draft" THEN None ELSE draft
    /\ artifact' = IF o.op = "artifact" THEN None ELSE artifact
    /\ IF o.op = "ledger"
       THEN ledger' = {} /\ excused' = excused \cup ledger
       ELSE UNCHANGED <<ledger, excused>>
    /\ UNCHANGED checkpoints

Crash ==
    /\ "crash" \in Env
    /\ ~Settled \/ \E t \in Turns : phase[t] \notin Ended
    /\ \/ UNCHANGED <<disk, excused>>
       \/ "torn" \in Env /\ ~Settled /\ CutShort(Head(script))
    /\ script' = <<>>
    /\ phase' = [t \in Turns |-> IF phase[t] \in Ended THEN phase[t] ELSE "crashed"]
    /\ queued' = [t \in Turns |-> None]
    /\ timers' = {}
    /\ pending' = {}
    /\ UNCHANGED <<turnVars, refused>>

-----------------------------------------------------------------------------
Next ==
    \/ \E t \in Turns :
         \/ Start(t) \/ AssemblyFails(t) \/ BeginTurn(t)
         \/ RecordPatch(t) \/ BeforeTool(t) \/ ToolDone(t) \/ EndBatch(t)
         \/ TimerFires(t) \/ Complete(t) \/ Interrupt(t)
    \/ DiskStep
    \/ LateWrite
    \/ Crash

Spec == Init /\ [][Next]_vars

-----------------------------------------------------------------------------
(* Safety. *)

EntriesOf(t, kind) == {i \in DOMAIN log : log[i].turn = t /\ log[i].kind = kind}

\* A turn whose entry may still be added to the history.
Open(t) ==
    \/ phase[t] \in Live
    \/ /\ phase[t] = "ending"
       /\ \E i \in DOMAIN script : script[i].op = "append"

Shut == -1

TH == INSTANCE TurnHistory
        WITH history <- [i \in DOMAIN log |-> log[i].turn],
             open <- [t \in Turns |-> IF Open(t) THEN base[t] ELSE Shut]

\* The events file implements TurnHistory: it only grows, and the entry of a
\* turn is added only if nothing was added since beginTurn counted it
\* (expectedEventCount of appendEvents), whatever dies in between.
HistoryRefinement == TH!Spec

\* No entry claims more than its own turn did: the checkpoint an interrupted
\* turn is committed up to is one of its own, also when it works on the draft
\* and the checkpoint file that another turn left (readLatestDraftCheckpoint).
NothingFabricated ==
    \A i \in DOMAIN log :
      LET t == log[i].turn IN
      t # None =>
        /\ log[i].upto <= steps[t]
        /\ log[i].patches <= patches[t]

\* While a tool runs, everything earlier batches did is on disk, where
\* finalizeInterruptedTurn would find it (onBeforeToolExecution flushes).
DurableBeforeTools ==
    \A t \in Turns :
      (Settled /\ phase[t] = "tool" /\ sealed[t] > 0) =>
        /\ draft # None
        /\ draft.turn = t
        /\ LatestCheckpoint # None
        /\ LatestCheckpoint.upto = sealed[t]

\* An artifact that tells of a committed checkpoint is backed by the events of
\* its turn, whenever the process dies (the order in finalizeInterruptedTurn).
ArtifactIsProven ==
    (artifact # None /\ artifact.committed) =>
      \E i \in EntriesOf(artifact.turn, "interrupted") : log[i].end = "whole"

Committed(t, n) ==
    \E i \in DOMAIN log : log[i].turn = t /\ n <= log[i].upto

Explicit(t, n) ==
    <<t, n>> \in ledger \cup excused \/ Committed(t, n)

\* Every tool result of a turn that ended in a live process is in the history
\* or in the ledger until a completed turn clears it, unless the interrupted
\* turn could not be committed.
SideEffectsRecorded ==
    \A t \in Turns :
      (Settled /\ phase[t] = "done" /\ t \notin refused) =>
        \A n \in 1..steps[t] : Explicit(t, n)
=============================================================================
