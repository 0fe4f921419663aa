---------------------------- MODULE RunningInput ----------------------------
(***************************************************************************)
(* The running-input queue of one session on top of its runs: prompts sent *)
(* while a run is active wait in a memory-only queue; one may be inserted  *)
(* into the active turn at a checkpoint, the others become turns of their  *)
(* own, started by a 500 ms timer that looks at the gate when it fires.    *)
(*                                                                         *)
(* Items are numbered in the order in which they are sent.                 *)
(***************************************************************************)
EXTENDS SessionRuns, SequencesExt

CONSTANT MaxItems  \* how many prompts are queued in this instance

ASSUME MaxItemsAssumption == MaxItems \in Nat

VARIABLES
    queue,     \* itemsByContext of RunningInputQueueCoordinator
    held,      \* the dequeued item a run is the turn of, 0 if none
    polls,     \* pending next-turn timers
    online,    \* some browser socket is open
    sent,      \* how many items were enqueued
    discarded, \* items the user removed
    served     \* how often an item reached the agent, or had its turn

queueVars == <<queue, held, polls, online, sent, discarded, served>>
allVars == <<vars, queueVars>>

Items == 1..MaxItems
Entries == [item : Items, run : Runs, insert : BOOLEAN]

QTypeOK ==
    /\ queue \in Seq(Entries)
    /\ held \in [Runs -> Items \cup {0}]
    /\ polls \in Nat
    /\ online \in BOOLEAN
    /\ sent \in 0..MaxItems
    /\ discarded \subseteq Items
    /\ served \in [Items -> Nat]

QInit ==
    /\ Init
    /\ queue = <<>>
    /\ held = [r \in Runs |-> 0]
    /\ polls = 0
    /\ online = TRUE
    /\ sent = 0
    /\ discarded = {}
    /\ served = [i \in Items |-> 0]

-----------------------------------------------------------------------------
(* The operations of RunningInputQueueCoordinator on the session's queue. *)

Entry(i, r) == [item |-> i, run |-> r, insert |-> FALSE]

Queued(q) == \E k \in DOMAIN q : ~q[k].insert

FirstQueued == SelectInSeq(queue, LAMBDA e : ~e.insert)

InsertRequested(k, r) == [queue EXCEPT ![k].run = r, ![k].insert = TRUE]

FirstInsertFor(r) == SelectInSeq(queue, LAMBDA e : e.insert /\ e.run = r)

\* Mutant for QueueIsOrderly: an ending run keeps its insert requests.
NothingReleasedBy(r) == queue

InsertsReleasedBy(r) ==
    [k \in DOMAIN queue |-> [queue[k] EXCEPT !.insert = @ /\ queue[k].run # r]]

Requeued(i, r) == <<Entry(i, r)>> \o queue

-----------------------------------------------------------------------------
(* The browser's messages and the agent's checkpoint. *)

\* The active run accepts input: it is shown and is not being canceled.
Mutable == snapshot # None /\ snapshot \notin canceling

Serve(i) == served' = [served EXCEPT ![i] = @ + 1]

Enqueue ==
    /\ Drained
    /\ sent < MaxItems
    /\ Mutable
    /\ sent' = sent + 1
    /\ queue' = Append(queue, Entry(sent + 1, snapshot))
    /\ UNCHANGED <<vars, held, polls, online, discarded, served>>

\* The Insert button binds a queued item to the active run.
RequestInsert(k) ==
    /\ Drained
    /\ Mutable
    /\ ~queue[k].insert
    /\ queue' = InsertRequested(k, snapshot)
    /\ UNCHANGED <<vars, held, polls, online, sent, discarded, served>>

\* The Edit and Cancel buttons of an item remove it.
Discard(k) ==
    /\ Drained
    /\ discarded' = discarded \cup {queue[k].item}
    /\ queue' = RemoveAt(queue, k)
    /\ UNCHANGED <<vars, held, polls, online, sent, served>>

\* The agent's checkpoint after a batch of tool results.  The abort signal
\* is not looked at again between the last tool and the checkpoint.
ConsumeInsert(r) ==
    /\ Drained
    /\ phase[r] = "running"
    /\ LET k == FirstInsertFor(r) IN
       /\ k # 0
       /\ Serve(queue[k].item)
       /\ queue' = RemoveAt(queue, k)
    /\ UNCHANGED <<vars, held, polls, online, sent, discarded>>

-----------------------------------------------------------------------------
\* Mutant for QueueIsServed: no timer is started after the run.
FinishWithoutTimer(r) ==
    /\ Finish(r)
    /\ queue' = InsertsReleasedBy(r)
    /\ IF held[r] # 0 THEN Serve(held[r]) ELSE UNCHANGED served
    /\ held' = [held EXCEPT ![r] = 0]
    /\ UNCHANGED <<polls, online, sent, discarded>>

\* afterFinalizeTrackedRun: insert requests of the run are released; a run
\* that completed without planning a continuation starts a next-turn timer.
FinishAndRelease(r) ==
    /\ Finish(r)
    /\ queue' = InsertsReleasedBy(r)
    /\ polls' = IF outcome[r] = "rest" /\ Queued(queue') THEN polls + 1 ELSE polls
    /\ IF held[r] # 0 THEN Serve(held[r]) ELSE UNCHANGED served
    /\ held' = [held EXCEPT ![r] = 0]
    /\ UNCHANGED <<online, sent, discarded>>

\* Mutant for EachItemOnce: the item of the failed turn is dropped.
BootFailsAndDrops(r) ==
    /\ BootFails(r)
    /\ held' = [held EXCEPT ![r] = 0]
    /\ UNCHANGED <<queue, polls, online, sent, discarded, served>>

\* The preparation of a next turn throws: its item returns to the front, and
\* nothing starts a timer again.
BootFailsAndRequeue(r) ==
    /\ BootFails(r)
    /\ queue' = IF held[r] = 0 THEN queue ELSE Requeued(held[r], r)
    /\ held' = [held EXCEPT ![r] = 0]
    /\ UNCHANGED <<polls, online, sent, discarded, served>>

\* A next-turn timer fires while no browser is open or a run is active.
PollAgain ==
    /\ Drained
    /\ polls > 0
    /\ ~online \/ HasActive
    /\ polls' = IF Queued(queue) THEN polls ELSE polls - 1
    /\ UNCHANGED <<vars, queue, held, online, sent, discarded, served>>

PollFindsNothing ==
    /\ Drained
    /\ polls > 0
    /\ online /\ ~HasActive
    /\ ~Queued(queue)
    /\ polls' = polls - 1
    /\ UNCHANGED <<vars, queue, held, online, sent, discarded, served>>

\* The timer takes the first queued item and prepares a chat run for it.
PollStartsTurn(r) ==
    /\ polls > 0
    /\ online /\ ~HasActive
    /\ Queued(queue)
    /\ ChatArrives(r)
    /\ held' = [held EXCEPT ![r] = queue[FirstQueued].item]
    /\ queue' = RemoveAt(queue, FirstQueued)
    /\ polls' = polls - 1
    /\ UNCHANGED <<online, sent, discarded, served>>

\* The preparation is refused before the gate: back to the front.
PollIsRefused ==
    /\ Drained
    /\ "invalid" \in Env
    /\ polls > 0
    /\ online /\ ~HasActive
    /\ Queued(queue)
    /\ LET e == queue[FirstQueued] IN
         queue' = <<e>> \o RemoveAt(queue, FirstQueued)
    /\ polls' = polls - 1
    /\ UNCHANGED <<vars, held, online, sent, discarded, served>>

Connectivity ==
    /\ Drained
    /\ "offline" \in Env
    /\ online' = ~online
    /\ UNCHANGED <<vars, queue, held, polls, sent, discarded, served>>

-----------------------------------------------------------------------------
\* The other steps of the runs leave the queue alone.
OtherRunStep ==
    /\ \/ \E r \in Runs :
            \/ ChatArrives(r) \/ WaitEnds(r) \/ WaitTimesOut(r)
            \/ ContinuationFires(r) \/ Resume(r) \/ BootDone(r) \/ TurnBegins(r)
            \/ \E o \in Outcomes : RunEnds(r, o)
            \/ PurgeDone(r) \/ CancelAll(r)
       \/ Cancel \/ ConfigReload \/ DeleteSession \/ SwitchSelection
    /\ UNCHANGED queueVars

Poll == \/ PollAgain \/ PollFindsNothing \/ PollIsRefused
        \/ \E r \in Runs : PollStartsTurn(r)

QNext ==
    \/ Enqueue
    \/ \E k \in DOMAIN queue : RequestInsert(k) \/ Discard(k)
    \/ \E r \in Runs : ConsumeInsert(r) \/ FinishAndRelease(r) \/ BootFailsAndRequeue(r)
    \/ Poll
    \/ Connectivity
    \/ OtherRunStep

QSpec == QInit /\ [][QNext]_allVars

\* Timers fire, promises settle, and the model answers: a turn ends.
QFairness ==
    /\ WF_allVars(Poll)
    /\ \A r \in Runs :
         /\ WF_allVars(FinishAndRelease(r))
         /\ WF_allVars(PurgeDone(r) /\ UNCHANGED queueVars)
         /\ WF_allVars((Resume(r) \/ BootDone(r) \/ TurnBegins(r)
                          \/ ContinuationFires(r)
                          \/ \E o \in Outcomes : RunEnds(r, o))
                         /\ UNCHANGED queueVars)

QFairSpec == QSpec /\ QFairness

-----------------------------------------------------------------------------
(* Properties. *)

Waiting(i) == \E k \in DOMAIN queue : queue[k].item = i

\* No queued prompt is lost or doubled on its way between the queue, the turn
\* being prepared for it, the active turn and the user's own removal.
EachItemOnce ==
    \A i \in 1..sent :
      Cardinality({k \in DOMAIN queue : queue[k].item = i})
        + Cardinality({r \in Runs : held[r] = i})
        + served[i] + (IF i \in discarded THEN 1 ELSE 0) = 1

\* A prompt whose turn has begun was sent before every prompt that still waits.
FifoTurns ==
    \A r \in Runs : held[r] # 0 =>
      \A k \in DOMAIN queue : queue[k].item > held[r]

\* An insert request is bound to a run that will still reach a checkpoint or
\* release it, so the item cannot be stuck behind a dead run.
InsertsAreReleasable ==
    \A k \in DOMAIN queue :
      queue[k].insert => phase[queue[k].run] \notin {"idle", "done"}

\* Both: the order in which prompts were sent is the order in which they get
\* turns, and none is kept out of this order by a run that has ended.
QueueIsOrderly == FifoTurns /\ InsertsAreReleasable

\* A prompt in the queue becomes a turn, is inserted or is removed, as long as
\* this instance has run ids left.
QueueIsServed ==
    \A i \in Items :
      Waiting(i) ~> (~Waiting(i) \/ \A r \in Runs : phase[r] # "idle")
=============================================================================
