----------------------------- MODULE SubAgents -----------------------------
(***************************************************************************)
(* The sub-agent manager of one process: sub-agents of several parent      *)
(* contexts, their task queues, the executions that run them, the callers  *)
(* that wait for results, the registry file and what is published in the   *)
(* context of the parent.                                                  *)
(*                                                                         *)
(* The server has one thread and the manager's handlers do not await, so a *)
(* handler is one step; the two loops at the end of a handler, which start *)
(* queued tasks and which cancel the tasks of a context, are unrolled:     *)
(* pumping and canceling say what the handler has still to do, and nothing *)
(* but a crash comes between.                                              *)
(*                                                                         *)
(* A sub-agent has at most one pending task, the one of its latest run, so *)
(* queues hold sub-agents.  It may have several executions: one that was   *)
(* canceled goes on until its agent notices, and the sub-agent may be      *)
(* resumed before that.                                                    *)
(***************************************************************************)
EXTENDS Naturals, Sequences, FiniteSets

CONSTANTS
    Agents,          \* ids of sub-agents
    Parents,         \* contexts that delegate to them
    Parent,          \* whose sub-agent each is
    Waiters,         \* calls of result(wait=true)
    None,
    MaxPerParent,    \* getMaxParallelPerParent()
    MaxGlobal,       \* getGlobalMaxParallel()
    MaxQueued,       \* MAX_QUEUED_TASKS_PER_PARENT
    MaxTasks,        \* bound: runs of all sub-agents together
    MaxCrashes,      \* bound: restarts of the process
    WebParents       \* contexts whose tasks are also started from the browser

ASSUME SubAgentsAssumption ==
    /\ Parent \in [Agents -> Parents]
    /\ {MaxPerParent, MaxGlobal} \subseteq Nat \ {0}
    /\ {MaxQueued, MaxTasks, MaxCrashes} \subseteq Nat
    /\ WebParents \subseteq Parents
    /\ None \notin Agents

VARIABLES
    rec,       \* records: status, runSeq and latestResult of each sub-agent
    queue,     \* queuedTaskIds of each parent
    running,   \* runningTaskIds of each parent
    exec,      \* calls of executeTask that have not returned
    disk,      \* the registry file
    log,       \* subagent.<id>.latest in the parent's history
    buffer,    \* the same, in the patches of the parent's open turn
    bound,     \* sub-agents whose record names the parent's open turn
    turn,      \* the parent's turn: none, open, or open and overtaken by other writes
    waiter,    \* the run each waiting caller waits for
    pumping,   \* processAllQueues is on the stack
    canceling, \* sub-agents that cancelContext has still to cancel
    crashes

manager == <<rec, queue, running>>
history == <<log, buffer, bound, turn>>
thread == <<pumping, canceling>>
vars == <<rec, queue, running, exec, disk, log, buffer, bound, turn, waiter,
          pumping, canceling, crashes>>

Terminal == {"succeeded", "failed", "canceled"}
Open == {"queued", "running"}
Results == [run : Nat, status : Terminal, by : Nat]
Notes == Results \cup {None}
Records == [status : Terminal \cup Open \cup {"absent"}, run : Nat, result : Notes]

\* No result is mistaken for one (undefined in the code).
ASSUME NoneAssumption == None \notin Results

\* Every task there ever was.
Tasks == {t \in Agents \X (1..MaxTasks) : t[2] <= rec[t[1]].run}

Kids(p) == {a \in Agents : Parent[a] = p}
Pending == {a \in Agents : a \in running[Parent[a]] \/ \E k \in DOMAIN queue[Parent[a]] : queue[Parent[a]][k] = a}
AllRunning == UNION {running[p] : p \in Parents}

\* stopped: it was told to stop.  inTurn: its task names the parent's open turn.
\* saved: the checkpoint of the parent it took.  dirty: the parent's history is
\* no longer what it was then.  alone: no other task of the parent held a slot.
Executions == [agent : Agents, run : Nat, stopped : BOOLEAN, inTurn : BOOLEAN,
               alone : BOOLEAN, dirty : BOOLEAN, saved : [Agents -> Notes] \cup {None}]

SubTypeOK ==
    /\ rec \in [Agents -> Records]
    /\ queue \in [Parents -> Seq(Agents)]
    /\ running \in [Parents -> SUBSET Agents]
    /\ exec \subseteq Executions
    /\ disk \in [rec : [Agents -> Records], pending : SUBSET Agents]
    /\ log \in [Agents -> Notes]
    /\ buffer \in [Agents -> Notes]
    /\ bound \subseteq Agents
    /\ turn \in [Parents -> {"none", "open", "overtaken"}]
    /\ waiter \in [Waiters -> {None} \cup [agent : Agents, run : Nat]]
    /\ pumping \in BOOLEAN
    /\ canceling \subseteq Agents
    /\ crashes \in 0..MaxCrashes

SubInit ==
    /\ rec = [a \in Agents |-> [status |-> "absent", run |-> 0, result |-> None]]
    /\ queue = [p \in Parents |-> <<>>]
    /\ running = [p \in Parents |-> {}]
    /\ exec = {}
    /\ disk = [rec |-> rec, pending |-> {}]
    /\ log = [a \in Agents |-> None]
    /\ buffer = [a \in Agents |-> None]
    /\ bound = {}
    /\ turn = [p \in Parents |-> "none"]
    /\ waiter = [w \in Waiters |-> None]
    /\ pumping = FALSE
    /\ canceling = {}
    /\ crashes = 0

\* No handler is on the stack.
Idle == ~pumping /\ canceling = {}

-----------------------------------------------------------------------------
(* What the handlers are made of. *)

\* Mutant: the state is saved before it is changed.
PersistBefore == disk' = [rec |-> rec, pending |-> Pending]
\* persistState, which every handler calls after it changed records or tasks.
Persist == disk' = [rec |-> rec', pending |-> Pending']

\* Writes about p's sub-agents go to the open turn that one of them names.
Buffered(p, named) == turn[p] # "none" /\ named \cap Kids(p) # {}

\* An open turn of p, whose history grows or shrinks under it, cannot be committed.
Overtaken(p) == IF turn[p] = "open" THEN [turn EXCEPT ![p] = "overtaken"] ELSE turn

\* Neither the baseline of p's open turn nor a checkpoint of p describe a history
\* that was changed outside of the turn.
ChangeHistory(p, direct, es) ==
    /\ exec' = {[e EXCEPT !.dirty = @ \/ (direct /\ Parent[e.agent] = p /\ e.saved # None)] : e \in es}
    /\ turn' = IF direct THEN Overtaken(p) ELSE turn

\* writeParentContextIndex: the index of p's sub-agents is written with every
\* change, outside of p's turn as an entry of p's history.
WriteIndex(p, named, es) == ChangeHistory(p, ~Buffered(p, named), es)

\* writeParentContextResult, on top of what the history was before
PublishResult(a, result, named, base) ==
    IF Buffered(Parent[a], named)
    THEN buffer' = [buffer EXCEPT ![a] = result] /\ log' = base
    ELSE log' = [base EXCEPT ![a] = result] /\ UNCHANGED buffer

\* Mutant: only the waiters of earlier runs are woken.
AskedBefore(w, a, n) == waiter[w] # None /\ waiter[w].agent = a /\ waiter[w].run < n
Asked(w, a, n) == waiter[w] # None /\ waiter[w].agent = a /\ waiter[w].run <= n

\* resolveWaiters
ResolveWaiters(a, result) ==
    waiter' = [w \in Waiters |-> IF Asked(w, a, result.run) THEN None ELSE waiter[w]]

Ended(a, status, by) == [run |-> rec[a].run, status |-> status, by |-> by]

\* applySubAgentTerminalTransition
SettleRecord(a, result) ==
    rec' = [rec EXCEPT ![a].status = result.status, ![a].result = result]

\* Mutant: the task to be started is counted as running.
CanStartOneLess(p) ==
    /\ queue[p] # <<>>
    /\ Cardinality(running[p]) + 1 < MaxPerParent
    /\ Cardinality(AllRunning) < MaxGlobal
\* canStartMoreForParent
CanStart(p) ==
    /\ queue[p] # <<>>
    /\ Cardinality(running[p]) < MaxPerParent
    /\ Cardinality(AllRunning) < MaxGlobal

Executing(a) == \E e \in exec : e.agent = a /\ e.run = rec[a].run

-----------------------------------------------------------------------------
(* create and resume *)

\* A task is asked for by a tool of the parent's turn, or from the browser: there a
\* canceled sub-agent is resumed, and a failed one retried by a new one.
Origins(a) ==
    LET p == Parent[a]
        canceled == rec[a].status = "canceled"
        retry == rec[a].status = "absent" /\ \E b \in Kids(p) : rec[b].status = "failed"
    IN  {o \in {"turn", "web"} : IF o = "turn" THEN turn[p] # "none"
                                ELSE p \in WebParents /\ (canceled \/ retry)}

\* The record of a sub-agent that starts its next run.
Renew(a, status, result) ==
    [rec EXCEPT ![a] = [status |-> status, run |-> rec[a].run + 1, result |-> result]]

Bind(a, origin) == bound' = IF origin = "turn" THEN bound \cup {a} ELSE bound \ {a}

\* create of an unknown sub-agent, resume of one without a pending task: whether
\* an execution of a canceled task has ended is not asked.
MayAsk(a) ==
    /\ Idle
    /\ Cardinality(Tasks) < MaxTasks
    /\ a \notin Pending
    /\ Len(queue[Parent[a]]) < MaxQueued

Ask(a) ==
    \E origin \in Origins(a) :
        /\ MayAsk(a)
        /\ rec' = Renew(a, "queued", None)
        /\ queue' = [queue EXCEPT ![Parent[a]] = Append(@, a)]
        /\ Bind(a, origin)
        /\ WriteIndex(Parent[a], bound', exec)
        /\ pumping' = TRUE
        /\ UNCHANGED <<running, log, buffer, waiter, canceling, crashes>>
        /\ Persist

\* failIfProviderUnavailable: the run fails without ever having a task.
AskInVain(a) ==
    \E origin \in Origins(a) :
        LET result == [run |-> rec[a].run + 1, status |-> "failed", by |-> rec[a].run + 1]
        IN  /\ MayAsk(a)
            /\ rec' = Renew(a, "failed", result)
            /\ Bind(a, origin)
            /\ PublishResult(a, result, bound', log)
            /\ WriteIndex(Parent[a], bound', exec)
            /\ ResolveWaiters(a, result)
            /\ UNCHANGED <<queue, running, thread, crashes>>
            /\ Persist

-----------------------------------------------------------------------------
(* processAllQueues *)

\* One round of the loop of processParentQueue.
StartNext(p) ==
    LET a == Head(queue[p])
    IN  /\ pumping
        /\ CanStart(p)
        /\ queue' = [queue EXCEPT ![p] = Tail(@)]
        /\ running' = [running EXCEPT ![p] = @ \cup {a}]
        /\ rec' = [rec EXCEPT ![a].status = "running"]
        /\ WriteIndex(p, bound, exec)
        /\ UNCHANGED <<log, buffer, bound, waiter, thread, crashes>>
        /\ Persist

\* executeTask up to its await: the checkpoint of the parent is taken unless
\* the turn that asked for the task is open.  It is an entry of the history, which
\* another open turn did not count.
Execute(a) ==
    LET p == Parent[a]
        inTurn == turn[p] # "none" /\ a \in bound
        saved == IF inTurn THEN None ELSE log
    IN  /\ pumping
        /\ a \in running[p]
        /\ ~Executing(a)
        /\ ~CanStart(p)
        /\ exec' = exec \cup {[agent |-> a, run |-> rec[a].run, stopped |-> FALSE,
                               inTurn |-> inTurn, alone |-> Cardinality(running[p]) <= 1,
                               dirty |-> FALSE, saved |-> saved]}
        /\ turn' = IF saved # None THEN Overtaken(p) ELSE turn
        /\ UNCHANGED <<manager, disk, log, buffer, bound, waiter, thread, crashes>>

PumpEnds ==
    /\ pumping
    /\ \A p \in Parents : ~CanStart(p)
    /\ \A a \in AllRunning : Executing(a)
    /\ pumping' = FALSE
    /\ UNCHANGED <<manager, exec, disk, history, waiter, canceling, crashes>>

-----------------------------------------------------------------------------
(* settleCompletedTask and cancel *)

\* A queue without a; a queue has it once at most, so this is what the filter
\* leaves.
Without(q, a) ==
    IF \E k \in DOMAIN q : q[k] = a
    THEN LET k == CHOOSE k \in DOMAIN q : q[k] = a
         IN  SubSeq(q, 1, k - 1) \o SubSeq(q, k + 1, Len(q))
    ELSE q

\* Mutant: a task that was running keeps its slot.
UnqueuedOnly(a) ==
    /\ queue' = [queue EXCEPT ![Parent[a]] = Without(@, a)]
    /\ UNCHANGED running
Unqueued(a) ==
    /\ queue' = [queue EXCEPT ![Parent[a]] = Without(@, a)]
    /\ running' = [running EXCEPT ![Parent[a]] = @ \ {a}]

\* The parent's history is what an execution saw before it began.
RolledBack(p, e) == [a \in Agents |-> IF Parent[a] = p THEN e.saved[a] ELSE log[a]]

\* Mutant: late output replaces the result of a cancel.
NeverSettled(a) == rec[a].status = "absent"
AlreadySettled(a) == rec[a].status \in Terminal

\* The output of an execution comes in.  A record that already has a result of
\* its latest run keeps it, any other one takes the output for its own, also that
\* of an earlier run, whose task is not the pending one.
Finish(e) ==
    \E status \in IF e.stopped THEN Terminal ELSE Terminal \ {"canceled"} :
        LET a == e.agent
            p == Parent[a]
            already == AlreadySettled(a)
            result == IF already THEN rec[a].result ELSE Ended(a, status, e.run)
            named == IF e.inTurn THEN bound \cup {a} ELSE bound
            jump == /\ e.saved # None /\ e.alone /\ e.dirty
                    /\ status # "canceled" /\ ~already
                    /\ Cardinality(running[p]) <= 1
        IN  /\ Idle
            /\ SettleRecord(a, result)
            /\ IF e.run = rec[a].run THEN Unqueued(a) ELSE UNCHANGED <<queue, running>>
            /\ PublishResult(a, result, named, IF jump THEN RolledBack(p, e) ELSE log)
            /\ ChangeHistory(p, jump \/ ~Buffered(p, named), exec \ {e})
            /\ ResolveWaiters(a, result)
            /\ pumping' = TRUE
            /\ UNCHANGED <<bound, canceling, crashes>>
            /\ Persist

\* The pending task of a is taken away and its agent, if any, is told to stop.
CancelTask(a) ==
    LET result == Ended(a, "canceled", rec[a].run)
    IN  /\ a \in Pending
        /\ SettleRecord(a, result)
        /\ Unqueued(a)
        /\ PublishResult(a, result, bound, log)
        /\ WriteIndex(Parent[a], bound,
               {[e EXCEPT !.stopped = @ \/ (e.agent = a /\ e.run = rec[a].run)] : e \in exec})
        /\ ResolveWaiters(a, result)
        /\ pumping' = TRUE
        /\ UNCHANGED <<bound, crashes>>
        /\ Persist

Cancel(a) ==
    /\ Idle
    /\ CancelTask(a)
    /\ UNCHANGED canceling

-----------------------------------------------------------------------------
(* The parent *)

BeginTurn(p) ==
    /\ Idle
    /\ turn[p] = "none"
    /\ turn' = [turn EXCEPT ![p] = "open"]
    /\ UNCHANGED <<manager, exec, disk, log, buffer, bound, waiter, thread, crashes>>

\* cancelContext, from a Stop of the user
StopContext(p) ==
    /\ Idle
    /\ canceling' = Kids(p) \cap Pending
    /\ UNCHANGED <<manager, exec, disk, history, waiter, pumping, crashes>>

\* The parent's turn is committed with all its patches, interrupted with some of
\* them, or refused because it was overtaken; then the parent's run cancels what
\* it delegated.
EndTurn(p) ==
    \E kept \in SUBSET {a \in Kids(p) : buffer[a] # None} :
        /\ Idle
        /\ turn[p] = "open" \/ (turn[p] = "overtaken" /\ kept = {})
        /\ turn' = [turn EXCEPT ![p] = "none"]
        /\ bound' = bound \ Kids(p)
        /\ log' = [a \in Agents |-> IF a \in kept THEN buffer[a] ELSE log[a]]
        /\ buffer' = [a \in Agents |-> IF Parent[a] = p THEN None ELSE buffer[a]]
        /\ exec' = {IF Parent[e.agent] = p
                    THEN [e EXCEPT !.inTurn = FALSE, !.dirty = @ \/ e.saved # None]
                    ELSE e : e \in exec}
        /\ canceling' = Kids(p) \cap Pending
        /\ UNCHANGED <<manager, disk, waiter, pumping, crashes>>

\* One round of the loop of cancelContext.
CancelNext(a) ==
    /\ ~pumping
    /\ a \in canceling
    /\ canceling' = canceling \ {a}
    /\ CancelTask(a)

-----------------------------------------------------------------------------
(* Callers and crashes *)

\* getResult(wait) of a run that has no result yet.
Wait(w, a) ==
    /\ Idle
    /\ waiter[w] = None
    /\ rec[a].status \in Open
    /\ waiter' = [waiter EXCEPT ![w] = [agent |-> a, run |-> rec[a].run]]
    /\ UNCHANGED <<manager, exec, disk, history, thread, crashes>>

WaitTimesOut(w) ==
    /\ Idle
    /\ waiter[w] # None
    /\ waiter' = [waiter EXCEPT ![w] = None]
    /\ UNCHANGED <<manager, exec, disk, history, thread, crashes>>

Interrupted(a) ==
    [run |-> disk.rec[a].run, status |-> "failed", by |-> disk.rec[a].run]

\* The process dies and a new one reads the registry:
\* markPendingTasksAsFailedOnStartup.
Restart ==
    /\ crashes < MaxCrashes
    /\ crashes' = crashes + 1
    /\ rec' = [a \in Agents |->
                 IF a \in disk.pending
                 THEN [disk.rec[a] EXCEPT !.status = "failed", !.result = Interrupted(a)]
                 ELSE disk.rec[a]]
    /\ queue' = [p \in Parents |-> <<>>]
    /\ running' = [p \in Parents |-> {}]
    /\ exec' = {}
    /\ log' = [a \in Agents |->
                 IF rec'[a].result # None /\ Kids(Parent[a]) \cap disk.pending # {}
                 THEN rec'[a].result ELSE log[a]]
    /\ buffer' = [a \in Agents |-> None]
    /\ bound' = {}
    /\ turn' = [p \in Parents |-> "none"]
    /\ waiter' = [w \in Waiters |-> None]
    /\ pumping' = FALSE
    /\ canceling' = {}
    /\ Persist

-----------------------------------------------------------------------------
Pump == (\E p \in Parents : StartNext(p)) \/ (\E a \in Agents : Execute(a)) \/ PumpEnds

SubNext ==
    \/ Pump
    \/ \E a \in Agents : Ask(a) \/ AskInVain(a) \/ Cancel(a) \/ CancelNext(a)
    \/ \E e \in exec : Finish(e)
    \/ \E p \in Parents : BeginTurn(p) \/ StopContext(p) \/ EndTurn(p)
    \/ \E w \in Waiters : WaitTimesOut(w) \/ \E a \in Agents : Wait(w, a)
    \/ Restart

\* A handler runs to its end.  That an agent turn ends is not assumed: its timeout
\* only warns.
SubFairness ==
    /\ WF_vars(Pump)
    /\ WF_vars(\E a \in Agents : CancelNext(a))

SubSpec == SubInit /\ [][SubNext]_vars
SubFairSpec == SubSpec /\ SubFairness

-----------------------------------------------------------------------------
(* Properties *)

\* No orphan: between handlers, an open record has a pending task, which waits in
\* its parent's queue if the record says queued, and holds a slot if it says
\* running; a slot has an execution of the latest run that nobody told to stop; no
\* sub-agent is twice in queue and slots.  A record without task can be neither
\* finished nor resumed; a slot without execution is lost for good.  (A pending
\* task may have a settled record: late output of the run before settles it.)
OpenRunsAreServed ==
    Idle => \A a \in Agents :
        LET slot == a \in running[Parent[a]]
            places == {k \in DOMAIN queue[Parent[a]] : queue[Parent[a]][k] = a}
        IN  /\ rec[a].status = "queued" => ~slot /\ places # {}
            /\ rec[a].status = "running" => slot
            /\ slot => \E e \in exec : e.agent = a /\ e.run = rec[a].run /\ ~e.stopped
            /\ Cardinality(places) <= IF slot THEN 0 ELSE 1

\* Whichever way a slot becomes free, the next task is started before the handler
\* returns: there is no timer that would start it later.
NoIdleSlot == Idle => \A p \in Parents : ~CanStart(p)

\* Both: an open task is served, and what could be served is not left waiting.
NoTaskIsStranded == OpenRunsAreServed /\ NoIdleSlot

\* No lost wakeup: nobody still waits for a run that is over.
NobodyWaitsForEnded ==
    \A w \in Waiters :
        waiter[w] # None
            => rec[waiter[w].agent].run = waiter[w].run /\ rec[waiter[w].agent].status \in Open

\* The execution e returns and takes the parent of a back to its checkpoint.
TakesBack(e, a) ==
    /\ Parent[e.agent] = Parent[a]
    /\ e.saved # None /\ e.alone /\ e.dirty
    /\ ~\E f \in exec' : f.agent = e.agent /\ f.run = e.run
    /\ log'[a] = e.saved[a]

\* A result that a run published of itself is only replaced by that of a later run:
\* not by late output, by a commit of the parent's turn, or by a restart.  The one
\* exception is the validation of the checkpoint (REQ-0005), which takes back with
\* the rest of the history what siblings published meanwhile.
PublishedResultsStay ==
    [][\A a \in Agents :
         log[a] # None /\ log[a].by = log[a].run /\ log'[a] # log[a]
             => \/ log'[a] # None /\ log'[a].run > log[a].run
                \/ \E e \in exec : TakesBack(e, a)]_vars

\* Output that comes after its run was canceled wins nothing: the result recorded
\* for a run is the output of that run.
ResultsAreOwn == \A a \in Agents : rec[a].result # None => rec[a].result.by = rec[a].result.run

\* Each task that was accepted is settled once, whatever comes late and wherever
\* the process dies, and that outcome stands until the sub-agent is asked again.
\* (Whose output it is, is ResultsAreOwn.)
Promise == INSTANCE SubAgentPromise WITH
    run <- [a \in Agents |-> rec[a].run],
    outcome <- [a \in Agents |-> IF rec[a].status = "absent" THEN "none"
                                 ELSE IF a \in Pending THEN "open"
                                 ELSE rec[a].status]
PromiseRefinement == Promise!Spec

\* No agent turn of a sub-agent goes on forever, be it that it ends by itself or
\* that somebody cancels it.
TurnsReturn ==
    \A a \in Agents, n \in 1..MaxTasks : []<>(~\E e \in exec : e.agent = a /\ e.run = n)

\* If the agent turns return, every task that was accepted is settled some day: no
\* slot is lost, and nothing is left in a queue.
RunsSettle == TurnsReturn => \A a \in Agents : a \in Pending ~> a \notin Pending
=============================================================================
