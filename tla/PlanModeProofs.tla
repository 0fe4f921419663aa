--------------------------- MODULE PlanModeProofs ---------------------------
(***************************************************************************)
(* What PlanMode keeps for every number of browsers, runs, requests and    *)
(* todo items.  The flags of the loop are looked at through the set Loops, *)
(* the request a turn waits on through the invariant Reach, and the todo   *)
(* items through what each operation of the store does to a board.         *)
(***************************************************************************)
EXTENDS PlanMode, FiniteSetTheorems, TLAPS

Loops == [enabled : BOOLEAN, mode : {"ralph", "todo"}, ralph : BOOLEAN,
          confirm : BOOLEAN, paused : BOOLEAN, running : BOOLEAN]
PlanRecords == [state : PlanningStates, active : Plans]

\* Of a loop: while a plan waits for its confirmation it is off and stopped.
Quiet(l) == l.confirm => ~l.enabled /\ ~l.running

-----------------------------------------------------------------------------
(* The flags of the loop *)

LEMMA MarkedLoop ==
  ASSUME NEW l \in Loops
  PROVE  Marked(l) \in Loops /\ Quiet(Marked(l))
BY DEF Loops, Marked, Stopped, Quiet

LEMMA ConfirmedLoop ==
  ASSUME NEW l \in Loops
  PROVE  Confirmed(l) \in Loops /\ ~Confirmed(l).confirm
BY DEF Loops, Confirmed

LEMMA StoppedLoop ==
  ASSUME NEW l \in Loops
  PROVE  Stopped(l) \in Loops /\ (Quiet(l) => Quiet(Stopped(l)))
BY DEF Loops, Stopped, Quiet

\* The refresh leaves a quiet loop, whatever it found.
LEMMA EnsuredLoop ==
  ASSUME NEW l \in Loops, NEW board
  PROVE  Ensured(l, board) \in Loops /\ Quiet(Ensured(l, board))
<1>1. CASE l.confirm
  BY <1>1, MarkedLoop DEF Ensured
<1>2. CASE ~l.confirm /\ Unfinished(board) = {}
  BY <1>2 DEF Ensured, Loops, Quiet
<1>3. CASE ~l.confirm /\ Unfinished(board) /= {} /\ l.paused
  BY <1>3 DEF Ensured, Loops, Quiet, Stopped
<1>4. CASE ~l.confirm /\ Unfinished(board) /= {} /\ ~l.paused
  <2>1. Ensured(l, board) = [l EXCEPT !.enabled = TRUE, !.mode = "todo"]
    BY <1>4 DEF Ensured
  <2> QED
    BY <1>4, <2>1 DEF Loops, Quiet
<1> QED
  BY <1>1, <1>2, <1>3, <1>4

LEMMA PausedLoop ==
  ASSUME NEW l \in Loops
  PROVE  PausedByStop(l) \in Loops /\ (Quiet(l) => Quiet(PausedByStop(l)))
<1>1. CASE plan.state = "plan_executing" /\ Unfinished(todos) /= {}
  BY <1>1, StoppedLoop DEF PausedByStop
<1>2. CASE ~(plan.state = "plan_executing" /\ Unfinished(todos) /= {})
  <2>1. PausedByStop(l) = Stopped([l EXCEPT !.enabled = FALSE, !.paused = TRUE,
                                           !.ralph = (l.mode /= "ralph" /\ l.ralph)])
    BY <1>2 DEF PausedByStop
  <2> QED
    BY <2>1 DEF Loops, Stopped, Quiet
<1> QED
  BY <1>1, <1>2

LEMMA ExitLoop ==
  ASSUME NEW l \in Loops
  PROVE  /\ ExitNormal(l) \in Loops /\ Quiet(ExitNormal(l))
         /\ ExitForced(l) \in Loops /\ Quiet(ExitForced(l))
BY DEF Loops, ExitNormal, ExitForced, Quiet

\* Every handler leaves a quiet loop.
LEMMA LoopStep ==
  ASSUME loop \in Loops, Quiet(loop), [PlanNext]_vars
  PROVE  loop' \in Loops /\ Quiet(loop')
<1> USE DEF modeVars
<1> DEFINE Fine == loop' \in Loops /\ Quiet(loop')
<1>0. UNCHANGED loop => Fine
  BY DEF Quiet
<1> HIDE DEF Fine
<1>1. ASSUME NEW enter \in BOOLEAN, Resolved(enter) PROVE Fine
  BY <1>0, <1>1, MarkedLoop DEF Resolved, Fine
<1>2. ASSUME NEW l \in Loops, NEW board, loop' = Ensured(l, board) PROVE Fine
  BY <1>2, EnsuredLoop DEF Fine
<1>3. ASSUME NEW s \in Sockets, NEW enter \in BOOLEAN, Chat(s, enter) PROVE Fine
  BY <1>1, <1>3 DEF Chat
<1>4. ASSUME NEW enter \in BOOLEAN, ChatRefused(enter) PROVE Fine
  BY <1>1, <1>4 DEF ChatRefused
<1>5. CASE Activated
  <2>1. CASE sampled = "plan_drafting"
    BY <1>0, <1>5, <2>1 DEF Activated
  <2>2. CASE sampled /= "plan_drafting"
    <3> DEFINE l == Ensured(Confirmed(loop), todos)
    <3>1. l \in Loops /\ ~l.confirm
      <4>1. Confirmed(loop) \in Loops /\ ~Confirmed(loop).confirm
        BY ConfirmedLoop
      <4>2. l \in Loops
        BY <4>1, EnsuredLoop
      <4>3. CASE Unfinished(todos) = {}
        BY <4>1, <4>3 DEF Ensured, Loops
      <4>4. CASE Unfinished(todos) /= {} /\ Confirmed(loop).paused
        BY <4>1, <4>4 DEF Ensured, Loops, Stopped
      <4>5. CASE Unfinished(todos) /= {} /\ ~Confirmed(loop).paused
        <5>1. l = [Confirmed(loop) EXCEPT !.enabled = TRUE, !.mode = "todo"]
          BY <4>1, <4>5 DEF Ensured
        <5> QED
          BY <4>1, <4>2, <5>1 DEF Loops
      <4> QED
        BY <4>2, <4>3, <4>4, <4>5
    <3>2. loop' = [l EXCEPT !.running = l.running \/ l.enabled]
      BY <1>5, <2>2 DEF Activated
    <3> HIDE DEF l
    <3> QED
      BY <3>1, <3>2 DEF Fine, Loops, Quiet
  <2> QED
    BY <2>1, <2>2
<1>6. ASSUME NEW s \in Sockets, Answer(s) PROVE Fine
  <2>1. Confirmed(loop) \in Loops
    BY ConfirmedLoop
  <2>2. CASE AnswerActivates(s)
    BY <1>2, <2>1, <2>2 DEF AnswerActivates, Refreshed
  <2>3. CASE AnswerThrows(s)
    BY <1>0, <2>3 DEF AnswerThrows
  <2>4. ASSUME NEW label, AnswerOther(s, label) PROVE Fine
    BY <1>2, <2>1, <2>4 DEF AnswerOther, Refreshed
  <2> QED
    BY <1>6, <2>2, <2>3, <2>4 DEF Answer
<1>7. CASE Cancel \/ StopLoop
  BY <1>7, PausedLoop DEF Cancel, StopLoop, Fine
<1>8. CASE Completes
  <2> DEFINE l == Ensured(loop, todos)
  <2>1. l \in Loops /\ Quiet(l)
    BY EnsuredLoop
  <2>2. loop' = l \/ (l.enabled /\ loop' = [l EXCEPT !.running = TRUE]) \/ loop' = Stopped(l)
    BY <1>8 DEF Completes, Continues
  <2> HIDE DEF l
  <2>3. CASE l.enabled /\ loop' = [l EXCEPT !.running = TRUE]
    BY <2>1, <2>3 DEF Fine, Loops, Quiet
  <2> QED
    BY <2>1, <2>2, <2>3, StoppedLoop DEF Fine
<1>9. CASE Fails \/ ContinuationFires \/ Crash
  <2>1. loop' = loop \/ loop' = Stopped(loop)
    BY <1>9 DEF Fails, ContinuationFires, Crash
  <2> QED
    BY <1>0, <2>1, StoppedLoop DEF Fine
<1>10. CASE ExitDraft \/ ExitExecution \/ ForceExit
  BY <1>10, ExitLoop, StoppedLoop DEF ExitDraft, ExitExecution, ForceExit, Fine
<1>11. ASSUME NEW on \in BOOLEAN, SetLoop(on) PROVE Fine
  <2> DEFINE controlled == loop.confirm \/ Unfinished(todos) /= {}
             l == [loop EXCEPT !.enabled = on,
                               !.mode = IF controlled THEN "todo" ELSE "ralph",
                               !.ralph = IF controlled THEN loop.ralph ELSE on,
                               !.paused = controlled /\ ~on,
                               !.running = loop.running /\ on]
  <2>1. l \in Loops
    BY DEF Loops
  <2>2. loop' = Ensured(l, todos')
    BY <1>11 DEF SetLoop, Refreshed
  <2> HIDE DEF l
  <2> QED
    BY <1>2, <2>1, <2>2
<1>12. CASE UserTodo
  <2>1. loop' = Ensured(loop, todos')
    BY <1>12 DEF UserTodo, Refreshed
  <2> QED
    BY <2>1, EnsuredLoop DEF Fine
<1>13. CASE \/ PreparationFails \/ CompletesCanceled \/ UserRemoves \/ AgentTodo \/ UNCHANGED vars
            \/ \E approval \in BOOLEAN : Ask(approval)
            \/ \E s \in Sockets : Disconnect(s) \/ Connect(s)
            \/ \E t \in timers : Expire(t)
  <2>1. UNCHANGED loop
    BY <1>13 DEF PreparationFails, CompletesCanceled, UserRemoves, AgentTodo, Ask, Disconnect,
                 Connect, Expire, vars
  <2> QED
    BY <1>0, <2>1
<1> QED
  BY <1>3, <1>4, <1>5, <1>6, <1>7, <1>8, <1>9, <1>10, <1>11, <1>12, <1>13
  DEF PlanNext, Fine

LoopInv == loop \in Loops /\ Quiet(loop)

LEMMA LoopAlways == PlanSpec => []LoopInv
<1>1. Init => LoopInv
  BY DEF Init, LoopInv, Loops, Quiet
<1>2. LoopInv /\ [PlanNext]_vars => LoopInv'
  BY LoopStep DEF LoopInv, Quiet
<1> QED
  BY <1>1, <1>2, PTL DEF PlanSpec

\* Whatever sequence of messages, answers, Stops, exits and edits came before,
\* a loop whose plan is not confirmed is off and stopped.
THEOREM ConfirmationFirst == PlanSpec => []ConfirmBlocksLoop
<1>1. LoopInv => ConfirmBlocksLoop
  BY DEF LoopInv, Quiet, ConfirmBlocksLoop
<1> QED
  BY <1>1, LoopAlways, PTL

-----------------------------------------------------------------------------
(* The request a turn waits on *)

Pendings == [req : 0 .. MaxRequests, run : 0 .. MaxRuns, approval : BOOLEAN,
             ws : Sockets \union {Gone}, detached : BOOLEAN]

\* The parts of the state a request lives in.
ReqType ==
    /\ open \subseteq Sockets
    /\ phase \in {"idle", "preparing", "running"}
    /\ run \in 0 .. MaxRuns
    /\ runWs \in Sockets \union {Gone}
    /\ lastReq \in 0 .. MaxRequests
    /\ pending \in Pendings

\* One call waits at most, and its request is the pending one of the run that
\* runs, unless its answer threw; a timer runs exactly while it is detached,
\* and no other timer runs; what the session shows is this request, unless the
\* draft was left.
Reach ==
    /\ pending.req = 0 => timers = {}
    /\ pending.req /= 0 =>
         /\ pending.req \in waiting
         /\ pending.run = run
         /\ phase = "running"
         /\ timers = IF pending.detached THEN {Armed(pending)} ELSE {}
         /\ ~pending.detached => pending.ws \in open
         /\ shown = Armed(pending) \/ pending.req \in left
    /\ \A q \in waiting : q \in lost \/ (pending.req = q /\ q /= 0)

ReqInv == ReqType /\ Reach

LEMMA ReqInit == Init => ReqInv
BY PlanModeAssumption DEF Init, ReqInv, ReqType, Reach, NoPending, Pendings

\* A step that takes the pending request away, with its timer.
LEMMA TakenAway ==
  ASSUME ReqInv, pending.req /= 0, Forgotten(pending), lost \subseteq lost',
         UNCHANGED <<run, runWs, lastReq, phase, open>>,
         waiting' = waiting \ {pending.req} \/ (waiting' = waiting /\ pending.req \in lost')
  PROVE  ReqInv'
<1>1. pending' = NoPending /\ timers' = {}
  BY DEF ReqInv, Reach, Forgotten
<1>2. ReqType'
  BY <1>1, PlanModeAssumption DEF ReqInv, ReqType, NoPending, Pendings
<1>3. \A q \in waiting' : q \in lost'
  BY DEF ReqInv, Reach
<1> QED
  BY <1>1, <1>2, <1>3 DEF ReqInv, Reach, NoPending

\* A step that does not touch the request; the draft may be left, and the run
\* may change while nothing is pending.
LEMMA LeftAlone ==
  ASSUME ReqInv, ReqType', UNCHANGED <<waiting, pending, timers, lost>>,
         open \subseteq open',
         UNCHANGED <<shown, left>> \/ left' = left \union waiting,
         UNCHANGED <<run, phase>> \/ phase /= "running"
  PROVE  ReqInv'
<1>1. CASE pending.req = 0
  BY <1>1 DEF ReqInv, Reach
<1>2. CASE pending.req /= 0
  BY <1>2 DEF ReqInv, Reach, Armed
<1> QED
  BY <1>1, <1>2

\* A step at whose start no call waits.
LEMMA NobodyWaits ==
  ASSUME ReqInv, waiting = {} PROVE pending.req = 0 /\ timers = {}
BY DEF ReqInv, Reach

LEMMA ReqStep ==
  ASSUME ReqInv, [PlanNext]_vars PROVE ReqInv'
<1> USE DEF reqVars, runVars
<1>1. ASSUME NEW s \in Sockets, NEW enter \in BOOLEAN, Chat(s, enter) PROVE ReqInv'
  <2>1. ReqType'
    BY <1>1, PlanModeAssumption DEF Chat, ReqInv, ReqType
  <2> QED
    BY <1>1, <2>1, LeftAlone DEF Chat
<1>2. ASSUME NEW enter \in BOOLEAN, ChatRefused(enter) PROVE ReqInv'
  BY <1>2, LeftAlone DEF ChatRefused, ReqInv, ReqType
<1>3. CASE Activated \/ PreparationFails
  <2>1. ReqType'
    BY <1>3 DEF Activated, PreparationFails, Idle, ReqInv, ReqType
  <2> QED
    BY <1>3, <2>1, LeftAlone DEF Activated, PreparationFails, Idle
<1>4. ASSUME NEW approval \in BOOLEAN, Ask(approval) PROVE ReqInv'
  <2>1. timers = {}
    BY <1>4, NobodyWaits DEF Ask
  <2>2. pending' = [req |-> lastReq + 1, run |-> run, approval |-> approval, ws |-> runWs,
                    detached |-> runWs \notin open]
    BY <1>4 DEF Ask
  <2>3. lastReq + 1 \in 0 .. MaxRequests /\ lastReq + 1 /= 0
    BY <1>4, PlanModeAssumption DEF Ask, ReqInv, ReqType
  <2>4. ReqType'
    BY <1>4, <2>2, <2>3 DEF Ask, ReqInv, ReqType, Pendings
  <2>5. timers' = IF pending'.detached THEN {Armed(pending')} ELSE {}
    <3>1. pending'.detached <=> runWs \notin open
      BY <2>2
    <3>2. timers' = IF runWs \in open THEN timers ELSE timers \union {Armed(pending')}
      BY <1>4 DEF Ask
    <3> QED
      BY <2>1, <3>1, <3>2
  <2>6. shown' = Armed(pending')
    BY <1>4, <2>2 DEF Ask, Armed
  <2>7. /\ pending'.req = lastReq + 1 /\ pending'.run = run /\ pending'.ws = runWs
        /\ pending'.detached <=> runWs \notin open
    BY <2>2
  <2>8. /\ waiting' = {lastReq + 1} /\ run' = run /\ open' = open /\ phase' = "running"
    BY <1>4 DEF Ask
  <2>9. Reach'
    <3>1. \A q \in waiting' : pending'.req = q /\ q /= 0
      BY <2>3, <2>7, <2>8
    <3>2. pending'.req /= 0 /\ pending'.req \in waiting' /\ pending'.run = run'
      BY <2>3, <2>7, <2>8
    <3>3. ~pending'.detached => pending'.ws \in open'
      BY <2>7, <2>8
    <3> QED
      BY <2>5, <2>6, <2>8, <3>1, <3>2, <3>3, Zenon DEF Reach
  <2> QED
    BY <2>4, <2>9 DEF ReqInv
<1>5. ASSUME NEW s \in Sockets, Answer(s) PROVE ReqInv'
  <2>1. CASE AnswerActivates(s)
    BY <2>1, TakenAway DEF AnswerActivates, MayAnswer
  <2>2. CASE AnswerThrows(s)
    BY <2>2, TakenAway DEF AnswerThrows, MayAnswer
  <2>3. ASSUME NEW label, AnswerOther(s, label) PROVE ReqInv'
    BY <2>3, TakenAway DEF AnswerOther, MayAnswer
  <2> QED
    BY <1>5, <2>1, <2>2, <2>3 DEF Answer
<1>6. ASSUME NEW s \in Sockets, Disconnect(s) PROVE ReqInv'
  <2>1. ReqType'
    BY <1>6 DEF Disconnect, ReqInv, ReqType, Pendings
  <2>2. CASE pending.req /= 0 /\ pending.ws = s
    <3>1. /\ pending' = [pending EXCEPT !.ws = Gone, !.detached = TRUE]
          /\ timers' = timers \union {Armed(pending)}
      BY <1>6, <2>2 DEF Disconnect
    <3>2. /\ pending'.req = pending.req /\ pending'.run = pending.run /\ pending'.detached
          /\ Armed(pending') = Armed(pending)
      BY <3>1 DEF ReqInv, ReqType, Pendings, Armed
    <3>3. timers' = {Armed(pending)}
      BY <2>2, <3>1 DEF ReqInv, Reach
    <3> QED
      BY <1>6, <2>1, <2>2, <3>2, <3>3 DEF ReqInv, Reach, Disconnect
  <2>3. CASE ~(pending.req /= 0 /\ pending.ws = s)
    <3>1. UNCHANGED <<pending, timers, waiting, shown, left, lost, run, phase>>
      BY <1>6, <2>3 DEF Disconnect
    <3>2. open' = open \ {s}
      BY <1>6 DEF Disconnect
    <3> QED
      BY <2>1, <2>3, <3>1, <3>2 DEF ReqInv, Reach, Armed
  <2> QED
    BY <2>2, <2>3
<1>7. ASSUME NEW s \in Sockets, Connect(s) PROVE ReqInv'
  BY <1>7, LeftAlone DEF Connect, ReqInv, ReqType
<1>8. ASSUME NEW t \in timers, Expire(t) PROVE ReqInv'
  <2>1. pending.req /= 0 /\ pending.detached /\ t = Armed(pending)
    BY DEF ReqInv, Reach
  <2>2. Forgotten(pending) /\ waiting' = waiting \ {pending.req}
    BY <1>8, <2>1 DEF Expire, Armed
  <2> QED
    BY <1>8, <2>1, <2>2, TakenAway DEF Expire
<1>9. CASE Cancel
  <2>1. CASE pending.req = 0
    BY <1>9, <2>1, LeftAlone DEF Cancel, Rejected, ReqInv, ReqType
  <2>2. CASE pending.req /= 0
    BY <1>9, <2>2, TakenAway DEF Cancel, Rejected
  <2> QED
    BY <2>1, <2>2
<1>10. CASE StopLoop \/ UserTodo \/ UserRemoves \/ AgentTodo \/ UNCHANGED vars
            \/ \E on \in BOOLEAN : SetLoop(on)
  <2>1. UNCHANGED <<open, run, phase, runWs, lastReq, waiting, pending, timers, shown, lost, left>>
    BY <1>10 DEF StopLoop, UserTodo, UserRemoves, AgentTodo, SetLoop, vars
  <2> QED
    BY <2>1, LeftAlone DEF ReqInv, ReqType
<1>11. CASE Completes \/ CompletesCanceled \/ Fails
  <2>1. waiting = {} /\ Ended
    BY <1>11 DEF Completes, CompletesCanceled, Fails, CanEnd
  <2>2. pending.req = 0
    BY <2>1, NobodyWaits
  <2>3. UNCHANGED <<open, run, lastReq, waiting, pending, timers, lost>> /\ Idle
    BY <2>1 DEF Ended
  <2> QED
    BY <2>2, <2>3 DEF ReqInv, ReqType, Reach, Idle
<1>12. CASE ContinuationFires
  <2>1. ReqType'
    BY <1>12, PlanModeAssumption DEF ContinuationFires, ReqInv, ReqType
  <2> QED
    BY <1>12, <2>1, LeftAlone DEF ContinuationFires
<1>13. CASE ExitDraft \/ ExitExecution \/ ForceExit
  <2>1. ReqType'
    BY <1>13 DEF ExitDraft, ExitExecution, ForceExit, ReqInv, ReqType
  <2> QED
    BY <1>13, <2>1, LeftAlone DEF ExitDraft, ExitExecution, ForceExit
<1>14. CASE Crash
  BY <1>14, PlanModeAssumption DEF Crash, Idle, ReqInv, ReqType, Reach, NoPending, Pendings
<1> QED
  BY <1>1, <1>2, <1>3, <1>4, <1>5, <1>6, <1>7, <1>8, <1>9, <1>10, <1>11, <1>12, <1>13, <1>14
  DEF PlanNext

LEMMA ReqAlways == PlanSpec => []ReqInv
BY ReqInit, ReqStep, PTL DEF PlanSpec

\* Whoever comes back to the session finds the request its turn waits for and
\* can answer it, and if the browser is gone it is about to expire: only an
\* approval whose plan does not fit leaves a call that nothing can wake.
THEOREM Reachable == PlanSpec => []WaitersAreReachable
<1>1. ReqInv => WaitersAreReachable
  BY DEF ReqInv, Reach, WaitersAreReachable, WaitersArePending, RequestIsShown, GraceIsRunning
<1> QED
  BY <1>1, ReqAlways, PTL

-----------------------------------------------------------------------------
(* The todo items of a plan *)

\* A board the store may write: the unfinished items belong to one plan and
\* one of them at most is in progress.
Good(board) ==
    /\ board \in Boards
    /\ \A i, j \in Unfinished(board) : board[i].plan = board[j].plan
    /\ \A i, j \in InProgress(board) : i = j

\* The unfinished items of a new board are old ones or bound to p.
Binds(board, new, p) ==
    \A i \in Unfinished(new) :
        new[i].plan = p \/ (i \in Unfinished(board) /\ new[i].plan = board[i].plan)

LEMMA AtMostOne ==
  ASSUME NEW S, IsFiniteSet(S)
  PROVE  Cardinality(S) <= 1 <=> \A i, j \in S : i = j
<1>1. ASSUME Cardinality(S) <= 1, NEW i \in S, NEW j \in S, i /= j PROVE FALSE
  <2>1. IsFiniteSet({i}) /\ Cardinality({i}) = 1
    BY FS_Singleton
  <2>2. Cardinality({i} \union {j}) = Cardinality({i}) + 1
    BY <1>1, <2>1, FS_AddElement
  <2>3. Cardinality({i} \union {j}) <= Cardinality(S)
    BY <1>1, FS_Subset
  <2>4. Cardinality(S) \in Nat
    BY FS_CardinalityType
  <2> QED
    BY <1>1, <2>1, <2>2, <2>3, <2>4
<1>2. ASSUME \A i, j \in S : i = j PROVE Cardinality(S) <= 1
  <2>1. CASE S = {}
    BY <2>1, FS_EmptySet
  <2>2. ASSUME NEW i \in S PROVE Cardinality(S) <= 1
    <3>1. S = {i}
      BY <1>2, <2>2
    <3> QED
      BY <3>1, FS_Singleton
  <2> QED
    BY <2>1, <2>2
<1> QED
  BY <1>1, <1>2

LEMMA AddedGood ==
  ASSUME NEW b, Good(b), NEW p \in Plans, CanAdd(b, p)
  PROVE  Good(Added(b, p)) /\ Binds(b, Added(b, p), p)
<1> DEFINE f == CHOOSE i \in Free(b) : TRUE
<1>1. f \in Slots /\ f \in Free(b)
  BY DEF CanAdd, Free
<1> HIDE DEF f
<1>2. /\ Added(b, p) \in Boards
      /\ Added(b, p)[f] = [status |-> "pending", plan |-> p]
      /\ \A i \in Slots : i /= f => Added(b, p)[i] = b[i]
  BY <1>1 DEF Added, f, Good, Boards, Items, Open
<1>3. \A i \in Unfinished(Added(b, p)) : Added(b, p)[i].plan = p
  BY <1>1, <1>2 DEF Unfinished, CanAdd
<1>4. InProgress(Added(b, p)) \subseteq InProgress(b)
  BY <1>1, <1>2 DEF InProgress
<1> QED
  BY <1>2, <1>3, <1>4 DEF Good, Binds

LEMMA PlanSetGood ==
  ASSUME NEW b, Good(b), NEW p \in Plans, NEW new \in [Slots -> {"absent"} \union Open],
         CanSet(b, new)
  PROVE  Good(PlanSet(b, new, p)) /\ Binds(b, PlanSet(b, new, p), p)
<1> DEFINE c == PlanSet(b, new, p)
<1>1. c = [i \in Slots |-> c[i]]
  BY DEF PlanSet
<1>2. ASSUME NEW i \in Slots
      PROVE  /\ c[i] \in Items
             /\ c[i].status \in Open => c[i].status = new[i] /\ c[i].plan = p
  <2>1. c[i] = IF i \in Archive(b) THEN b[i]
               ELSE IF new[i] = "absent" THEN NoItem ELSE [status |-> new[i], plan |-> p]
    BY DEF PlanSet
  <2> HIDE DEF c
  <2>2. CASE i \in Archive(b)
    <3>1. b[i] \in Items /\ b[i].status \in Terminal
      BY <2>2 DEF Good, Boards, Archive
    <3> QED
      BY <2>1, <2>2, <3>1 DEF Open, Terminal
  <2>3. CASE i \notin Archive(b) /\ new[i] = "absent"
    BY <2>1, <2>3, TodoAssumption DEF Items, NoItem, Open
  <2>4. CASE i \notin Archive(b) /\ new[i] /= "absent"
    <3>1. new[i] \in Open /\ c[i] = [status |-> new[i], plan |-> p]
      BY <2>1, <2>4
    <3> QED
      BY <3>1 DEF Items
  <2> QED
    BY <2>2, <2>3, <2>4
<1> HIDE DEF c
<1>3. c \in Boards
  BY <1>1, <1>2 DEF Boards
<1>4. \A i \in Unfinished(c) : c[i].plan = p
  BY <1>2 DEF Unfinished
<1>5. InProgress(c) \subseteq {i \in Slots : new[i] = "in_progress"}
  BY <1>2 DEF InProgress, Open
<1>6. IsFiniteSet({i \in Slots : new[i] = "in_progress"})
  BY TodoAssumption, FS_Subset
<1>7. \A i, j \in {k \in Slots : new[k] = "in_progress"} : i = j
  BY <1>6, AtMostOne DEF CanSet
<1>8. Good(c) /\ Binds(b, c, p)
  BY <1>3, <1>4, <1>5, <1>7 DEF Good, Binds
<1> QED
  BY <1>8 DEF c

LEMMA StatusSetGood ==
  ASSUME NEW b, Good(b), NEW p, NEW i \in Slots, NEW status \in Open \union {"completed"},
         CanSetStatus(b, i)
  PROVE  Good(StatusSet(b, i, status)) /\ Binds(b, StatusSet(b, i, status), p)
<1> DEFINE c == StatusSet(b, i, status)
<1>1. \A j \in Slots : b[j] \in Items
  BY DEF Good, Boards
<1>2. c = [j \in Slots |-> c[j]]
  BY DEF StatusSet
<1>3. c[i] \in Items /\ c[i].status = status /\ c[i].plan = b[i].plan
  BY <1>1 DEF StatusSet, Items, Terminal
<1>4. ASSUME NEW j \in Slots, j /= i
      PROVE  /\ c[j] \in Items /\ c[j].plan = b[j].plan
             /\ c[j].status \in Open => b[j].status \in Open
             /\ c[j].status = "in_progress" =>
                  status /= "in_progress" /\ b[j].status = "in_progress"
  <2>1. c[j] = IF status = "in_progress" /\ j \in InProgress(b)
               THEN [b[j] EXCEPT !.status = "pending"] ELSE b[j]
    BY <1>4 DEF StatusSet
  <2> HIDE DEF c
  <2>2. CASE status = "in_progress" /\ j \in InProgress(b)
    <3>1. c[j] = [b[j] EXCEPT !.status = "pending"] /\ b[j].status = "in_progress"
      BY <2>1, <2>2 DEF InProgress
    <3> QED
      BY <1>1, <3>1 DEF Items, Open
  <2>3. CASE ~(status = "in_progress" /\ j \in InProgress(b))
    <3>1. c[j] = b[j]
      BY <2>1, <2>3
    <3> QED
      BY <1>1, <2>3, <3>1 DEF InProgress
  <2> QED
    BY <2>2, <2>3
<1> HIDE DEF c
<1>5. c \in Boards
  BY <1>2, <1>3, <1>4 DEF Boards
<1>6. \A j \in Unfinished(c) : j \in Unfinished(b) /\ c[j].plan = b[j].plan
  BY <1>3, <1>4 DEF Unfinished, CanSetStatus
<1>7. \A j, k \in InProgress(c) : j = k
  <2>1. CASE status = "in_progress"
    <3>1. \A j \in InProgress(c) : j = i
      BY <1>4, <2>1 DEF InProgress
    <3> QED
      BY <3>1
  <2>2. CASE status /= "in_progress"
    <3>1. InProgress(c) \subseteq InProgress(b)
      BY <1>3, <1>4, <2>2 DEF InProgress
    <3> QED
      BY <3>1 DEF Good
  <2> QED
    BY <2>1, <2>2
<1>8. Good(c) /\ Binds(b, c, p)
  BY <1>5, <1>6, <1>7 DEF Good, Binds
<1> QED
  BY <1>8 DEF c

\* Boards on which items only left the unfinished ones, or lost their progress.
LEMMA FewerGood ==
  ASSUME NEW b, Good(b), NEW p, NEW c \in Boards,
         \A i \in Unfinished(c) : i \in Unfinished(b) /\ c[i].plan = b[i].plan,
         InProgress(c) \subseteq InProgress(b)
  PROVE  Good(c) /\ Binds(b, c, p)
BY DEF Good, Binds

LEMMA RemovedGood ==
  ASSUME NEW b, Good(b), NEW p, NEW gone
  PROVE  Good(Removed(b, gone)) /\ Binds(b, Removed(b, gone), p)
<1> DEFINE c == Removed(b, gone)
<1>1. c \in Boards
  BY TodoAssumption DEF Good, Removed, Boards, Items, NoItem, Unbound
<1>2. \A i \in Slots : c[i] = b[i] \/ c[i] = NoItem
  BY DEF Removed
<1> HIDE DEF c
<1>3. /\ \A i \in Unfinished(c) : i \in Unfinished(b) /\ c[i].plan = b[i].plan
      /\ InProgress(c) \subseteq InProgress(b)
  BY <1>2 DEF Unfinished, InProgress, Open, NoItem
<1>4. Good(c) /\ Binds(b, c, p)
  BY <1>1, <1>3, FewerGood
<1> QED
  BY <1>4 DEF c

LEMMA DismissedGood ==
  ASSUME NEW b, Good(b), NEW p, NEW these
  PROVE  Good(Dismissed(b, these)) /\ Binds(b, Dismissed(b, these), p)
<1> DEFINE c == Dismissed(b, these)
<1>1. \A i \in Slots : b[i] \in Items
  BY DEF Good, Boards
<1>2. \A i \in Slots : c[i] = b[i] \/ (c[i] \in Items /\ c[i].status = "dismissed")
  BY <1>1 DEF Dismissed, Items, Terminal
<1>3. c = [i \in Slots |-> c[i]]
  BY DEF Dismissed
<1> HIDE DEF c
<1>4. c \in Boards
  BY <1>1, <1>2, <1>3 DEF Boards
<1>5. \A i \in Slots : c[i].status /= "dismissed" => c[i] = b[i]
  BY <1>2
<1>6. \A i \in Unfinished(c) : i \in Unfinished(b) /\ c[i].plan = b[i].plan
  BY <1>5 DEF Unfinished, Open
<1>7. InProgress(c) \subseteq InProgress(b)
  BY <1>5 DEF InProgress
<1>8. Good(c) /\ Binds(b, c, p)
  BY <1>4, <1>6, <1>7, FewerGood
<1> QED
  BY <1>8 DEF c

LEMMA ResumedGood ==
  ASSUME NEW b, Good(b), NEW p, NEW i \in Blocked(b)
  PROVE  Good(Resumed(b, i)) /\ Binds(b, Resumed(b, i), p)
<1> DEFINE c == Resumed(b, i)
<1>1. i \in Slots /\ b[i].status = "blocked" /\ \A j \in Slots : b[j] \in Items
  BY DEF Good, Boards, Blocked
<1>2. /\ c \in Boards
      /\ c[i] = [status |-> "pending", plan |-> b[i].plan]
      /\ \A j \in Slots \ {i} : c[j] = b[j]
  BY <1>1 DEF Good, Resumed, Boards, Items, Open
<1> HIDE DEF c
<1>3. /\ \A j \in Unfinished(c) : j \in Unfinished(b) /\ c[j].plan = b[j].plan
      /\ InProgress(c) \subseteq InProgress(b)
  BY <1>1, <1>2 DEF Unfinished, InProgress, Open
<1>4. Good(c) /\ Binds(b, c, p)
  BY <1>2, <1>3, FewerGood
<1> QED
  BY <1>4 DEF c

\* The operations the user's routes and the todo tool have in common
LEMMA EditGood ==
  ASSUME NEW p \in Plans, Good(todos), TodoEdit(p) \/ TodoRemoval
  PROVE  Good(todos') /\ Binds(todos, todos', p)
<1>1. CASE CanAdd(todos, p) /\ todos' = Added(todos, p)
  BY <1>1, AddedGood
<1>2. ASSUME NEW new \in [Slots -> {"absent"} \union Open], CanSet(todos, new),
             todos' = PlanSet(todos, new, p)
      PROVE  Good(todos') /\ Binds(todos, todos', p)
  BY <1>2, PlanSetGood
<1>3. ASSUME NEW i \in Slots, NEW status \in Open \union {"completed"}, CanSetStatus(todos, i),
             todos' = StatusSet(todos, i, status)
      PROVE  Good(todos') /\ Binds(todos, todos', p)
  BY <1>3, StatusSetGood
<1>4. CASE TodoRemoval
  BY <1>4, RemovedGood DEF TodoRemoval
<1> QED
  BY <1>1, <1>2, <1>3, <1>4 DEF TodoEdit

\* The items of a plan under execution are bound to it, or were set by the
\* user without a plan.
Bound(p, board) ==
    p.state = "plan_executing" =>
        \A i \in Unfinished(board) : board[i].plan \in {p.active, Unbound}

TodoInv ==
    /\ plan \in PlanRecords
    /\ Good(todos)
    /\ Bound(plan, todos)

\* Where the plan stays, is left or is replaced by a draft, items that are old
\* or bound as the plan allows stay bound as it allows.
LEMMA BoundKept ==
  ASSUME Bound(plan, todos), NEW p \in {plan.active, Unbound}, Binds(todos, todos', p),
         plan' = plan \/ plan'.state /= "plan_executing"
  PROVE  Bound(plan', todos')
BY DEF Bound, Binds

LEMMA SameItems ==
  ASSUME TodoInv, UNCHANGED todos, plan' \in PlanRecords,
         plan' = plan \/ plan'.state /= "plan_executing"
  PROVE  TodoInv'
BY DEF TodoInv, Bound

LEMMA PlanRange == 0 \in Plans /\ \A q \in Requests : q \in Plans
BY PlanModeAssumption DEF Requests

\* The plan after a refresh is the plan or no plan.
LEMMA KeptPlan ==
  ASSUME NEW p \in PlanRecords, NEW l, NEW board
  PROVE  /\ PlanKept(p, l, board) \in PlanRecords
         /\ PlanKept(p, l, board) = p \/ PlanKept(p, l, board).state = "normal"
BY PlanModeAssumption, PlanRange DEF PlanKept, PlanRecords, PlanningStates

LEMMA TodoInit == Init => TodoInv
<1> SUFFICES ASSUME Init PROVE TodoInv
  OBVIOUS
<1>1. todos \in Boards
  BY TodoAssumption DEF Init, Boards, Items, NoItem, Unbound
<1>2. Unfinished(todos) = {} /\ InProgress(todos) = {}
  BY DEF Init, Unfinished, InProgress, NoItem, Open
<1>3. plan \in PlanRecords
  BY PlanRange DEF Init, PlanRecords, PlanningStates
<1> QED
  BY <1>1, <1>2, <1>3 DEF TodoInv, Good, Bound

LEMMA TodoStep ==
  ASSUME ReqInv, TodoInv, [PlanNext]_vars PROVE TodoInv'
<1> USE DEF modeVars
<1>1. ASSUME NEW enter \in BOOLEAN, Resolved(enter), UNCHANGED todos PROVE TodoInv'
  <2>1. plan' = plan \/ plan' = [plan EXCEPT !.state = "plan_drafting"]
    BY <1>1 DEF Resolved
  <2>2. plan' \in PlanRecords /\ (plan' = plan \/ plan'.state /= "plan_executing")
    BY <2>1 DEF TodoInv, PlanRecords, PlanningStates
  <2> QED
    BY <1>1, <2>2, SameItems
<1>2. ASSUME NEW l, plan' = PlanKept(plan, l, todos'), UNCHANGED todos PROVE TodoInv'
  <2>1. plan' \in PlanRecords /\ (plan' = plan \/ plan'.state = "normal")
    BY <1>2, KeptPlan DEF TodoInv
  <2> QED
    BY <1>2, <2>1, SameItems
<1>3. ASSUME plan' = [state |-> "normal", active |-> 0], UNCHANGED todos PROVE TodoInv'
  BY <1>3, SameItems, PlanRange DEF PlanRecords, PlanningStates
<1>4. ASSUME NEW p \in {plan.active, Unbound}, Good(todos'), Binds(todos, todos', p),
             plan' \in PlanRecords, plan' = plan \/ plan'.state /= "plan_executing"
      PROVE  TodoInv'
  BY <1>4, BoundKept DEF TodoInv
<1>5. ASSUME UNCHANGED <<plan, todos>> PROVE TodoInv'
  BY <1>5, SameItems DEF TodoInv
<1>6. ASSUME NEW s \in Sockets, NEW enter \in BOOLEAN, Chat(s, enter) PROVE TodoInv'
  BY <1>1, <1>6 DEF Chat
<1>7. ASSUME NEW enter \in BOOLEAN, ChatRefused(enter) PROVE TodoInv'
  BY <1>1, <1>7 DEF ChatRefused
<1>8. CASE Activated
  <2>1. CASE sampled = "plan_drafting"
    BY <1>5, <1>8, <2>1 DEF Activated
  <2>2. CASE sampled /= "plan_drafting"
    <3>1. plan' = PlanKept(plan, Confirmed(loop), todos) /\ UNCHANGED todos
      BY <1>8, <2>2 DEF Activated
    <3> QED
      BY <1>2, <3>1
  <2> QED
    BY <2>1, <2>2
<1>9. ASSUME NEW s \in Sockets, AnswerActivates(s) PROVE TodoInv'
  <2> DEFINE q == pending.req
             p == [state |-> "plan_executing", active |-> q]
  <2>1. PICK new \in NewPlans : /\ CanSet(todos, new) /\ todos' = PlanSet(todos, new, q)
                                /\ plan' = PlanKept(p, Confirmed(loop), todos')
    BY <1>9 DEF AnswerActivates, Refreshed
  <2>2. new \in [Slots -> {"absent"} \union Open]
    BY DEF NewPlans, Open
  <2>3. q \in Plans
    BY PlanModeAssumption DEF ReqInv, ReqType, Pendings
  <2>4. Good(todos') /\ Binds(todos, todos', q)
    BY <2>1, <2>2, <2>3, PlanSetGood DEF TodoInv
  <2>5. \A i \in Unfinished(todos') : todos'[i].plan = q
    <3> SUFFICES ASSUME NEW i \in Unfinished(todos') PROVE todos'[i].plan = q
      OBVIOUS
    <3>1. todos'[i] = IF i \in Archive(todos) THEN todos[i]
                      ELSE IF new[i] = "absent" THEN NoItem ELSE [status |-> new[i], plan |-> q]
      BY <2>1 DEF PlanSet, Unfinished
    <3>2. i \in Slots /\ todos'[i].status \in Open
      BY DEF Unfinished
    <3>3. i \notin Archive(todos)
      BY <3>1, <3>2 DEF Archive, Open, Terminal
    <3>4. new[i] /= "absent"
      BY <3>1, <3>2, <3>3 DEF NoItem, Open
    <3> QED
      BY <3>1, <3>3, <3>4
  <2>6. p \in PlanRecords
    BY <2>3 DEF PlanRecords, PlanningStates
  <2>7. plan' \in PlanRecords /\ (plan' = p \/ plan'.state = "normal")
    BY <2>1, <2>6, KeptPlan
  <2> QED
    BY <2>4, <2>5, <2>7 DEF TodoInv, Bound
<1>10. ASSUME NEW s \in Sockets, NEW label, AnswerOther(s, label) PROVE TodoInv'
  BY <1>2, <1>10 DEF AnswerOther, Refreshed
<1>11. ASSUME NEW s \in Sockets, Answer(s) PROVE TodoInv'
  BY <1>5, <1>9, <1>10, <1>11 DEF Answer, AnswerThrows
<1>12. CASE Completes
  BY <1>2, <1>12 DEF Completes
<1>13. CASE ExitDraft \/ ExitExecution \/ ForceExit
  BY <1>3, <1>13 DEF ExitDraft, ExitExecution, ForceExit
<1>14. ASSUME NEW on \in BOOLEAN, SetLoop(on) PROVE TodoInv'
  BY <1>2, <1>14 DEF SetLoop, Refreshed
<1>15. CASE UserTodo
  <2>1. Good(todos') /\ Binds(todos, todos', Unbound)
    <3>1. CASE TodoEdit(Unbound)
      BY <3>1, EditGood, TodoAssumption DEF TodoInv
    <3>2. ASSUME NEW these, todos' = Dismissed(todos, these)
          PROVE  Good(todos') /\ Binds(todos, todos', Unbound)
      BY <3>2, DismissedGood DEF TodoInv
    <3>3. ASSUME NEW i \in Blocked(todos), todos' = Resumed(todos, i)
          PROVE  Good(todos') /\ Binds(todos, todos', Unbound)
      BY <3>3, ResumedGood DEF TodoInv
    <3> QED
      BY <1>15, <3>1, <3>2, <3>3 DEF UserTodo
  <2>2. plan' = PlanKept(plan, loop, todos')
    BY <1>15 DEF UserTodo, Refreshed
  <2>3. plan' \in PlanRecords /\ (plan' = plan \/ plan'.state = "normal")
    BY <2>2, KeptPlan DEF TodoInv
  <2> QED
    BY <1>4, <2>1, <2>3
<1>16. CASE UserRemoves \/ AgentTodo
  <2>1. UNCHANGED plan /\ (TodoEdit(plan.active) \/ TodoRemoval)
    BY <1>16 DEF UserRemoves, AgentTodo
  <2>2. plan.active \in Plans
    BY DEF TodoInv, PlanRecords
  <2>3. Good(todos') /\ Binds(todos, todos', plan.active)
    BY <2>1, <2>2, EditGood DEF TodoInv
  <2> QED
    BY <1>4, <2>1, <2>3 DEF TodoInv
<1>17. CASE \/ PreparationFails \/ Cancel \/ StopLoop \/ CompletesCanceled \/ Fails
            \/ ContinuationFires \/ Crash \/ UNCHANGED vars
            \/ \E approval \in BOOLEAN : Ask(approval)
            \/ \E s \in Sockets : Disconnect(s) \/ Connect(s)
            \/ \E t \in timers : Expire(t)
  <2>1. UNCHANGED <<plan, todos>>
    BY <1>17 DEF PreparationFails, Cancel, StopLoop, CompletesCanceled, Fails, ContinuationFires,
                 Crash, Ask, Disconnect, Connect, Expire, vars
  <2> QED
    BY <1>5, <2>1
<1> QED
  BY <1>6, <1>7, <1>8, <1>11, <1>12, <1>13, <1>14, <1>15, <1>16, <1>17 DEF PlanNext

LEMMA TodoAlways == PlanSpec => []TodoInv
<1>1. ReqInv /\ TodoInv /\ [PlanNext]_vars => TodoInv'
  BY TodoStep
<1> QED
  BY <1>1, TodoInit, ReqAlways, PTL DEF PlanSpec

\* Whatever the user, the agent and the answers do to the items: they belong
\* to one plan, which is the one under execution, and one is in progress.
THEOREM OnePlan == PlanSpec => []TodosFollowThePlan
<1>1. TodoInv => TodosFollowThePlan
  <2> SUFFICES ASSUME TodoInv PROVE TodosFollowThePlan
    OBVIOUS
  <2>1. IsFiniteSet(InProgress(todos))
    BY TodoAssumption, FS_Subset DEF InProgress
  <2>2. Cardinality(InProgress(todos)) <= 1
    BY <2>1, AtMostOne DEF TodoInv, Good
  <2> QED
    BY <2>2 DEF TodoInv, Good, Bound, TodosFollowThePlan
<1> QED
  BY <1>1, TodoAlways, PTL

-----------------------------------------------------------------------------
(* The end of an execution *)

LEMMA KeptEnds ==
  ASSUME NEW p, NEW l, NEW board, PlanKept(p, l, board) /= p
  PROVE  Unfinished(board) = {}
BY DEF PlanKept

LEMMA ExitStep ==
  ASSUME loop \in Loops, TodoInv, [PlanNext]_vars,
         plan.state = "plan_executing", plan'.state = "normal"
  PROVE  \/ Unfinished(todos') = {}
         \/ loop'.paused /\ ~loop'.enabled /\ ~loop'.running
<1> USE DEF modeVars
<1> DEFINE Earned == Unfinished(todos') = {} \/ (loop'.paused /\ ~loop'.enabled /\ ~loop'.running)
<1>1. plan' /= plan
  OBVIOUS
<1>2. ASSUME NEW enter \in BOOLEAN, Resolved(enter) PROVE Earned
  BY <1>1, <1>2 DEF Resolved, TodoInv, PlanRecords
<1> HIDE DEF Earned
<1>3. ASSUME NEW s \in Sockets, NEW enter \in BOOLEAN, Chat(s, enter) PROVE Earned
  BY <1>2, <1>3 DEF Chat
<1>4. ASSUME NEW enter \in BOOLEAN, ChatRefused(enter) PROVE Earned
  BY <1>2, <1>4 DEF ChatRefused
<1>5. CASE Activated
  <2>1. plan' = plan \/ plan' = PlanKept(plan, Confirmed(loop), todos')
    BY <1>5 DEF Activated
  <2> QED
    BY <1>1, <2>1, KeptEnds DEF Earned
<1>6. ASSUME NEW s \in Sockets, Answer(s) PROVE Earned
  <2>1. CASE AnswerActivates(s) \/ AnswerThrows(s)
    BY <2>1 DEF AnswerActivates, AnswerThrows, Approves
  <2>2. ASSUME NEW label, AnswerOther(s, label) PROVE Earned
    <3>1. plan' = PlanKept(plan, Confirmed(loop), todos')
      BY <2>2 DEF AnswerOther, Refreshed
    <3> QED
      BY <1>1, <3>1, KeptEnds DEF Earned
  <2> QED
    BY <1>6, <2>1, <2>2 DEF Answer
<1>7. CASE Completes
  <2>1. plan' = PlanKept(plan, loop, todos')
    BY <1>7 DEF Completes
  <2> QED
    BY <1>1, <2>1, KeptEnds DEF Earned
<1>8. CASE ExitDraft \/ ExitExecution
  BY <1>8 DEF ExitDraft, ExitExecution, Earned
<1>9. CASE ForceExit
  BY <1>9 DEF ForceExit, ExitForced, Stopped, Loops, Earned
<1>10. ASSUME NEW on \in BOOLEAN, SetLoop(on) PROVE Earned
  BY <1>1, <1>10, KeptEnds DEF SetLoop, Refreshed, Earned
<1>11. CASE UserTodo
  <2>1. plan' = PlanKept(plan, loop, todos')
    BY <1>11 DEF UserTodo, Refreshed
  <2> QED
    BY <1>1, <2>1, KeptEnds DEF Earned
<1>12. CASE \/ PreparationFails \/ Cancel \/ StopLoop \/ CompletesCanceled \/ Fails
            \/ ContinuationFires \/ Crash \/ UserRemoves \/ AgentTodo \/ UNCHANGED vars
            \/ \E approval \in BOOLEAN : Ask(approval)
            \/ \E s \in Sockets : Disconnect(s) \/ Connect(s)
            \/ \E t \in timers : Expire(t)
  <2>1. UNCHANGED plan
    BY <1>12 DEF PreparationFails, Cancel, StopLoop, CompletesCanceled, Fails, ContinuationFires,
                 Crash, UserRemoves, AgentTodo, Ask, Disconnect, Connect, Expire, vars
  <2> QED
    BY <1>1, <2>1
<1> QED
  BY <1>3, <1>4, <1>5, <1>6, <1>7, <1>8, <1>9, <1>10, <1>11, <1>12 DEF PlanNext, Earned

\* A plan under execution is left when its items are finished, or by the
\* forced exit, which leaves the loop off and paused.
THEOREM ExitEarned == PlanSpec => ExitIsEarned
<1>1. LoopInv /\ TodoInv /\ [PlanNext]_vars
      => [plan.state = "plan_executing" /\ plan'.state = "normal" =>
            \/ Unfinished(todos') = {}
            \/ loop'.paused /\ ~loop'.enabled /\ ~loop'.running]_vars
  BY ExitStep DEF LoopInv
<1> QED
  BY <1>1, LoopAlways, TodoAlways, PTL DEF PlanSpec, ExitIsEarned

-----------------------------------------------------------------------------
(* Every field holds what its handler writes *)

\* What the other invariants do not say; a run that prepares or runs has an id.
RestInv ==
    /\ sampled \in PlanningStates
    /\ canceled \in BOOLEAN /\ scheduled \in BOOLEAN
    /\ waiting \subseteq Requests /\ lost \subseteq Requests /\ left \subseteq Requests
    /\ shown \in [req : 0 .. MaxRequests, run : 0 .. MaxRuns]
    /\ phase /= "idle" => run \in RunIds

LEMMA RestInit == Init => RestInv
<1>1. Init => shown \in [req : 0 .. MaxRequests, run : 0 .. MaxRuns]
  BY PlanModeAssumption DEF Init, NotShown
<1> QED
  BY <1>1 DEF Init, RestInv, PlanningStates

\* A request that is forgotten leaves nothing of another type.
LEMMA RestForgotten ==
  ASSUME RestInv, Forgotten(pending), waiting' \in {waiting, waiting \ {pending.req}}
  PROVE  /\ waiting' \subseteq Requests /\ left' \subseteq Requests
         /\ shown' \in [req : 0 .. MaxRequests, run : 0 .. MaxRuns]
BY PlanModeAssumption DEF RestInv, Forgotten, ShownWithout, NotShown

LEMMA RestStep ==
  ASSUME LoopInv, ReqInv, TodoInv, RestInv, [PlanNext]_vars PROVE RestInv'
<1> USE DEF reqVars, runVars
<1>1. ASSUME NEW s \in Sockets, NEW enter \in BOOLEAN, Chat(s, enter) PROVE RestInv'
  <2>1. plan'.state \in PlanningStates
    BY <1>1 DEF Chat, Resolved, TodoInv, PlanRecords, PlanningStates
  <2>2. run' \in RunIds
    BY <1>1, PlanModeAssumption DEF Chat, ReqInv, ReqType, RunIds
  <2> QED
    BY <1>1, <2>1, <2>2 DEF Chat, RestInv
<1>2. ASSUME NEW enter \in BOOLEAN, ChatRefused(enter) PROVE RestInv'
  BY <1>2 DEF ChatRefused, RestInv
<1>3. CASE Activated \/ PreparationFails
  BY <1>3 DEF Activated, PreparationFails, Idle, RestInv, PlanningStates
<1>4. ASSUME NEW approval \in BOOLEAN, Ask(approval) PROVE RestInv'
  <2>1. lastReq + 1 \in Requests /\ lastReq + 1 \in 0 .. MaxRequests
    BY <1>4, PlanModeAssumption DEF Ask, ReqInv, ReqType, Requests
  <2>2. shown' \in [req : 0 .. MaxRequests, run : 0 .. MaxRuns]
    BY <1>4, <2>1 DEF Ask, ReqInv, ReqType
  <2> QED
    BY <1>4, <2>1, <2>2 DEF Ask, RestInv
<1>5. ASSUME NEW s \in Sockets, Answer(s) PROVE RestInv'
  <2>1. Forgotten(pending) /\ waiting' \in {waiting, waiting \ {pending.req}} /\ UNCHANGED runVars
    BY <1>5 DEF Answer, AnswerActivates, AnswerThrows, AnswerOther
  <2>2. lost' \subseteq Requests
    <3>1. pending.req /= 0 /\ pending.req \in 0 .. MaxRequests
      BY <1>5 DEF Answer, AnswerActivates, AnswerThrows, AnswerOther, MayAnswer, ReqInv, ReqType,
                  Pendings
    <3>2. pending.req \in Requests
      BY <3>1, PlanModeAssumption DEF Requests
    <3> QED
      BY <1>5, <3>2 DEF Answer, AnswerActivates, AnswerThrows, AnswerOther, RestInv
  <2> QED
    BY <2>1, <2>2, RestForgotten DEF RestInv
<1>6. ASSUME NEW s \in Sockets, Disconnect(s) \/ Connect(s) PROVE RestInv'
  BY <1>6 DEF Disconnect, Connect, RestInv
<1>7. ASSUME NEW t \in timers, Expire(t) PROVE RestInv'
  <2>1. CASE Forgotten(pending) /\ waiting' = waiting \ {pending.req}
    BY <1>7, <2>1, RestForgotten DEF Expire, RestInv
  <2>2. CASE UNCHANGED <<shown, left, waiting, canceled>>
    BY <1>7, <2>2 DEF Expire, RestInv
  <2> QED
    BY <1>7, <2>1, <2>2 DEF Expire
<1>8. CASE Cancel
  <2>1. CASE Forgotten(pending) /\ waiting' = waiting \ {pending.req}
    BY <1>8, <2>1, RestForgotten DEF Cancel, RestInv
  <2>2. CASE UNCHANGED <<shown, left, waiting>>
    BY <1>8, <2>2 DEF Cancel, RestInv
  <2> QED
    BY <1>8, <2>1, <2>2 DEF Cancel, Rejected
<1>9. CASE StopLoop \/ UserTodo \/ UserRemoves \/ AgentTodo \/ UNCHANGED vars
           \/ \E on \in BOOLEAN : SetLoop(on)
  <2>1. UNCHANGED <<runVars, reqVars>>
    BY <1>9 DEF StopLoop, UserTodo, UserRemoves, AgentTodo, SetLoop, vars
  <2> QED
    BY <2>1 DEF RestInv
<1>10. CASE Completes \/ CompletesCanceled \/ Fails
  <2>1. Idle /\ UNCHANGED <<run, reqVars>> /\ scheduled' \in BOOLEAN
    BY <1>10 DEF Completes, CompletesCanceled, Fails, Ended, Continues, RestInv
  <2> QED
    BY <2>1 DEF Idle, RestInv, PlanningStates
<1>11. CASE ContinuationFires
  <2>1. phase' /= "idle" => run' \in RunIds
    BY <1>11, PlanModeAssumption DEF ContinuationFires, ReqInv, ReqType, RestInv, RunIds
  <2> QED
    BY <1>11, <2>1 DEF ContinuationFires, RestInv, PlanningStates
<1>12. CASE ExitDraft \/ ExitExecution \/ ForceExit
  <2>1. shown' \in [req : 0 .. MaxRequests, run : 0 .. MaxRuns]
    BY <1>12, PlanModeAssumption DEF ExitDraft, ExitExecution, ForceExit, RestInv, NotShown
  <2>2. /\ left' \subseteq Requests /\ canceled' \in BOOLEAN
        /\ UNCHANGED <<sampled, scheduled, waiting, lost, phase, run>>
    BY <1>12 DEF ExitDraft, ExitExecution, ForceExit, RestInv
  <2> QED
    BY <2>1, <2>2 DEF RestInv
<1>13. CASE Crash
  BY <1>13 DEF Crash, Idle, RestInv, PlanningStates
<1> QED
  BY <1>1, <1>2, <1>3, <1>4, <1>5, <1>6, <1>7, <1>8, <1>9, <1>10, <1>11, <1>12, <1>13
  DEF PlanNext

\* Timers included: one belongs to the pending request, whose run runs.
THEOREM TypeCorrect == PlanSpec => []PlanTypeOK
<1>1. ReqInv /\ RestInv => timers \subseteq [req : Requests, run : RunIds]
  BY DEF ReqInv, Reach, RestInv, Armed
<1>2. LoopInv /\ ReqInv /\ TodoInv /\ RestInv => PlanTypeOK
  BY <1>1 DEF LoopInv, Loops, ReqInv, ReqType, Pendings, TodoInv, PlanRecords, Good, RestInv,
              PlanTypeOK
<1>3. LoopInv /\ ReqInv /\ TodoInv /\ RestInv /\ [PlanNext]_vars => RestInv'
  BY RestStep
<1> QED
  BY <1>2, <1>3, RestInit, LoopAlways, ReqAlways, TodoAlways, PTL DEF PlanSpec
=============================================================================
