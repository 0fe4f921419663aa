-------------------------- MODULE SubAgentsProofs --------------------------
(***************************************************************************)
(* What the sub-agent manager keeps for every number of sub-agents,        *)
(* parents, waiting callers and restarts, also when a sub-agent is resumed *)
(* while executions of its canceled runs go on.                            *)
(***************************************************************************)
EXTENDS SubAgents, SequenceTheorems, FiniteSetTheorems, TLAPS

-----------------------------------------------------------------------------
(* Queues *)

In(a, q) == \E k \in DOMAIN q : q[k] = a

\* A queue of sub-agents, each in it once.
Queues == {q \in Seq(Agents) : \A k, l \in DOMAIN q : q[k] = q[l] => k = l}

LEMMA EmptyQueue == <<>> \in Queues /\ \A a : ~In(a, <<>>)
BY DEF Queues, In

LEMMA AppendQueue ==
  ASSUME NEW q \in Queues, NEW a \in Agents, ~In(a, q)
  PROVE  Append(q, a) \in Queues /\ \A b : In(b, Append(q, a)) <=> In(b, q) \/ b = a
<1>1. /\ Append(q, a) \in Seq(Agents) /\ Len(Append(q, a)) = Len(q) + 1 /\ Len(q) \in Nat
      /\ DOMAIN q = 1 .. Len(q) /\ DOMAIN Append(q, a) = 1 .. (Len(q) + 1)
      /\ \A k \in 1 .. Len(q) : Append(q, a)[k] = q[k]
      /\ Append(q, a)[Len(q) + 1] = a
  BY DEF Queues
<1>2. ASSUME NEW k \in DOMAIN Append(q, a), NEW l \in DOMAIN Append(q, a),
             Append(q, a)[k] = Append(q, a)[l]
      PROVE  k = l
  <2>1. CASE k \in DOMAIN q /\ l \in DOMAIN q
    BY <1>1, <1>2, <2>1 DEF Queues
  <2>2. CASE k \in DOMAIN q /\ l = Len(q) + 1
    BY <1>1, <1>2, <2>2 DEF In
  <2>3. CASE l \in DOMAIN q /\ k = Len(q) + 1
    BY <1>1, <1>2, <2>3 DEF In
  <2> QED
    BY <1>1, <2>1, <2>2, <2>3
<1>3. ASSUME NEW b PROVE In(b, Append(q, a)) <=> In(b, q) \/ b = a
  BY <1>1 DEF In
<1> QED
  BY <1>1, <1>2, <1>3 DEF Queues

LEMMA TailQueue ==
  ASSUME NEW q \in Queues, q # <<>>
  PROVE  /\ Head(q) \in Agents /\ In(Head(q), q)
         /\ Tail(q) \in Queues /\ \A b : In(b, Tail(q)) <=> In(b, q) /\ b # Head(q)
<1>1. /\ Tail(q) \in Seq(Agents) /\ Len(q) \in Nat \ {0} /\ Len(Tail(q)) = Len(q) - 1
      /\ DOMAIN q = 1 .. Len(q) /\ DOMAIN Tail(q) = 1 .. (Len(q) - 1)
      /\ \A k \in 1 .. (Len(q) - 1) : Tail(q)[k] = q[k + 1]
      /\ Head(q) = q[1] /\ Head(q) \in Agents
  BY DEF Queues
<1>2. ASSUME NEW k \in DOMAIN Tail(q), NEW l \in DOMAIN Tail(q), Tail(q)[k] = Tail(q)[l]
      PROVE  k = l
  BY <1>1, <1>2 DEF Queues
<1>3. ASSUME NEW b PROVE In(b, Tail(q)) <=> In(b, q) /\ b # Head(q)
  <2>1. ASSUME In(b, Tail(q)) PROVE In(b, q) /\ b # Head(q)
    <3>1. PICK k \in DOMAIN Tail(q) : Tail(q)[k] = b
      BY <2>1 DEF In
    <3>2. k + 1 \in DOMAIN q /\ q[k + 1] = b /\ k + 1 # 1 /\ 1 \in DOMAIN q
      BY <1>1, <3>1
    <3> QED
      BY <1>1, <3>2 DEF In, Queues
  <2>2. ASSUME In(b, q), b # Head(q) PROVE In(b, Tail(q))
    <3>1. PICK k \in DOMAIN q : q[k] = b
      BY <2>2 DEF In
    <3>2. k - 1 \in DOMAIN Tail(q) /\ Tail(q)[k - 1] = b
      BY <1>1, <2>2, <3>1
    <3> QED
      BY <3>2 DEF In
  <2> QED
    BY <2>1, <2>2
<1>4. In(Head(q), q)
  BY <1>1 DEF In
<1> QED
  BY <1>1, <1>2, <1>3, <1>4 DEF Queues

LEMMA WithoutQueue ==
  ASSUME NEW q \in Queues, NEW a
  PROVE  Without(q, a) \in Queues /\ \A b : In(b, Without(q, a)) <=> In(b, q) /\ b # a
<1>1. CASE ~In(a, q)
  BY <1>1 DEF Without, In
<1>2. CASE In(a, q)
  <2> DEFINE m == CHOOSE k \in DOMAIN q : q[k] = a
             w == Without(q, a)
  <2>1. m \in DOMAIN q /\ q[m] = a
    BY <1>2 DEF In
  <2>2. w = SubSeq(q, 1, m - 1) \o SubSeq(q, m + 1, Len(q))
    BY <1>2 DEF Without, In
  <2> HIDE DEF m, w
  <2>3. q \in Seq(Agents) /\ Len(q) \in Nat /\ DOMAIN q = 1 .. Len(q) /\ m \in 1 .. Len(q)
    BY <2>1 DEF Queues
  <2>4. /\ SubSeq(q, 1, m - 1) \in Seq(Agents) /\ Len(SubSeq(q, 1, m - 1)) = m - 1
        /\ \A i \in 1 .. (m - 1) : SubSeq(q, 1, m - 1)[i] = q[i]
    BY <2>3
  <2>5. /\ SubSeq(q, m + 1, Len(q)) \in Seq(Agents) /\ Len(SubSeq(q, m + 1, Len(q))) = Len(q) - m
        /\ \A i \in 1 .. (Len(q) - m) : SubSeq(q, m + 1, Len(q))[i] = q[m + i]
    <3>1. \A i \in (m + 1) .. Len(q) : q[i] \in Agents
      BY <2>3
    <3>2. m + 1 \in Int /\ Len(q) \in Int
      BY <2>3
    <3>3. /\ SubSeq(q, m + 1, Len(q)) \in Seq(Agents)
          /\ Len(SubSeq(q, m + 1, Len(q))) = IF m + 1 <= Len(q) THEN Len(q) - (m + 1) + 1 ELSE 0
          /\ \A i \in 1 .. Len(q) - (m + 1) + 1 : SubSeq(q, m + 1, Len(q))[i] = q[(m + 1) + i - 1]
      BY <3>1, <3>2, SubSeqProperties
    <3> DEFINE n == Len(q)
    <3>4. n \in Nat /\ m \in 1 .. n
      BY <2>3
    <3> HIDE DEF n
    <3>5. /\ n - (m + 1) + 1 = n - m
          /\ (IF m + 1 <= n THEN n - (m + 1) + 1 ELSE 0) = n - m
      BY <3>4
    <3>6. ASSUME NEW i \in 1 .. (n - m) PROVE SubSeq(q, m + 1, n)[i] = q[m + i]
      <4>1. \A k \in 1 .. n - (m + 1) + 1 : SubSeq(q, m + 1, n)[k] = q[(m + 1) + k - 1]
        BY <3>3 DEF n
      <4>2. i \in 1 .. n - (m + 1) + 1 /\ (m + 1) + i - 1 = m + i
        BY <3>4
      <4>3. SubSeq(q, m + 1, n)[i] = q[(m + 1) + i - 1]
        BY <4>1, <4>2
      <4> QED
        BY <4>2, <4>3
    <3>7. Len(SubSeq(q, m + 1, n)) = n - m
      BY <3>3, <3>5 DEF n
    <3> QED
      BY <3>3, <3>6, <3>7 DEF n
  <2>6. /\ w \in Seq(Agents) /\ Len(w) = Len(q) - 1
        /\ \A i \in 1 .. (Len(q) - 1) : w[i] = IF i <= m - 1 THEN q[i] ELSE q[i + 1]
    <3>1. /\ w \in Seq(Agents) /\ Len(w) = (m - 1) + (Len(q) - m)
          /\ \A i \in 1 .. (m - 1) + (Len(q) - m) :
               w[i] = IF i <= m - 1 THEN SubSeq(q, 1, m - 1)[i]
                      ELSE SubSeq(q, m + 1, Len(q))[i - (m - 1)]
      BY <2>2, <2>4, <2>5, ConcatProperties
    <3>2. (m - 1) + (Len(q) - m) = Len(q) - 1
      BY <2>3
    <3>3. ASSUME NEW i \in 1 .. (Len(q) - 1) PROVE w[i] = IF i <= m - 1 THEN q[i] ELSE q[i + 1]
      <4>1. CASE i <= m - 1
        BY <2>3, <2>4, <3>1, <3>2, <4>1
      <4>2. CASE i > m - 1
        <5>1. i - (m - 1) \in 1 .. (Len(q) - m) /\ m + (i - (m - 1)) = i + 1
          BY <2>3, <4>2
        <5>2. SubSeq(q, m + 1, Len(q))[i - (m - 1)] = q[i + 1]
          BY <2>5, <5>1
        <5>3. ~(i <= m - 1)
          BY <2>3, <4>2
        <5> QED
          BY <3>1, <3>2, <5>2, <5>3
      <4> QED
        BY <2>3, <4>1, <4>2
    <3> QED
      BY <3>1, <3>2, <3>3
  <2>7. DOMAIN w = 1 .. (Len(q) - 1)
    BY <2>6
  <2>8. ASSUME NEW k \in DOMAIN w, NEW l \in DOMAIN w, w[k] = w[l] PROVE k = l
    <3> DEFINE up(i) == IF i <= m - 1 THEN i ELSE i + 1
    <3>1. /\ up(k) \in DOMAIN q /\ up(l) \in DOMAIN q
          /\ w[k] = q[up(k)] /\ w[l] = q[up(l)]
      BY <2>3, <2>6, <2>7
    <3>2. up(k) = up(l)
      BY <2>8, <3>1 DEF Queues
    <3> QED
      BY <2>3, <2>7, <3>2
  <2>9. ASSUME NEW b, In(b, w) PROVE In(b, q) /\ b # a
    <3>1. PICK i \in DOMAIN w : w[i] = b
      BY <2>9 DEF In
    <3>2. \E j \in DOMAIN q : j # m /\ q[j] = b
      <4>1. CASE i <= m - 1
        BY <2>3, <2>6, <2>7, <3>1, <4>1
      <4>2. CASE ~(i <= m - 1)
        <5>1. i + 1 \in DOMAIN q /\ i + 1 # m /\ q[i + 1] = b
          BY <2>3, <2>6, <2>7, <3>1, <4>2
        <5> QED
          BY <5>1
      <4> QED
        BY <4>1, <4>2
    <3> QED
      BY <2>1, <3>2 DEF In, Queues
  <2>10. ASSUME NEW b, In(b, q), b # a PROVE In(b, w)
    <3>1. PICK j \in DOMAIN q : q[j] = b
      BY <2>10 DEF In
    <3>2. CASE j < m
      <4>1. j \in DOMAIN w /\ w[j] = b
        BY <2>3, <2>6, <2>7, <3>1, <3>2
      <4> QED
        BY <4>1 DEF In
    <3>3. CASE j > m
      <4>1. j - 1 \in DOMAIN w /\ w[j - 1] = b
        BY <2>3, <2>6, <2>7, <3>1, <3>3
      <4> QED
        BY <4>1 DEF In
    <3> QED
      BY <2>1, <2>3, <2>10, <3>1, <3>2, <3>3
  <2>11. w \in Queues /\ \A b : In(b, w) <=> In(b, q) /\ b # a
    BY <2>6, <2>8, <2>9, <2>10 DEF Queues
  <2> QED
    BY <2>11 DEF w
<1> QED
  BY <1>1, <1>2

-----------------------------------------------------------------------------
(* The invariant, one part per piece of the state *)

Queued(a) == In(a, queue[Parent[a]])
Slot(a) == a \in running[Parent[a]]

\* A sub-agent has no task, or one that is queued or holds a slot.  An open record
\* is where its status says; the result of a settled one is of the latest run, and
\* if it is this run's own output the task is gone.
Placed(a) ==
    /\ ~(Queued(a) /\ Slot(a))
    /\ rec[a].status = "queued" => Queued(a)
    /\ rec[a].status = "running" => Slot(a)
    /\ rec[a].status = "absent" => ~Queued(a) /\ ~Slot(a) /\ rec[a].result = None
    /\ rec[a].status \in Terminal =>
         /\ rec[a].result \in Results
         /\ rec[a].result.status = rec[a].status
         /\ rec[a].result.run = rec[a].run
         /\ rec[a].result.by = rec[a].run => ~Queued(a) /\ ~Slot(a)

RecInv ==
    /\ rec \in [Agents -> Records]
    /\ queue \in [Parents -> Queues]
    /\ running \in [Parents -> SUBSET Agents]
    /\ \A p \in Parents : \A a \in Agents : a \in running[p] \/ In(a, queue[p]) => Parent[a] = p
    /\ \A a \in Agents : Placed(a)

\* No two executions are of the same run.
Unique(es) == \A e, f \in es : e.agent = f.agent /\ e.run = f.run => e = f

\* An execution is of a run its sub-agent has begun, and if that is the latest one
\* and the execution was told to stop, the slot is free.
Begun(e) ==
    /\ rec[e.agent].status # "absent"
    /\ e.run <= rec[e.agent].run
    /\ e.run = rec[e.agent].run => ~Queued(e.agent) /\ (e.stopped => ~Slot(e.agent))

ExecInv == exec \subseteq Executions /\ Unique(exec) /\ \A e \in exec : Begun(e)

\* The registry file is the state of the manager.
DiskInv == disk = [rec |-> rec, pending |-> Pending]

\* Between handlers every slot has its execution and no task could be started.
ServedInv ==
    pumping \/ /\ \A a \in Agents : Slot(a) => Executing(a)
               /\ \A p \in Parents : ~CanStart(p)

CallerInv ==
    /\ waiter \in [Waiters -> [agent : Agents, run : Nat] \cup {None}]
    /\ NobodyWaitsForEnded

LogInv == log \in [Agents -> Notes] /\ buffer \in [Agents -> Notes]

SubInv == RecInv /\ ExecInv /\ DiskInv /\ ServedInv /\ CallerInv /\ LogInv

LEMMA ParentOf == \A a \in Agents : Parent[a] \in Parents
BY SubAgentsAssumption

LEMMA StatusSets ==
  /\ Terminal \cap Open = {} /\ "absent" \notin Terminal \cup Open
  /\ {"queued", "running"} = Open /\ "failed" \in Terminal /\ "canceled" \in Terminal
BY DEF Terminal, Open

\* The pieces of the record of one sub-agent
LEMMA OneRecord ==
  ASSUME RecInv, NEW a \in Agents
  PROVE  /\ rec[a] \in Records /\ rec[a].run \in Nat
         /\ rec[a].status \in Terminal \cup Open \cup {"absent"}
         /\ Parent[a] \in Parents /\ queue[Parent[a]] \in Queues
         /\ running[Parent[a]] \in SUBSET Agents
BY ParentOf DEF RecInv, Records

LEMMA NewResult ==
  ASSUME NEW n \in Nat, NEW m \in Nat, NEW status \in Terminal
  PROVE  [run |-> n, status |-> status, by |-> m] \in Results
BY DEF Results

\* A task is in a queue or in a slot, and what is open has one.
LEMMA PendingPlace ==
  ASSUME NEW a \in Agents
  PROVE  /\ a \in Pending <=> Queued(a) \/ Slot(a)
         /\ RecInv /\ rec[a].status \in Open => a \in Pending
<1>1. a \in Pending <=> Queued(a) \/ Slot(a)
  BY DEF Pending, Queued, Slot, In
<1> QED
  BY <1>1, StatusSets DEF RecInv, Placed

-----------------------------------------------------------------------------
(* What a step that changes one record must show for each part *)

\* The other sub-agents keep their records and their tasks.
Others(a) ==
    \A b \in Agents : b # a => /\ rec'[b] = rec[b]
                               /\ Queued(b)' <=> Queued(b)
                               /\ Slot(b)' <=> Slot(b)

\* a gets the record r, its parent the queue q and the slots s: what r says must
\* be so there.
MovesTo(a, r, q, s) ==
    /\ rec' = [rec EXCEPT ![a] = r]
    /\ queue' = [queue EXCEPT ![Parent[a]] = q]
    /\ running' = [running EXCEPT ![Parent[a]] = s]
    /\ \A b \in Agents : b # a => /\ In(b, q) <=> In(b, queue[Parent[a]])
                                  /\ b \in s <=> b \in running[Parent[a]]
    /\ ~(In(a, q) /\ a \in s)
    /\ r.status = "queued" => In(a, q)
    /\ r.status = "running" => a \in s
    /\ r.status # "absent"
    /\ r.status \in Terminal => /\ r.result \in Results /\ r.result.status = r.status
                                /\ r.result.run = r.run
                                /\ r.result.by = r.run => ~In(a, q) /\ a \notin s

LEMMA RecMoves ==
  ASSUME RecInv, NEW a \in Agents, NEW r \in Records, NEW q \in Queues, NEW s \in SUBSET Agents,
         MovesTo(a, r, q, s)
  PROVE  /\ RecInv' /\ Others(a) /\ rec'[a] = r
         /\ Queued(a)' <=> In(a, q)
         /\ Slot(a)' <=> a \in s
<1>1. /\ rec' \in [Agents -> Records] /\ queue' \in [Parents -> Queues]
      /\ running' \in [Parents -> SUBSET Agents]
  BY ParentOf DEF RecInv, MovesTo
<1>2. /\ rec'[a] = r /\ \A b \in Agents : b # a => rec'[b] = rec[b]
      /\ queue'[Parent[a]] = q /\ \A p \in Parents : p # Parent[a] => queue'[p] = queue[p]
      /\ running'[Parent[a]] = s /\ \A p \in Parents : p # Parent[a] => running'[p] = running[p]
  BY ParentOf DEF RecInv, MovesTo
<1>3. ASSUME NEW p \in Parents, NEW b \in Agents, b \in running'[p] \/ In(b, queue'[p])
      PROVE  Parent[b] = p
  <2>1. CASE p # Parent[a]
    BY <1>2, <1>3, <2>1 DEF RecInv
  <2>2. CASE p = Parent[a] /\ b # a
    BY <1>2, <1>3, <2>2, ParentOf DEF RecInv, MovesTo
  <2> QED
    BY <2>1, <2>2
<1>4. ASSUME NEW b \in Agents, b # a
      PROVE  (Queued(b)' <=> Queued(b)) /\ (Slot(b)' <=> Slot(b))
  <2>1. CASE Parent[b] = Parent[a]
    BY <1>2, <1>4, <2>1 DEF Queued, Slot, MovesTo
  <2>2. CASE Parent[b] # Parent[a]
    BY <1>2, <2>2, ParentOf DEF Queued, Slot
  <2> QED
    BY <2>1, <2>2
<1>5. (Queued(a)' <=> In(a, q)) /\ (Slot(a)' <=> a \in s)
  BY <1>2 DEF Queued, Slot
<1>6. Others(a)
  BY <1>2, <1>4 DEF Others
<1>7. ASSUME NEW b \in Agents PROVE Placed(b)'
  <2>1. CASE b = a
    BY <1>2, <1>5, <2>1 DEF Placed, MovesTo
  <2>2. CASE b # a
    BY <1>2, <1>4, <2>2 DEF RecInv, Placed
  <2> QED
    BY <2>1, <2>2
<1> QED
  BY <1>1, <1>2, <1>3, <1>5, <1>6, <1>7 DEF RecInv

\* fs are the executions es with other marks.
Marked(fs, es) ==
    /\ fs \subseteq Executions
    /\ \A f \in fs : \E e \in es : /\ f.agent = e.agent /\ f.run = e.run
                                   /\ f.stopped = e.stopped /\ f.saved = e.saved
    /\ \A e \in es : \E f \in fs : /\ f.agent = e.agent /\ f.run = e.run
                                   /\ f.stopped = e.stopped /\ f.saved = e.saved
    /\ Unique(es) => Unique(fs)

LEMMA HistoryMarks ==
  ASSUME NEW p, NEW direct, NEW es \in SUBSET Executions, ChangeHistory(p, direct, es)
  PROVE  Marked(exec', es)
<1> DEFINE mark(e) == [e EXCEPT !.dirty = @ \/ (direct /\ Parent[e.agent] = p /\ e.saved # None)]
<1>1. ASSUME NEW e \in Executions
      PROVE  /\ mark(e) \in Executions /\ mark(e).agent = e.agent /\ mark(e).run = e.run
             /\ mark(e).stopped = e.stopped /\ mark(e).saved = e.saved
  BY DEF Executions
<1>2. exec' = {mark(e) : e \in es}
  BY DEF ChangeHistory
<1> HIDE DEF mark
<1> QED
  BY <1>1, <1>2 DEF Marked, Unique

\* The latest run of a changes, or what becomes of its task; of its executions,
\* those of the latest run may be told to stop when they lose their slot.
LEMMA ExecMoves ==
  ASSUME ExecInv, RecInv, NEW a \in Agents, Others(a),
         rec'[a].status # "absent", rec'[a].run \in Nat,
         NEW es \in SUBSET Executions, Unique(es), Marked(exec', es),
         \A f \in es : \E e \in exec :
            /\ f.agent = e.agent /\ f.run = e.run
            /\ f.stopped => e.stopped \/ (f.agent = a /\ f.run = rec[a].run /\ ~Slot(a)'),
         \/ rec'[a].run > rec[a].run
         \/ /\ rec'[a].run = rec[a].run
            /\ Queued(a)' => Queued(a)
            /\ Slot(a)' => Slot(a) \/ Queued(a)
  PROVE  ExecInv'
<1>1. ASSUME NEW f \in exec' PROVE Begun(f)'
  <2>1. PICK g \in es : f.agent = g.agent /\ f.run = g.run /\ f.stopped = g.stopped
    BY DEF Marked
  <2>2. PICK e \in exec :
            /\ g.agent = e.agent /\ g.run = e.run
            /\ g.stopped => e.stopped \/ (g.agent = a /\ g.run = rec[a].run /\ ~Slot(a)')
    BY <2>1
  <2>3. e.agent \in Agents /\ e.run \in Nat /\ Begun(e) /\ rec[e.agent].run \in Nat
    BY OneRecord DEF ExecInv, Executions
  <2>4. CASE e.agent # a
    BY <2>1, <2>2, <2>3, <2>4 DEF Begun, Others
  <2>5. CASE e.agent = a /\ rec'[a].run > rec[a].run
    BY <2>1, <2>2, <2>3, <2>5 DEF Begun
  <2>6. CASE e.agent = a /\ rec'[a].run = rec[a].run
    BY <2>1, <2>2, <2>3, <2>6 DEF Begun
  <2> QED
    BY <2>4, <2>5, <2>6
<1> QED
  BY <1>1 DEF ExecInv, Marked

LEMMA CallerMoves ==
  ASSUME CallerInv, RecInv, NEW a \in Agents, Others(a),
         \/ /\ UNCHANGED waiter
            /\ rec[a].status \notin Open \/ (rec'[a].run = rec[a].run /\ rec'[a].status \in Open)
         \/ \E result \in Results : ResolveWaiters(a, result) /\ result.run >= rec[a].run
  PROVE  CallerInv'
<1>1. waiter' \in [Waiters -> [agent : Agents, run : Nat] \cup {None}]
  BY DEF CallerInv, ResolveWaiters
<1>2. ASSUME NEW w \in Waiters, waiter'[w] # None
      PROVE  rec'[waiter'[w].agent].run = waiter'[w].run /\ rec'[waiter'[w].agent].status \in Open
  <2>1. waiter'[w] = waiter[w] /\ waiter[w].agent \in Agents /\ waiter[w].run \in Nat
    BY <1>2 DEF CallerInv, ResolveWaiters
  <2>2. rec[waiter[w].agent].run = waiter[w].run /\ rec[waiter[w].agent].status \in Open
    BY <1>2, <2>1 DEF CallerInv, NobodyWaitsForEnded
  <2>3. CASE waiter[w].agent # a
    BY <2>1, <2>2, <2>3 DEF Others
  <2>4. CASE waiter[w].agent = a /\ UNCHANGED waiter
             /\ (rec[a].status \notin Open \/ (rec'[a].run = rec[a].run /\ rec'[a].status \in Open))
    BY <2>1, <2>2, <2>4
  <2>5. ASSUME NEW result \in Results, ResolveWaiters(a, result), result.run >= rec[a].run,
               waiter[w].agent = a
        PROVE  FALSE
    BY <1>2, <2>1, <2>2, <2>5 DEF ResolveWaiters, Asked
  <2> QED
    BY <2>3, <2>4, <2>5
<1> QED
  BY <1>1, <1>2 DEF CallerInv, NobodyWaitsForEnded

LEMMA ResultKeeps ==
  ASSUME LogInv, NEW a \in Agents, NEW result \in Results, NEW named,
         NEW base \in [Agents -> Notes], PublishResult(a, result, named, base)
  PROVE  LogInv'
BY DEF LogInv, PublishResult, Notes

-----------------------------------------------------------------------------
(* What each handler does to the record and the task of a sub-agent *)

LEMMA AskMoves ==
  ASSUME RecInv, NEW a \in Agents, Ask(a)
  PROVE  /\ RecInv' /\ Others(a) /\ ~Queued(a) /\ ~Slot(a) /\ Queued(a)'
         /\ rec'[a] = [status |-> "queued", run |-> rec[a].run + 1, result |-> None]
<1> DEFINE r == [status |-> "queued", run |-> rec[a].run + 1, result |-> None]
           q == Append(queue[Parent[a]], a)
<1>1. /\ a \notin Pending /\ rec' = [rec EXCEPT ![a] = r]
      /\ queue' = [queue EXCEPT ![Parent[a]] = q]
      /\ running' = running
  BY DEF Ask, Renew, MayAsk
<1>2. ~Queued(a) /\ ~Slot(a)
  BY <1>1, PendingPlace
<1>3. r \in Records /\ r.status = "queued" /\ r.status \notin Terminal
  BY OneRecord DEF Records, Notes, Open, Terminal
<1>4. q \in Queues /\ \A b : In(b, q) <=> In(b, queue[Parent[a]]) \/ b = a
  BY <1>2, AppendQueue, OneRecord DEF Queued
<1>5. running' = [running EXCEPT ![Parent[a]] = running[Parent[a]]]
  BY <1>1, ParentOf DEF RecInv
<1> HIDE DEF r, q
<1>6. RecInv' /\ Others(a) /\ rec'[a] = r /\ (Queued(a)' <=> In(a, q))
  <2>1. MovesTo(a, r, q, running[Parent[a]])
    BY <1>1, <1>2, <1>3, <1>4, <1>5 DEF MovesTo, Slot
  <2> QED
    BY <1>3, <1>4, <2>1, OneRecord, RecMoves
<1> QED
  BY <1>2, <1>4, <1>6 DEF r

LEMMA AskInVainMoves ==
  ASSUME RecInv, NEW a \in Agents, AskInVain(a)
  PROVE  /\ RecInv' /\ Others(a) /\ ~Queued(a) /\ ~Slot(a) /\ ~Queued(a)' /\ ~Slot(a)'
         /\ rec'[a].status = "failed" /\ rec'[a].run = rec[a].run + 1
<1> DEFINE result == [run |-> rec[a].run + 1, status |-> "failed", by |-> rec[a].run + 1]
           r == [status |-> "failed", run |-> rec[a].run + 1, result |-> result]
<1>1. /\ a \notin Pending /\ rec' = [rec EXCEPT ![a] = r] /\ UNCHANGED <<queue, running>>
  BY DEF AskInVain, Renew, MayAsk
<1>2. ~Queued(a) /\ ~Slot(a)
  BY <1>1, PendingPlace
<1>3. result \in Results /\ result.run = rec[a].run + 1 /\ result.status = "failed"
  BY OneRecord, NewResult, StatusSets
<1> HIDE DEF result
<1>4. /\ r \in Records /\ r.status = "failed" /\ r.run = rec[a].run + 1 /\ r.result = result
  BY <1>3, OneRecord, StatusSets DEF Records, Notes
<1>5. /\ queue' = [queue EXCEPT ![Parent[a]] = queue[Parent[a]]]
      /\ running' = [running EXCEPT ![Parent[a]] = running[Parent[a]]]
  BY <1>1, ParentOf DEF RecInv
<1> HIDE DEF r
<1>6. /\ RecInv' /\ Others(a) /\ rec'[a] = r
      /\ Queued(a)' <=> In(a, queue[Parent[a]])
      /\ Slot(a)' <=> a \in running[Parent[a]]
  <2>1. MovesTo(a, r, queue[Parent[a]], running[Parent[a]])
    BY <1>1, <1>2, <1>3, <1>4, <1>5, StatusSets DEF MovesTo, Queued, Slot
  <2> QED
    BY <1>4, <2>1, OneRecord, RecMoves
<1> QED
  BY <1>2, <1>4, <1>6 DEF Queued, Slot

LEMMA StartMoves ==
  ASSUME RecInv, NEW p \in Parents, StartNext(p)
  PROVE  \E a \in Agents :
           /\ a = Head(queue[p]) /\ Parent[a] = p /\ RecInv' /\ Others(a)
           /\ Queued(a) /\ ~Slot(a) /\ ~Queued(a)' /\ Slot(a)'
           /\ rec'[a].status = "running" /\ rec'[a].run = rec[a].run
<1> DEFINE q == Tail(queue[p])
<1>1. queue[p] \in Queues /\ queue[p] # <<>>
  BY DEF StartNext, CanStart, RecInv
<1>2. PICK a \in Agents :
        /\ a = Head(queue[p]) /\ In(a, queue[p]) /\ q \in Queues
        /\ \A b : In(b, q) <=> In(b, queue[p]) /\ b # a
  BY <1>1, TailQueue
<1>3. Parent[a] = p
  BY <1>2 DEF RecInv
<1> DEFINE r == [rec[a] EXCEPT !.status = "running"]
           s == running[p] \cup {a}
<1>4. /\ queue' = [queue EXCEPT ![p] = q]
      /\ running' = [running EXCEPT ![p] = s]
      /\ rec' = [rec EXCEPT ![a] = r]
  BY <1>2 DEF StartNext
<1>5. Queued(a) /\ ~Slot(a)
  BY <1>2, <1>3 DEF RecInv, Placed, Queued
<1>6. r \in Records /\ r.status = "running" /\ r.run = rec[a].run
  BY <1>2, OneRecord DEF Records, Open
<1>7. s \in SUBSET Agents /\ a \in s /\ \A b \in Agents : b # a => (b \in s <=> b \in running[p])
  BY <1>2 DEF RecInv
<1> HIDE DEF r, q, s
<1>8. MovesTo(a, r, q, s)
  BY <1>2, <1>3, <1>4, <1>6, <1>7, StatusSets DEF MovesTo
<1>9. /\ RecInv' /\ Others(a) /\ rec'[a] = r
      /\ Queued(a)' <=> In(a, q)
      /\ Slot(a)' <=> a \in s
  BY <1>2, <1>6, <1>7, <1>8, RecMoves
<1> QED
  BY <1>2, <1>3, <1>5, <1>6, <1>7, <1>9

\* A task that is taken away leaves its queue or its slot.
LEMMA Freed ==
  ASSUME RecInv, NEW a \in Agents, Unqueued(a)
  PROVE  \E q \in Queues, s \in SUBSET Agents :
           /\ queue' = [queue EXCEPT ![Parent[a]] = q]
           /\ running' = [running EXCEPT ![Parent[a]] = s]
           /\ \A b \in Agents : /\ In(b, q) <=> In(b, queue[Parent[a]]) /\ b # a
                                /\ b \in s <=> b \in running[Parent[a]] /\ b # a
<1> DEFINE q == Without(queue[Parent[a]], a)
           s == running[Parent[a]] \ {a}
<1>1. q \in Queues /\ \A b : In(b, q) <=> In(b, queue[Parent[a]]) /\ b # a
  BY OneRecord, WithoutQueue
<1>2. s \in SUBSET Agents /\ \A b \in Agents : b \in s <=> b \in running[Parent[a]] /\ b # a
  BY OneRecord
<1>3. queue' = [queue EXCEPT ![Parent[a]] = q] /\ running' = [running EXCEPT ![Parent[a]] = s]
  BY DEF Unqueued
<1> HIDE DEF q, s
<1> QED
  BY <1>1, <1>2, <1>3

LEMMA CancelMoves ==
  ASSUME RecInv, NEW a \in Agents, CancelTask(a)
  PROVE  /\ RecInv' /\ Others(a) /\ ~Queued(a)' /\ ~Slot(a)'
         /\ rec'[a].status = "canceled" /\ rec'[a].run = rec[a].run
         /\ rec'[a].result = Ended(a, "canceled", rec[a].run)
<1> DEFINE result == Ended(a, "canceled", rec[a].run)
           r == [rec[a] EXCEPT !.status = result.status, !.result = result]
<1>1. SettleRecord(a, result) /\ Unqueued(a)
  BY DEF CancelTask
<1>2. result \in Results /\ result.status = "canceled" /\ result.run = rec[a].run
  BY OneRecord, NewResult, StatusSets DEF Ended
<1> HIDE DEF result
<1>3. rec' = [rec EXCEPT ![a] = r]
  BY <1>1 DEF SettleRecord
<1>4. r \in Records /\ r.status = "canceled" /\ r.result = result /\ r.run = rec[a].run
  <2>1. rec[a] \in Records
    BY OneRecord
  <2> QED
    BY <1>2, <2>1, StatusSets DEF Records, Notes
<1> HIDE DEF r
<1>5. PICK q \in Queues, s \in SUBSET Agents :
           /\ queue' = [queue EXCEPT ![Parent[a]] = q]
           /\ running' = [running EXCEPT ![Parent[a]] = s]
           /\ \A b \in Agents : /\ In(b, q) <=> In(b, queue[Parent[a]]) /\ b # a
                                /\ b \in s <=> b \in running[Parent[a]] /\ b # a
  BY <1>1, Freed
<1>6. /\ RecInv' /\ Others(a) /\ rec'[a] = r
      /\ Queued(a)' <=> In(a, q)
      /\ Slot(a)' <=> a \in s
  <2>1. MovesTo(a, r, q, s)
    BY <1>2, <1>3, <1>4, <1>5, StatusSets DEF MovesTo
  <2> QED
    BY <1>4, <1>5, <2>1, RecMoves
<1> QED
  BY <1>2, <1>4, <1>5, <1>6 DEF result

\* The result that the end of the execution e leaves in the record
FinalResult(e, status) ==
    IF AlreadySettled(e.agent) THEN rec[e.agent].result ELSE Ended(e.agent, status, e.run)

LEMMA FinishMoves ==
  ASSUME RecInv, ExecInv, NEW e \in exec, NEW status \in Terminal,
         LET a == e.agent
         IN  /\ SettleRecord(a, FinalResult(e, status))
             /\ IF e.run = rec[a].run THEN Unqueued(a) ELSE UNCHANGED <<queue, running>>
  PROVE  LET a == e.agent
             result == FinalResult(e, status)
         IN  /\ RecInv' /\ Others(a)
             /\ result \in Results /\ result.run = rec[a].run /\ result.status \in Terminal
             /\ rec'[a].status = result.status /\ rec'[a].run = rec[a].run
             /\ rec'[a].result = result
             /\ rec[a].status \in Terminal => rec'[a] = rec[a]
             /\ e.run = rec[a].run => ~Queued(a)' /\ ~Slot(a)'
             /\ e.run # rec[a].run => (Queued(a)' <=> Queued(a)) /\ (Slot(a)' <=> Slot(a))
<1> DEFINE a == e.agent
           result == FinalResult(e, status)
           r == [rec[a] EXCEPT !.status = result.status, !.result = result]
<1>1. a \in Agents /\ e.run \in Nat /\ rec[a].status # "absent"
  BY DEF ExecInv, Executions, Begun
<1>2. /\ result \in Results /\ result.run = rec[a].run /\ result.status \in Terminal
      /\ rec[a].status \in Terminal => result = rec[a].result /\ result.status = rec[a].status
      /\ rec[a].status \notin Terminal => result.by = e.run
  <2>1. CASE rec[a].status \in Terminal
    BY <1>1, <2>1 DEF AlreadySettled, FinalResult, RecInv, Placed
  <2>2. CASE rec[a].status \notin Terminal
    BY <1>1, <2>2, OneRecord, NewResult DEF AlreadySettled, FinalResult, Ended
  <2> QED
    BY <2>1, <2>2
<1> HIDE DEF result
<1>3. rec' = [rec EXCEPT ![a] = r]
  BY DEF SettleRecord, result
<1>4. /\ r \in Records /\ r.status = result.status /\ r.result = result /\ r.run = rec[a].run
      /\ rec[a].status \in Terminal => r = rec[a]
  BY <1>1, <1>2, OneRecord DEF Records, Notes
<1> HIDE DEF r
<1>5. PICK q \in Queues, s \in SUBSET Agents :
           /\ queue' = [queue EXCEPT ![Parent[a]] = q]
           /\ running' = [running EXCEPT ![Parent[a]] = s]
           /\ \A b \in Agents : b # a => /\ In(b, q) <=> In(b, queue[Parent[a]])
                                         /\ b \in s <=> b \in running[Parent[a]]
           /\ e.run = rec[a].run => ~In(a, q) /\ a \notin s
           /\ e.run # rec[a].run => /\ In(a, q) <=> Queued(a)
                                    /\ a \in s <=> Slot(a)
  <2>1. CASE e.run = rec[a].run
    <3>1. Unqueued(a)
      BY <2>1
    <3> QED
      BY <1>1, <2>1, <3>1, Freed
  <2>2. CASE e.run # rec[a].run
    <3>1. UNCHANGED <<queue, running>>
      BY <2>2
    <3>2. /\ queue' = [queue EXCEPT ![Parent[a]] = queue[Parent[a]]]
          /\ running' = [running EXCEPT ![Parent[a]] = running[Parent[a]]]
      BY <1>1, <3>1, ParentOf DEF RecInv
    <3> QED
      BY <1>1, <2>2, <3>2, OneRecord DEF Queued, Slot
  <2> QED
    BY <2>1, <2>2
<1>6. /\ ~(In(a, q) /\ a \in s)
      /\ r.result.by = r.run => ~In(a, q) /\ a \notin s
  <2>1. CASE e.run = rec[a].run
    BY <1>5, <2>1
  <2>2. CASE e.run # rec[a].run
    BY <1>1, <1>2, <1>4, <1>5, <2>2 DEF RecInv, Placed
  <2> QED
    BY <2>1, <2>2
<1>7. r.status # "queued" /\ r.status # "running" /\ r.status # "absent"
  BY <1>2, <1>4, StatusSets
<1> HIDE DEF a
<1>8. /\ RecInv' /\ Others(a) /\ rec'[a] = r
      /\ Queued(a)' <=> In(a, q)
      /\ Slot(a)' <=> a \in s
  <2>1. MovesTo(a, r, q, s)
    BY <1>2, <1>3, <1>4, <1>5, <1>6, <1>7 DEF MovesTo
  <2> QED
    BY <1>1, <1>4, <1>5, <2>1, RecMoves
<1>9. /\ e.run = rec[a].run => ~Queued(a)' /\ ~Slot(a)'
      /\ e.run # rec[a].run => (Queued(a)' <=> Queued(a)) /\ (Slot(a)' <=> Slot(a))
  BY <1>5, <1>8
<1> QED
  BY <1>2, <1>4, <1>8, <1>9 DEF a, result

-----------------------------------------------------------------------------
(* The steps *)

LEMMA AskStep ==
  ASSUME SubInv, NEW a \in Agents, Ask(a) PROVE SubInv'
<1>1. /\ RecInv' /\ Others(a) /\ ~Queued(a) /\ ~Slot(a)
      /\ rec'[a] = [status |-> "queued", run |-> rec[a].run + 1, result |-> None]
  BY AskMoves DEF SubInv
<1>2. PICK named : WriteIndex(Parent[a], named, exec)
  BY DEF Ask
<1>3. pumping' = TRUE /\ UNCHANGED <<log, buffer, waiter>> /\ Persist
  BY DEF Ask
<1>4. rec[a].status \notin Open /\ rec[a].run \in Nat
  BY <1>1, OneRecord, PendingPlace DEF SubInv
<1>5. ExecInv'
  <2>1. exec \in SUBSET Executions /\ Unique(exec) /\ Marked(exec', exec)
    BY <1>2, HistoryMarks DEF SubInv, ExecInv, WriteIndex
  <2>2. rec'[a].run > rec[a].run /\ rec'[a].run \in Nat /\ rec'[a].status # "absent"
    BY <1>1, <1>4
  <2> QED
    BY <1>1, <2>1, <2>2, ExecMoves DEF SubInv
<1>6. CallerInv'
  BY <1>1, <1>3, <1>4, CallerMoves DEF SubInv
<1> QED
  BY <1>1, <1>3, <1>5, <1>6 DEF SubInv, DiskInv, Persist, ServedInv, LogInv

LEMMA AskInVainStep ==
  ASSUME SubInv, NEW a \in Agents, AskInVain(a) PROVE SubInv'
<1> DEFINE result == [run |-> rec[a].run + 1, status |-> "failed", by |-> rec[a].run + 1]
<1>1. /\ RecInv' /\ Others(a) /\ ~Queued(a) /\ ~Slot(a) /\ ~Queued(a)' /\ ~Slot(a)'
      /\ rec'[a].status = "failed" /\ rec'[a].run = rec[a].run + 1
  BY AskInVainMoves DEF SubInv
<1>2. PICK named : WriteIndex(Parent[a], named, exec) /\ PublishResult(a, result, named, log)
  BY DEF AskInVain
<1>3. /\ ResolveWaiters(a, result) /\ Persist /\ UNCHANGED <<queue, running, pumping>>
      /\ ~pumping
  BY DEF AskInVain, thread, MayAsk, Idle
<1>4. rec[a].run \in Nat /\ result \in Results /\ result.run >= rec[a].run
  BY OneRecord, NewResult, StatusSets DEF SubInv
<1>5. exec \in SUBSET Executions /\ Unique(exec) /\ Marked(exec', exec)
  BY <1>2, HistoryMarks DEF SubInv, ExecInv, WriteIndex
<1> HIDE DEF result
<1>6. ExecInv'
  <2>1. rec'[a].run > rec[a].run /\ rec'[a].run \in Nat /\ rec'[a].status # "absent"
    BY <1>1, <1>4
  <2> QED
    BY <1>1, <1>5, <2>1, ExecMoves DEF SubInv
<1>7. CallerInv'
  BY <1>1, <1>3, <1>4, CallerMoves DEF SubInv
<1>8. LogInv'
  <2>1. LogInv /\ log \in [Agents -> Notes]
    BY DEF SubInv, LogInv
  <2> QED
    BY <1>2, <1>4, <2>1, ResultKeeps
<1>9. ServedInv'
  <2>1. ASSUME NEW b \in Agents, Slot(b)' PROVE Executing(b)'
    <3>1. b # a /\ Slot(b) /\ rec'[b] = rec[b]
      BY <1>1, <2>1 DEF Others
    <3>2. PICK e \in exec : e.agent = b /\ e.run = rec[b].run
      BY <1>3, <3>1 DEF SubInv, ServedInv, Executing
    <3> QED
      BY <1>5, <3>1, <3>2 DEF Executing, Marked
  <2>2. \A p \in Parents : ~CanStart(p)'
    BY <1>3 DEF SubInv, ServedInv, CanStart, AllRunning
  <2> QED
    BY <2>1, <2>2 DEF ServedInv
<1> QED
  BY <1>1, <1>3, <1>6, <1>7, <1>8, <1>9 DEF SubInv, DiskInv, Persist

LEMMA StartStep ==
  ASSUME SubInv, NEW p \in Parents, StartNext(p) PROVE SubInv'
<1>1. PICK a \in Agents :
        /\ RecInv' /\ Others(a) /\ Queued(a) /\ ~Queued(a)' /\ Slot(a)'
        /\ rec'[a].status = "running" /\ rec'[a].run = rec[a].run
  BY StartMoves DEF SubInv
<1>2. /\ pumping /\ UNCHANGED <<pumping, log, buffer, waiter>> /\ Persist
      /\ WriteIndex(p, bound, exec)
  BY DEF StartNext, thread
<1>3. ExecInv'
  <2>1. exec \in SUBSET Executions /\ Unique(exec) /\ Marked(exec', exec)
    BY <1>2, HistoryMarks DEF SubInv, ExecInv, WriteIndex
  <2>2. rec'[a].run \in Nat /\ rec'[a].status # "absent"
    BY <1>1, OneRecord DEF SubInv
  <2> QED
    BY <1>1, <2>1, <2>2, ExecMoves DEF SubInv
<1>4. CallerInv'
  BY <1>1, <1>2, StatusSets, CallerMoves DEF SubInv
<1> QED
  BY <1>1, <1>2, <1>3, <1>4 DEF SubInv, DiskInv, Persist, ServedInv, LogInv

LEMMA ExecuteStep ==
  ASSUME SubInv, NEW a \in Agents, Execute(a) PROVE SubInv'
<1> DEFINE inTurn == turn[Parent[a]] # "none" /\ a \in bound
           e == [agent |-> a, run |-> rec[a].run, stopped |-> FALSE, inTurn |-> inTurn,
                 alone |-> Cardinality(running[Parent[a]]) <= 1, dirty |-> FALSE,
                 saved |-> IF inTurn THEN None ELSE log]
<1>1. /\ Slot(a) /\ ~Executing(a) /\ exec' = exec \cup {e} /\ pumping
      /\ UNCHANGED <<rec, queue, running, disk, log, buffer, waiter, pumping>>
  BY DEF Execute, manager, thread, Slot
<1>2. rec[a].status # "absent" /\ ~Queued(a) /\ rec[a].run \in Nat
  BY <1>1, OneRecord DEF SubInv, RecInv, Placed
<1>3. /\ e \in Executions /\ e.agent = a /\ e.run = rec[a].run /\ ~e.stopped
  BY <1>2 DEF Executions, SubInv, LogInv
<1> HIDE DEF e
<1>4. Unique(exec')
  BY <1>1, <1>3 DEF Unique, SubInv, ExecInv, Executing
<1>5. \A f \in exec' : Begun(f)'
  BY <1>1, <1>2, <1>3 DEF SubInv, ExecInv, Begun, Queued, Slot
<1>6. ExecInv'
  BY <1>1, <1>3, <1>4, <1>5 DEF SubInv, ExecInv
<1> QED
  BY <1>1, <1>6 DEF SubInv, RecInv, Placed, Queued, Slot, DiskInv, Pending, ServedInv,
                    CallerInv, NobodyWaitsForEnded, LogInv

\* What the end of an execution does, told without its alternatives
LEMMA FinishDoes ==
  ASSUME SubInv, NEW e \in exec, Finish(e)
  PROVE  LET a == e.agent
             p == Parent[a]
         IN  \E status \in Terminal, named \in {bound, bound \cup {a}},
                base \in [Agents -> Notes], direct \in BOOLEAN :
               /\ Idle
               /\ SettleRecord(a, FinalResult(e, status))
               /\ IF e.run = rec[a].run THEN Unqueued(a) ELSE UNCHANGED <<queue, running>>
               /\ PublishResult(a, FinalResult(e, status), named, base)
               /\ ChangeHistory(p, direct, exec \ {e})
               /\ ~Buffered(p, named) => direct
               /\ \/ base = log
                  \/ /\ direct /\ e.saved # None /\ e.alone /\ e.dirty
                     /\ base = RolledBack(p, e)
               /\ ResolveWaiters(a, FinalResult(e, status))
               /\ pumping' = TRUE /\ UNCHANGED <<bound, canceling, crashes>> /\ Persist
<1> DEFINE a == e.agent
           p == Parent[a]
           named == IF e.inTurn THEN bound \cup {a} ELSE bound
<1>1. PICK status \in Terminal :
        LET already == AlreadySettled(a)
            result == IF already THEN rec[a].result ELSE Ended(a, status, e.run)
            jump == /\ e.saved # None /\ e.alone /\ e.dirty
                    /\ status # "canceled" /\ ~already
                    /\ Cardinality(running[p]) <= 1
        IN  /\ Idle
            /\ SettleRecord(a, result)
            /\ IF e.run = rec[a].run THEN Unqueued(a) ELSE UNCHANGED <<queue, running>>
            /\ PublishResult(a, result, named, IF jump THEN RolledBack(p, e) ELSE log)
            /\ ChangeHistory(p, jump \/ ~Buffered(p, named), exec \ {e})
            /\ ResolveWaiters(a, result)
            /\ pumping' = TRUE
            /\ UNCHANGED <<bound, canceling, crashes>>
            /\ Persist
  BY DEF Finish
<1> DEFINE jump == /\ e.saved # None /\ e.alone /\ e.dirty
                   /\ status # "canceled" /\ ~AlreadySettled(a)
                   /\ Cardinality(running[p]) <= 1
           base == IF jump THEN RolledBack(p, e) ELSE log
           direct == jump \/ ~Buffered(p, named)
<1>2. log \in [Agents -> Notes] /\ e \in Executions
  BY DEF SubInv, LogInv, ExecInv
<1>3. jump => RolledBack(p, e) \in [Agents -> Notes]
  <2>1. e.saved # None => e.saved \in [Agents -> Notes]
    BY <1>2 DEF Executions
  <2> QED
    BY <1>2, <2>1 DEF RolledBack
<1>4. base \in [Agents -> Notes] /\ direct \in BOOLEAN /\ named \in {bound, bound \cup {a}}
  BY <1>2, <1>3
<1>5. /\ Idle
      /\ SettleRecord(a, FinalResult(e, status))
      /\ IF e.run = rec[a].run THEN Unqueued(a) ELSE UNCHANGED <<queue, running>>
      /\ PublishResult(a, FinalResult(e, status), named, base)
      /\ ChangeHistory(p, direct, exec \ {e})
      /\ ResolveWaiters(a, FinalResult(e, status))
      /\ pumping' = TRUE /\ UNCHANGED <<bound, canceling, crashes>> /\ Persist
  BY <1>1 DEF FinalResult
<1>6. /\ ~Buffered(p, named) => direct
      /\ \/ base = log
         \/ direct /\ e.saved # None /\ e.alone /\ e.dirty /\ base = RolledBack(p, e)
  OBVIOUS
<1> HIDE DEF base, direct, named, jump
<1> QED
  BY <1>4, <1>5, <1>6

LEMMA FinishStep ==
  ASSUME SubInv, NEW e \in exec, Finish(e) PROVE SubInv'
<1> DEFINE a == e.agent
<1>1. PICK status \in Terminal, named \in {bound, bound \cup {a}}, base \in [Agents -> Notes],
            direct \in BOOLEAN :
        /\ SettleRecord(a, FinalResult(e, status))
        /\ IF e.run = rec[a].run THEN Unqueued(a) ELSE UNCHANGED <<queue, running>>
        /\ PublishResult(a, FinalResult(e, status), named, base)
        /\ ChangeHistory(Parent[a], direct, exec \ {e})
        /\ ResolveWaiters(a, FinalResult(e, status))
        /\ pumping' = TRUE /\ Persist
  BY FinishDoes
<1> DEFINE result == FinalResult(e, status)
<1>2. /\ RecInv' /\ Others(a)
      /\ result \in Results /\ result.run = rec[a].run
      /\ rec'[a].status \in Terminal /\ rec'[a].run = rec[a].run
      /\ (Queued(a)' => Queued(a)) /\ (Slot(a)' => Slot(a))
  BY <1>1, FinishMoves DEF SubInv
<1>3. a \in Agents /\ exec \ {e} \in SUBSET Executions /\ RecInv /\ ExecInv /\ CallerInv /\ LogInv
  BY DEF SubInv, ExecInv, Executions
<1>4. rec[a].run \in Nat
  BY <1>3, OneRecord
<1> HIDE DEF result
<1>5. ExecInv'
  <2>1. Unique(exec \ {e}) /\ Marked(exec', exec \ {e})
    BY <1>1, <1>3, HistoryMarks DEF ExecInv, Unique
  <2>2. rec'[a].status # "absent" /\ rec'[a].run \in Nat
    BY <1>2, <1>4, StatusSets
  <2> HIDE DEF a
  <2> QED
    BY <1>2, <1>3, <2>1, <2>2, ExecMoves
<1>6. CallerInv'
  <2>1. ResolveWaiters(a, result) /\ result.run >= rec[a].run
    BY <1>1, <1>2, <1>4 DEF result
  <2> QED
    BY <1>2, <1>3, <2>1, CallerMoves
<1>7. LogInv'
  <2>1. PublishResult(a, result, named, base)
    BY <1>1 DEF result
  <2> QED
    BY <1>1, <1>2, <1>3, <2>1, ResultKeeps
<1> QED
  BY <1>1, <1>2, <1>5, <1>6, <1>7 DEF SubInv, ServedInv, DiskInv, Persist

LEMMA CancelTaskStep ==
  ASSUME SubInv, NEW a \in Agents, CancelTask(a) PROVE SubInv'
<1> DEFINE result == Ended(a, "canceled", rec[a].run)
           stop(e) == [e EXCEPT !.stopped = @ \/ (e.agent = a /\ e.run = rec[a].run)]
           es == {stop(e) : e \in exec}
<1>1. /\ PublishResult(a, result, bound, log) /\ WriteIndex(Parent[a], bound, es)
      /\ ResolveWaiters(a, result) /\ pumping' = TRUE /\ Persist
  BY DEF CancelTask
<1>2. /\ RecInv' /\ Others(a) /\ ~Queued(a)' /\ ~Slot(a)'
      /\ rec'[a].status = "canceled" /\ rec'[a].run = rec[a].run
  BY CancelMoves DEF SubInv
<1>3. rec[a].run \in Nat /\ result \in Results /\ result.run >= rec[a].run
  BY OneRecord, NewResult, StatusSets DEF SubInv, Ended
<1> HIDE DEF result
<1>4. ExecInv'
  <2>1. ASSUME NEW e \in exec
        PROVE  /\ stop(e) \in Executions /\ stop(e).agent = e.agent /\ stop(e).run = e.run
               /\ stop(e).stopped => e.stopped \/ (e.agent = a /\ e.run = rec[a].run)
    BY DEF SubInv, ExecInv, Executions
  <2> HIDE DEF stop
  <2>2. es \in SUBSET Executions /\ Unique(es)
    BY <2>1 DEF SubInv, ExecInv, Unique
  <2>3. \A f \in es : \E e \in exec :
           /\ f.agent = e.agent /\ f.run = e.run
           /\ f.stopped => e.stopped \/ (f.agent = a /\ f.run = rec[a].run /\ ~Slot(a)')
    BY <1>2, <2>1
  <2> HIDE DEF es
  <2>4. Marked(exec', es)
    BY <1>1, <2>2, HistoryMarks DEF WriteIndex
  <2> QED
    BY <1>2, <1>3, <2>2, <2>3, <2>4, ExecMoves DEF SubInv
<1>5. CallerInv'
  BY <1>1, <1>2, <1>3, CallerMoves DEF SubInv
<1>6. LogInv'
  <2>1. LogInv /\ log \in [Agents -> Notes]
    BY DEF SubInv, LogInv
  <2> QED
    BY <1>1, <1>3, <2>1, ResultKeeps
<1> QED
  BY <1>1, <1>2, <1>4, <1>5, <1>6 DEF SubInv, ServedInv, DiskInv, Persist

\* A step that leaves the manager alone
LEMMA Outside ==
  ASSUME SubInv, UNCHANGED <<rec, queue, running, disk, pumping>>, CallerInv', LogInv',
         Marked(exec', exec)
  PROVE  SubInv'
<1>1. RecInv' /\ DiskInv'
  BY DEF SubInv, RecInv, Placed, Queued, Slot, DiskInv, Pending
<1>2. ExecInv'
  <2>1. ASSUME NEW f \in exec' PROVE Begun(f)'
    <3>1. PICK e \in exec : f.agent = e.agent /\ f.run = e.run /\ f.stopped = e.stopped
      BY DEF Marked
    <3> QED
      BY <3>1 DEF SubInv, ExecInv, Begun, Queued, Slot
  <2> QED
    BY <2>1 DEF ExecInv, Marked, SubInv
<1>3. ServedInv'
  <2>1. ASSUME NEW a \in Agents, Executing(a) PROVE Executing(a)'
    <3>1. PICK e \in exec : e.agent = a /\ e.run = rec[a].run
      BY <2>1 DEF Executing
    <3> QED
      BY <3>1 DEF Executing, Marked
  <2>2. \A p \in Parents : CanStart(p)' <=> CanStart(p)
    BY DEF CanStart, AllRunning
  <2> QED
    BY <2>1, <2>2 DEF SubInv, ServedInv, Slot
<1> QED
  BY <1>1, <1>2, <1>3 DEF SubInv

LEMMA PumpEndsStep ==
  ASSUME SubInv, PumpEnds PROVE SubInv'
<1>1. UNCHANGED <<rec, queue, running, exec, disk, log, buffer, waiter>>
  BY DEF PumpEnds, manager, history
<1>2. RecInv' /\ ExecInv' /\ DiskInv' /\ LogInv' /\ CallerInv'
  BY <1>1 DEF SubInv, RecInv, Placed, Queued, Slot, ExecInv, Begun, DiskInv, Pending, LogInv,
              CallerInv, NobodyWaitsForEnded
<1>3. ASSUME NEW a \in Agents, Slot(a) PROVE Executing(a)
  <2>1. a \in AllRunning
    BY <1>3, ParentOf DEF Slot, AllRunning
  <2> QED
    BY <2>1 DEF PumpEnds
<1>4. ServedInv'
  BY <1>1, <1>3 DEF PumpEnds, ServedInv, Executing, CanStart, AllRunning, Slot
<1> QED
  BY <1>2, <1>4 DEF SubInv

\* What the end of a turn does to the executions of the parent
LEMMA EndTurnMarks ==
  ASSUME ExecInv, NEW p \in Parents, EndTurn(p) PROVE Marked(exec', exec)
<1> DEFINE mark(e) == IF Parent[e.agent] = p
                      THEN [e EXCEPT !.inTurn = FALSE, !.dirty = @ \/ e.saved # None] ELSE e
<1>1. exec' = {mark(e) : e \in exec}
  BY DEF EndTurn
<1>2. ASSUME NEW e \in exec
      PROVE  /\ mark(e) \in Executions /\ mark(e).agent = e.agent /\ mark(e).run = e.run
             /\ mark(e).stopped = e.stopped /\ mark(e).saved = e.saved
  BY DEF ExecInv, Executions
<1> HIDE DEF mark
<1> QED
  BY <1>1, <1>2 DEF Marked, Unique

LEMMA Unmarked == ASSUME ExecInv, UNCHANGED exec PROVE Marked(exec', exec)
BY DEF ExecInv, Marked

LEMMA TurnStep ==
  ASSUME SubInv, NEW p \in Parents, BeginTurn(p) \/ StopContext(p) \/ EndTurn(p) PROVE SubInv'
<1>1. UNCHANGED <<rec, queue, running, disk, pumping, waiter>>
  BY DEF BeginTurn, StopContext, EndTurn, manager, thread
<1>2. CallerInv'
  BY <1>1 DEF SubInv, CallerInv, NobodyWaitsForEnded
<1>3. Marked(exec', exec)
  <2>1. BeginTurn(p) \/ StopContext(p) => UNCHANGED exec
    BY DEF BeginTurn, StopContext
  <2> QED
    BY <2>1, EndTurnMarks, Unmarked DEF SubInv
<1>4. LogInv'
  <2>1. CASE BeginTurn(p) \/ StopContext(p)
    BY <2>1 DEF BeginTurn, StopContext, history, SubInv, LogInv
  <2>2. CASE EndTurn(p)
    <3>1. PICK kept \in SUBSET Agents :
            /\ log' = [a \in Agents |-> IF a \in kept THEN buffer[a] ELSE log[a]]
            /\ buffer' = [a \in Agents |-> IF Parent[a] = p THEN None ELSE buffer[a]]
      BY <2>2 DEF EndTurn, Kids
    <3> QED
      BY <3>1 DEF SubInv, LogInv, Notes
  <2> QED
    BY <2>1, <2>2
<1> QED
  BY <1>1, <1>2, <1>3, <1>4, Outside

LEMMA WaitStep ==
  ASSUME SubInv, NEW w \in Waiters, WaitTimesOut(w) \/ \E a \in Agents : Wait(w, a) PROVE SubInv'
<1>1. UNCHANGED <<rec, queue, running, disk, pumping, exec, log, buffer>>
  BY DEF WaitTimesOut, Wait, manager, history, thread
<1>2. CallerInv'
  <2>1. CASE WaitTimesOut(w)
    BY <1>1, <2>1 DEF WaitTimesOut, SubInv, CallerInv, NobodyWaitsForEnded
  <2>2. ASSUME NEW a \in Agents, Wait(w, a) PROVE CallerInv'
    <3>1. rec[a].run \in Nat
      BY OneRecord DEF SubInv
    <3> DEFINE call == [agent |-> a, run |-> rec[a].run]
    <3>2. call \in [agent : Agents, run : Nat] /\ call.agent = a /\ call.run = rec[a].run
      BY <3>1
    <3>3. waiter' = [waiter EXCEPT ![w] = call] /\ rec[a].status \in Open
      BY <2>2 DEF Wait
    <3> HIDE DEF call
    <3> QED
      BY <1>1, <3>2, <3>3 DEF SubInv, CallerInv, NobodyWaitsForEnded
  <2> QED
    BY <2>1, <2>2
<1>3. LogInv' /\ Marked(exec', exec)
  BY <1>1, Unmarked DEF SubInv, LogInv
<1> QED
  BY <1>1, <1>2, <1>3, Outside

\* What the new process takes over from the registry.
LEMMA RestartRecords ==
  ASSUME SubInv, Restart, NEW a \in Agents
  PROVE  /\ rec'[a] \in Records /\ rec'[a].run = rec[a].run
         /\ rec'[a].status \in Terminal \cup {"absent"}
         /\ a \in Pending => rec'[a].status = "failed"
         /\ a \notin Pending => rec'[a] = rec[a]
         /\ rec'[a].status = "absent" => rec'[a].result = None
         /\ rec'[a].status \in Terminal =>
              /\ rec'[a].result \in Results
              /\ rec'[a].result.status = rec'[a].status
              /\ rec'[a].result.run = rec'[a].run
<1>1. disk.rec = rec /\ disk.pending = Pending /\ rec[a] \in Records /\ rec[a].run \in Nat
  BY OneRecord DEF SubInv, DiskInv
<1>2. rec'[a] = IF a \in Pending
                THEN [rec[a] EXCEPT !.status = "failed", !.result = Interrupted(a)]
                ELSE rec[a]
  BY <1>1 DEF Restart
<1>3. CASE a \in Pending
  <2>1. /\ Interrupted(a) \in Results /\ Interrupted(a).status = "failed"
        /\ Interrupted(a).run = rec[a].run
    BY <1>1, NewResult, StatusSets DEF Interrupted
  <2> QED
    BY <1>1, <1>2, <1>3, <2>1, StatusSets DEF Records, Notes
<1>4. CASE a \notin Pending
  <2>1. rec[a].status \in Terminal \cup {"absent"} /\ Placed(a)
    BY <1>4, OneRecord, PendingPlace DEF SubInv, RecInv
  <2> QED
    BY <1>1, <1>2, <1>4, <2>1 DEF Placed
<1> QED
  BY <1>3, <1>4

LEMMA RestartStep ==
  ASSUME SubInv, Restart PROVE SubInv'
<1>1. /\ queue' = [p \in Parents |-> <<>>] /\ running' = [p \in Parents |-> {}]
      /\ exec' = {} /\ waiter' = [w \in Waiters |-> None] /\ pumping' = FALSE
      /\ buffer' = [a \in Agents |-> None] /\ Persist
  BY DEF Restart
<1>2. rec' = [a \in Agents |-> rec'[a]]
  BY DEF Restart
<1>3. rec' \in [Agents -> Records]
  BY <1>2, RestartRecords
<1>4. ASSUME NEW a \in Agents PROVE Placed(a)'
  <2>1. ~Queued(a)' /\ ~Slot(a)'
    BY <1>1, ParentOf, EmptyQueue DEF Queued, Slot
  <2>2. rec'[a].status # "queued" /\ rec'[a].status # "running"
    BY RestartRecords, StatusSets
  <2> QED
    BY <2>1, <2>2, RestartRecords DEF Placed
<1>5. RecInv'
  BY <1>1, <1>3, <1>4, EmptyQueue DEF RecInv
<1>6. LogInv'
  <2>1. \A a \in Agents : rec'[a].result \in Notes
    BY <1>3 DEF Records
  <2>2. log' = [a \in Agents |->
                  IF rec'[a].result # None /\ Kids(Parent[a]) \cap disk.pending # {}
                  THEN rec'[a].result ELSE log[a]]
    BY DEF Restart
  <2>3. log' \in [Agents -> Notes]
    BY <2>1, <2>2 DEF SubInv, LogInv
  <2> QED
    BY <1>1, <2>3 DEF LogInv, Notes
<1>7. ExecInv' /\ CallerInv' /\ DiskInv'
  BY <1>1 DEF ExecInv, Unique, CallerInv, NobodyWaitsForEnded, DiskInv, Persist
<1>8. ServedInv'
  BY <1>1, ParentOf DEF ServedInv, CanStart, Slot
<1> QED
  BY <1>5, <1>6, <1>7, <1>8 DEF SubInv

-----------------------------------------------------------------------------
(* The invariant holds. *)

LEMMA SubStart == SubInit => SubInv
<1> SUFFICES ASSUME SubInit PROVE SubInv
  OBVIOUS
<1>1. /\ rec = [a \in Agents |-> [status |-> "absent", run |-> 0, result |-> None]]
      /\ queue = [p \in Parents |-> <<>>] /\ running = [p \in Parents |-> {}]
      /\ exec = {} /\ waiter = [w \in Waiters |-> None] /\ disk = [rec |-> rec, pending |-> {}]
      /\ log = [a \in Agents |-> None] /\ buffer = [a \in Agents |-> None]
  BY DEF SubInit
<1>2. [status |-> "absent", run |-> 0, result |-> None] \in Records
  BY DEF Records, Notes
<1>3. \A a \in Agents : ~Queued(a) /\ ~Slot(a)
  BY <1>1, ParentOf, EmptyQueue DEF Queued, Slot
<1>4. RecInv
  BY <1>1, <1>2, <1>3, EmptyQueue, StatusSets DEF RecInv, Placed
<1>5. DiskInv
  <2>1. Pending = {}
    BY <1>3, PendingPlace DEF Pending
  <2> QED
    BY <1>1, <2>1 DEF DiskInv
<1>6. ExecInv /\ CallerInv /\ LogInv /\ ServedInv
  BY <1>1, <1>3 DEF ExecInv, Unique, CallerInv, NobodyWaitsForEnded, LogInv, Notes, ServedInv, CanStart
<1> QED
  BY <1>4, <1>5, <1>6 DEF SubInv

LEMMA SubStep ==
  ASSUME SubInv, [SubNext]_vars PROVE SubInv'
<1>1. CASE Pump
  BY <1>1, StartStep, ExecuteStep, PumpEndsStep DEF Pump
<1>2. ASSUME NEW a \in Agents, Ask(a) \/ AskInVain(a) \/ Cancel(a) \/ CancelNext(a) PROVE SubInv'
  BY <1>2, AskStep, AskInVainStep, CancelTaskStep DEF Cancel, CancelNext
<1>3. ASSUME NEW e \in exec, Finish(e) PROVE SubInv'
  BY <1>3, FinishStep
<1>4. ASSUME NEW p \in Parents, BeginTurn(p) \/ StopContext(p) \/ EndTurn(p) PROVE SubInv'
  BY <1>4, TurnStep
<1>5. ASSUME NEW w \in Waiters, WaitTimesOut(w) \/ \E a \in Agents : Wait(w, a) PROVE SubInv'
  BY <1>5, WaitStep
<1>6. CASE UNCHANGED vars
  <2>1. UNCHANGED <<rec, queue, running, exec, disk, log, buffer, waiter, pumping>>
    BY <1>6 DEF vars
  <2>2. LogInv' /\ CallerInv' /\ Marked(exec', exec)
    BY <2>1, Unmarked DEF SubInv, LogInv, CallerInv, NobodyWaitsForEnded
  <2> QED
    BY <2>1, <2>2, Outside
<1> QED
  BY <1>1, <1>2, <1>3, <1>4, <1>5, <1>6, RestartStep DEF SubNext

LEMMA SubAlways == SubSpec => []SubInv
BY SubStart, SubStep, PTL DEF SubSpec

\* The rest of the state has its types.
RestInv ==
    /\ bound \subseteq Agents
    /\ turn \in [Parents -> {"none", "open", "overtaken"}]
    /\ pumping \in BOOLEAN
    /\ canceling \subseteq Agents
    /\ crashes \in 0..MaxCrashes

\* What changes of a parent's history do to its turn.
LEMMA HistoryTurn ==
  ASSUME RestInv, NEW p, NEW direct, NEW es, ChangeHistory(p, direct, es)
  PROVE  /\ turn' \in [Parents -> {"none", "open", "overtaken"}]
         /\ \A q \in Parents : /\ turn'[q] = "none" <=> turn[q] = "none"
                               /\ turn'[q] = "open" => turn[q] = "open"
         /\ direct /\ p \in Parents => turn'[p] # "open"
BY DEF ChangeHistory, Overtaken, RestInv

LEMMA RestStep ==
  ASSUME RestInv, [SubNext]_vars PROVE RestInv'
<1>1. ASSUME NEW a \in Agents, Ask(a) \/ AskInVain(a) PROVE RestInv'
  <2>1. turn' \in [Parents -> {"none", "open", "overtaken"}]
    BY <1>1, HistoryTurn DEF Ask, AskInVain, WriteIndex
  <2>2. bound' \subseteq Agents
    BY <1>1 DEF Ask, AskInVain, Bind, RestInv
  <2>3. pumping' \in BOOLEAN /\ canceling' = canceling /\ crashes' = crashes
    BY <1>1 DEF Ask, AskInVain, RestInv, thread
  <2> QED
    BY <2>1, <2>2, <2>3 DEF RestInv
<1>2. ASSUME NEW p \in Parents, StartNext(p) PROVE RestInv'
  <2>1. turn' \in [Parents -> {"none", "open", "overtaken"}]
    BY <1>2, HistoryTurn DEF StartNext, WriteIndex
  <2> QED
    BY <1>2, <2>1 DEF StartNext, RestInv, thread
<1>3. ASSUME NEW a \in Agents, Execute(a) PROVE RestInv'
  <2>1. turn' = turn \/ turn' = Overtaken(Parent[a])
    BY <1>3 DEF Execute
  <2>2. turn' \in [Parents -> {"none", "open", "overtaken"}]
    BY <2>1 DEF RestInv, Overtaken
  <2> QED
    BY <1>3, <2>2 DEF Execute, RestInv, thread
<1>4. CASE PumpEnds
  BY <1>4 DEF PumpEnds, history, RestInv
<1>5. ASSUME NEW a \in Agents, Cancel(a) \/ CancelNext(a) PROVE RestInv'
  <2>1. turn' \in [Parents -> {"none", "open", "overtaken"}]
    BY <1>5, HistoryTurn DEF Cancel, CancelNext, CancelTask, WriteIndex
  <2> QED
    BY <1>5, <2>1 DEF Cancel, CancelNext, CancelTask, RestInv
<1>6. ASSUME NEW e \in exec, Finish(e) PROVE RestInv'
  <2>1. turn' \in [Parents -> {"none", "open", "overtaken"}]
    BY <1>6, HistoryTurn DEF Finish
  <2> QED
    BY <1>6, <2>1 DEF Finish, RestInv
<1>7. ASSUME NEW p \in Parents, BeginTurn(p) \/ StopContext(p) \/ EndTurn(p) PROVE RestInv'
  BY <1>7 DEF BeginTurn, StopContext, EndTurn, Kids, RestInv, thread, history
<1>8. ASSUME NEW w \in Waiters, WaitTimesOut(w) \/ \E a \in Agents : Wait(w, a) PROVE RestInv'
  BY <1>8 DEF WaitTimesOut, Wait, RestInv, thread, history
<1>9. CASE Restart
  <2>1. /\ bound' = {} /\ turn' = [p \in Parents |-> "none"] /\ pumping' = FALSE
        /\ canceling' = {} /\ crashes < MaxCrashes /\ crashes' = crashes + 1
    BY <1>9 DEF Restart
  <2>2. crashes' \in 0..MaxCrashes
    BY <2>1, SubAgentsAssumption DEF RestInv
  <2> QED
    BY <2>1, <2>2 DEF RestInv
<1>10. CASE UNCHANGED vars
  <2>1. UNCHANGED <<bound, turn, pumping, canceling, crashes>>
    BY <1>10 DEF vars
  <2> QED
    BY <2>1 DEF RestInv
<1> QED
  BY <1>1, <1>2, <1>3, <1>4, <1>5, <1>6, <1>7, <1>8, <1>9, <1>10 DEF SubNext, Pump

LEMMA RestStart == SubInit => RestInv
<1>1. 0 \in 0..MaxCrashes
  BY SubAgentsAssumption
<1> QED
  BY <1>1 DEF SubInit, RestInv

LEMMA RestAlways == SubSpec => []RestInv
BY RestStart, RestStep, PTL DEF SubSpec

-----------------------------------------------------------------------------
(* What follows from it *)

\* Every record, queue, execution, file and note is what it should be.
THEOREM TypeCorrect == SubSpec => []SubTypeOK
<1>1. ASSUME SubInv, RestInv PROVE SubTypeOK
  <2>1. /\ rec \in [Agents -> Records] /\ log \in [Agents -> Notes] /\ buffer \in [Agents -> Notes]
        /\ queue \in [Parents -> Seq(Agents)] /\ running \in [Parents -> SUBSET Agents]
        /\ exec \subseteq Executions
        /\ waiter \in [Waiters -> {None} \cup [agent : Agents, run : Nat]]
    BY <1>1 DEF SubInv, RecInv, LogInv, ExecInv, CallerInv, Queues
  <2>2. disk \in [rec : [Agents -> Records], pending : SUBSET Agents]
    BY <1>1, <2>1 DEF SubInv, DiskInv, Pending
  <2> QED
    BY <1>1, <2>1, <2>2 DEF SubTypeOK, RestInv
<1> QED
  BY <1>1, SubAlways, RestAlways, PTL

\* An element is once in a queue, or not at all.
LEMMA OnceInQueue ==
  ASSUME NEW q \in Queues, NEW a
  PROVE  Cardinality({k \in DOMAIN q : q[k] = a}) = IF In(a, q) THEN 1 ELSE 0
<1>1. CASE In(a, q)
  <2>1. PICK k \in DOMAIN q : q[k] = a
    BY <1>1 DEF In
  <2>2. {l \in DOMAIN q : q[l] = a} = {k}
    BY <2>1 DEF Queues
  <2> QED
    BY <1>1, <2>2, FS_Singleton
<1>2. CASE ~In(a, q)
  <2>1. {l \in DOMAIN q : q[l] = a} = {}
    BY <1>2 DEF In
  <2> QED
    BY <1>2, <2>1, FS_EmptySet
<1> QED
  BY <1>1, <1>2

\* No record without its task, no slot without its execution, no free slot that a
\* queued task could have: between any two handlers of any number of sub-agents,
\* whatever comes late.
THEOREM NothingStrands == SubSpec => []NoTaskIsStranded
<1>1. ASSUME SubInv PROVE NoIdleSlot
  BY <1>1 DEF SubInv, ServedInv, NoIdleSlot, Idle
<1>2. ASSUME SubInv, Idle, NEW a \in Agents
      PROVE  LET slot == a \in running[Parent[a]]
                 places == {k \in DOMAIN queue[Parent[a]] : queue[Parent[a]][k] = a}
             IN  /\ rec[a].status = "queued" => ~slot /\ places # {}
                 /\ rec[a].status = "running" => slot
                 /\ slot => \E e \in exec : e.agent = a /\ e.run = rec[a].run /\ ~e.stopped
                 /\ Cardinality(places) <= IF slot THEN 0 ELSE 1
  <2> DEFINE places == {k \in DOMAIN queue[Parent[a]] : queue[Parent[a]][k] = a}
  <2>1. /\ rec[a].status = "queued" => ~Slot(a) /\ places # {}
        /\ rec[a].status = "running" => Slot(a)
        /\ ~(Queued(a) /\ Slot(a))
    BY <1>2 DEF SubInv, RecInv, Placed, Queued, In
  <2>2. ASSUME Slot(a)
        PROVE  \E e \in exec : e.agent = a /\ e.run = rec[a].run /\ ~e.stopped
    <3>1. PICK e \in exec : e.agent = a /\ e.run = rec[a].run
      BY <1>2, <2>2 DEF SubInv, ServedInv, Idle, Executing
    <3>2. ~e.stopped
      BY <1>2, <2>2, <3>1 DEF SubInv, ExecInv, Begun
    <3> QED
      BY <3>1, <3>2
  <2>3. Cardinality(places) = IF Queued(a) THEN 1 ELSE 0
    BY <1>2, OneRecord, OnceInQueue DEF SubInv, Queued
  <2>4. Cardinality(places) <= IF Slot(a) THEN 0 ELSE 1
    BY <2>1, <2>3
  <2> QED
    BY <2>1, <2>2, <2>4 DEF Slot
<1>3. SubInv => NoTaskIsStranded
  BY <1>1, <1>2 DEF NoTaskIsStranded, OpenRunsAreServed
<1> QED
  BY <1>3, SubAlways, PTL

\* No caller sleeps through the end of the run it waits for.
THEOREM NobodySleeps == SubSpec => []NobodyWaitsForEnded
<1>1. SubInv => NobodyWaitsForEnded
  BY DEF SubInv, CallerInv
<1> QED
  BY <1>1, SubAlways, PTL

-----------------------------------------------------------------------------
(* The manager keeps its promise. *)

Outcome(a) == IF rec[a].status = "absent" THEN "none"
              ELSE IF a \in Pending THEN "open"
              ELSE rec[a].status
RunOf == [a \in Agents |-> rec[a].run]
OutcomeOf == [a \in Agents |-> Outcome(a)]

\* Only the run and the outcome of a change.
LEMMA PromiseMoves ==
  ASSUME NEW a \in Agents, Others(a)
  PROVE  /\ RunOf' = [RunOf EXCEPT ![a] = rec'[a].run]
         /\ OutcomeOf' = [OutcomeOf EXCEPT ![a] = Outcome(a)']
<1>1. ASSUME NEW b \in Agents, b # a PROVE rec'[b].run = rec[b].run /\ Outcome(b)' = Outcome(b)
  <2>1. b \in Pending' <=> b \in Pending
    <3>1. b \in Pending <=> Queued(b) \/ Slot(b)
      BY PendingPlace
    <3>2. b \in Pending' <=> Queued(b)' \/ Slot(b)'
      BY DEF Pending, Queued, Slot, In
    <3> QED
      BY <1>1, <3>1, <3>2 DEF Others
  <2> QED
    BY <1>1, <2>1 DEF Others, Outcome
<1> QED
  BY <1>1 DEF RunOf, OutcomeOf

\* Where the pending tasks are after a step
LEMMA PendingThen == ASSUME NEW a \in Agents PROVE a \in Pending' <=> Queued(a)' \/ Slot(a)'
BY DEF Pending, Queued, Slot, In

LEMMA Stutters ==
  ASSUME NEW a \in Agents, Others(a), rec'[a].run = rec[a].run, Outcome(a)' = Outcome(a)
  PROVE  UNCHANGED <<RunOf, OutcomeOf>>
BY PromiseMoves DEF RunOf, OutcomeOf

LEMMA Settled ==
  ASSUME RecInv, NEW a \in Agents, Others(a), a \in Pending, a \notin Pending',
         rec'[a].run = rec[a].run, rec'[a].status \in Terminal
  PROVE  Promise!Next
<1>1. /\ RunOf' = [RunOf EXCEPT ![a] = rec'[a].run]
      /\ OutcomeOf' = [OutcomeOf EXCEPT ![a] = Outcome(a)']
  BY PromiseMoves
<1>2. rec[a].status # "absent"
  BY PendingPlace DEF RecInv, Placed
<1>3. Outcome(a) = "open" /\ Outcome(a)' = rec'[a].status
  BY <1>2, StatusSets DEF Outcome
<1>4. RunOf' = RunOf
  BY <1>1 DEF RunOf
<1>5. /\ OutcomeOf[a] = "open"
      /\ \E o \in Promise!Settlements : OutcomeOf' = [OutcomeOf EXCEPT ![a] = o]
  BY <1>1, <1>3 DEF OutcomeOf, Terminal, Promise!Settlements
<1>6. Promise!Settle(a)
  BY <1>4, <1>5 DEF Promise!Settle, RunOf, OutcomeOf, Outcome
<1> QED
  BY <1>6 DEF Promise!Next

LEMMA AsksOnce ==
  ASSUME RecInv, NEW a \in Agents, Others(a), ~Queued(a), ~Slot(a),
         rec'[a].run = rec[a].run + 1,
         \/ rec'[a].status = "queued" /\ Queued(a)'
         \/ rec'[a].status = "failed" /\ ~Queued(a)' /\ ~Slot(a)'
  PROVE  Promise!Next
<1>1. /\ RunOf' = [RunOf EXCEPT ![a] = rec'[a].run]
      /\ OutcomeOf' = [OutcomeOf EXCEPT ![a] = Outcome(a)']
  BY PromiseMoves
<1>2. Outcome(a) # "open"
  BY PendingPlace, OneRecord DEF Outcome, Terminal, Open
<1>3. Outcome(a)' \in {"open", "failed"}
  BY PendingThen DEF Outcome
<1>4. RunOf[a] = rec[a].run /\ OutcomeOf[a] # "open"
  BY <1>2 DEF RunOf, OutcomeOf
<1>5. Promise!Ask(a)
  <2>1. RunOf' = [RunOf EXCEPT ![a] = @ + 1]
    BY <1>1, <1>4
  <2>2. \E o \in {"open", "failed"} : OutcomeOf' = [OutcomeOf EXCEPT ![a] = o]
    BY <1>1, <1>3
  <2> QED
    BY <1>4, <2>1, <2>2 DEF Promise!Ask, RunOf, OutcomeOf, Outcome
<1> QED
  BY <1>5 DEF Promise!Next

\* The output of an execution settles the pending task if it is the task's own.
LEMMA FinishSettles ==
  ASSUME SubInv, NEW e \in exec, Finish(e) PROVE [Promise!Next]_<<RunOf, OutcomeOf>>
<1> DEFINE a == e.agent
<1>1. PICK status \in Terminal :
        /\ SettleRecord(a, FinalResult(e, status))
        /\ IF e.run = rec[a].run THEN Unqueued(a) ELSE UNCHANGED <<queue, running>>
  BY FinishDoes
<1>2. /\ Others(a) /\ rec'[a].run = rec[a].run /\ rec'[a].status \in Terminal
      /\ rec[a].status \in Terminal => rec'[a] = rec[a]
      /\ e.run = rec[a].run => ~Queued(a)' /\ ~Slot(a)'
      /\ e.run # rec[a].run => (Queued(a)' <=> Queued(a)) /\ (Slot(a)' <=> Slot(a))
  <2>1. FinalResult(e, status).status \in Terminal
    BY <1>1, FinishMoves DEF SubInv
  <2> QED
    BY <1>1, <2>1, FinishMoves DEF SubInv
<1>3. /\ a \in Agents /\ RecInv /\ rec[a].status # "absent"
      /\ rec[a].status \in Terminal \cup Open \cup {"absent"}
  BY OneRecord DEF SubInv, ExecInv, Executions, Begun
<1> HIDE DEF a
<1>4. CASE a \in Pending /\ e.run = rec[a].run
  <2>1. a \notin Pending'
    BY <1>2, <1>3, <1>4, PendingThen
  <2> QED
    BY <1>2, <1>3, <1>4, <2>1, Settled
<1>5. CASE a \in Pending /\ e.run # rec[a].run
  <2>1. a \in Pending' /\ rec'[a].status # "absent"
    BY <1>2, <1>3, <1>5, PendingPlace, PendingThen, StatusSets
  <2>2. rec'[a].run = rec[a].run /\ Outcome(a)' = Outcome(a)
    BY <1>2, <1>3, <1>5, <2>1, StatusSets DEF Outcome
  <2> QED
    BY <1>2, <1>3, <2>2, Stutters
<1>6. CASE a \notin Pending
  <2>1. rec[a].status \in Terminal /\ rec'[a] = rec[a]
    BY <1>2, <1>3, <1>6, PendingPlace
  <2>2. a \notin Pending'
    BY <1>2, <1>3, <1>6, PendingPlace, PendingThen
  <2>3. rec'[a].run = rec[a].run /\ Outcome(a)' = Outcome(a)
    BY <1>6, <2>1, <2>2 DEF Outcome
  <2> QED
    BY <1>2, <1>3, <2>3, Stutters
<1> QED
  BY <1>4, <1>5, <1>6

LEMMA PromiseSimulation ==
  ASSUME SubInv, [SubNext]_vars PROVE [Promise!Next]_<<RunOf, OutcomeOf>>
<1>0. RecInv
  BY DEF SubInv
<1>1. ASSUME NEW p \in Parents, StartNext(p) PROVE UNCHANGED <<RunOf, OutcomeOf>>
  <2>1. PICK a \in Agents :
          /\ Others(a) /\ Queued(a) /\ Slot(a)'
          /\ rec'[a].status = "running" /\ rec'[a].run = rec[a].run
    BY <1>0, <1>1, StartMoves
  <2>2. rec[a].status # "absent" /\ a \in Pending /\ a \in Pending'
    BY <1>0, <2>1, PendingPlace, PendingThen DEF RecInv, Placed
  <2>3. Outcome(a)' = Outcome(a)
    BY <2>1, <2>2 DEF Outcome
  <2> QED
    BY <2>1, <2>3, Stutters
<1>2. ASSUME NEW a \in Agents, Ask(a) PROVE Promise!Next
  <2>1. /\ Others(a) /\ ~Queued(a) /\ ~Slot(a) /\ Queued(a)'
        /\ rec'[a] = [status |-> "queued", run |-> rec[a].run + 1, result |-> None]
    BY <1>0, <1>2, AskMoves
  <2>2. rec'[a].status = "queued" /\ rec'[a].run = rec[a].run + 1
    BY <2>1
  <2> QED
    BY <1>0, <2>1, <2>2, AsksOnce
<1>3. ASSUME NEW a \in Agents, AskInVain(a) PROVE Promise!Next
  <2>1. /\ Others(a) /\ ~Queued(a) /\ ~Slot(a) /\ ~Queued(a)' /\ ~Slot(a)'
        /\ rec'[a].status = "failed" /\ rec'[a].run = rec[a].run + 1
    BY <1>0, <1>3, AskInVainMoves
  <2> QED
    BY <1>0, <2>1, AsksOnce
<1>4. ASSUME NEW a \in Agents, CancelTask(a) PROVE Promise!Next
  <2>1. /\ Others(a) /\ ~Queued(a)' /\ ~Slot(a)'
        /\ rec'[a].status = "canceled" /\ rec'[a].run = rec[a].run
    BY <1>0, <1>4, CancelMoves
  <2>2. a \in Pending /\ a \notin Pending' /\ rec'[a].status \in Terminal
    BY <1>4, <2>1, PendingThen, StatusSets DEF CancelTask
  <2> QED
    BY <1>0, <2>1, <2>2, Settled
<1>5. ASSUME Restart PROVE Promise!Next
  <2>1. ASSUME NEW a \in Agents
        PROVE  /\ rec'[a].run = rec[a].run
               /\ Outcome(a)' = IF Outcome(a) = "open" THEN "failed" ELSE Outcome(a)
    <3>1. a \notin Pending'
      <4>1. ~Queued(a)' /\ ~Slot(a)'
        BY <1>5, ParentOf, EmptyQueue DEF Restart, Queued, Slot
      <4> QED
        BY <4>1, PendingThen
    <3>2. a \in Pending => rec[a].status # "absent"
      BY <1>0, PendingPlace DEF RecInv, Placed
    <3>3. rec[a].status # "open"
      BY <1>0, OneRecord DEF Terminal, Open
    <3> QED
      BY <1>5, <3>1, <3>2, <3>3, RestartRecords DEF Outcome
  <2>2. RunOf' = RunOf
    BY <2>1 DEF RunOf
  <2>3. OutcomeOf' = [a \in Agents |-> IF OutcomeOf[a] = "open" THEN "failed" ELSE OutcomeOf[a]]
    BY <2>1 DEF OutcomeOf
  <2>4. Promise!Die
    BY <2>2, <2>3 DEF Promise!Die, RunOf, OutcomeOf, Outcome
  <2> QED
    BY <2>4 DEF Promise!Next
<1>6. CASE UNCHANGED <<rec, queue, running>>
  BY <1>6 DEF RunOf, OutcomeOf, Outcome, Pending
<1>7. \/ \E p \in Parents : StartNext(p)
      \/ \E a \in Agents : Ask(a) \/ AskInVain(a) \/ CancelTask(a)
      \/ \E e \in exec : Finish(e)
      \/ Restart
      \/ UNCHANGED <<rec, queue, running>>
  BY DEF SubNext, Pump, Execute, PumpEnds, Cancel, CancelNext, BeginTurn, StopContext, EndTurn,
         WaitTimesOut, Wait, manager, vars
<1> QED
  BY <1>1, <1>2, <1>3, <1>4, <1>5, <1>6, <1>7, FinishSettles

\* Each delegated task is settled once, with one outcome that stands until the
\* sub-agent is asked again, also when a canceled run's output comes in meanwhile.
THEOREM KeepsPromise == SubSpec => PromiseRefinement
<1>1. SubInit => Promise!Init
  BY ParentOf DEF SubInit, Promise!Init
<1>2. SubInv /\ [SubNext]_vars => [Promise!Next]_<<RunOf, OutcomeOf>>
  BY PromiseSimulation
<1>3. [Promise!Next]_<<RunOf, OutcomeOf>> => [Promise!Next]_Promise!vars
  BY DEF RunOf, OutcomeOf, Outcome, Promise!vars
<1> QED
  BY <1>1, <1>2, <1>3, SubAlways, PTL DEF SubSpec, PromiseRefinement, Promise!Spec

-----------------------------------------------------------------------------
(* Published results *)

\* A run's own result, and not that of a run before.
Own(x) == x # None /\ x.by = x.run

\* A note about a is of a run there was, and if it is the own result of the latest
\* run, it is what the record says.
NoteOf(x, a) ==
    /\ x # None => x.run <= rec[a].run
    /\ Own(x) /\ x.run = rec[a].run => rec[a].status \in Terminal /\ x = rec[a].result

\* A turn that can be committed has no older note than the history.
TurnNotes(a) ==
    /\ turn[Parent[a]] = "none" => buffer[a] = None
    /\ turn[Parent[a]] = "open" /\ buffer[a] # None /\ Own(log[a])
         => log[a] = buffer[a] \/ log[a].run < buffer[a].run

\* What is published, and what the parent's turn has to publish, are such notes.
PublishedInv ==
    \A a \in Agents : NoteOf(log[a], a) /\ NoteOf(buffer[a], a) /\ TurnNotes(a)

\* So is what a checkpoint has.
SavedInv == \A e \in exec : e.saved # None => \A a \in Agents : NoteOf(e.saved[a], a)

NotesInv == PublishedInv /\ SavedInv

\* The own result of the latest run is kept, until there is a later run.
RecStays(a) ==
    /\ rec'[a].run \in Nat
    /\ \/ rec'[a].run > rec[a].run
       \/ /\ rec'[a].run = rec[a].run
          /\ rec[a].status \in Terminal /\ rec[a].result.by = rec[a].run => rec'[a] = rec[a]

\* An own note is kept, replaced by one of a later run, or taken back.
Stays(a) ==
    Own(log[a]) /\ log'[a] # log[a]
        => (log'[a] # None /\ log'[a].run > log[a].run) \/ \E e \in exec : TakesBack(e, a)

StaysStep == \A a \in Agents : Stays(a)

LEMMA NoteTypes ==
  ASSUME SubInv, NEW a \in Agents
  PROVE  /\ rec[a].run \in Nat /\ Parent[a] \in Parents
         /\ log[a] \in Notes /\ buffer[a] \in Notes
         /\ \A x \in Notes : x = None \/ (x \in Results /\ x.run \in Nat /\ x.by \in Nat)
BY OneRecord DEF SubInv, LogInv, Notes, Results

LEMMA NoteStays ==
  ASSUME SubInv, NEW a \in Agents, RecStays(a), NEW x \in Notes, NoteOf(x, a)
  PROVE  NoteOf(x, a)'
<1>1. rec[a].run \in Nat /\ (x # None => x.run \in Nat)
  BY NoteTypes
<1> QED
  BY <1>1 DEF NoteOf, RecStays, Own

\* Whatever the step, records stay.
LEMMA RecordsStay ==
  ASSUME SubInv, [SubNext]_vars, NEW b \in Agents PROVE RecStays(b)
<1>0. RecInv /\ rec[b].run \in Nat
  BY OneRecord DEF SubInv
<1>1. ASSUME NEW a \in Agents, Others(a), b # a PROVE RecStays(b)
  BY <1>0, <1>1 DEF Others, RecStays
<1>2. ASSUME NEW p \in Parents, StartNext(p) PROVE RecStays(b)
  <2>1. PICK a \in Agents : Others(a) /\ Queued(a) /\ rec'[a].run = rec[a].run
    BY <1>0, <1>2, StartMoves
  <2>2. CASE b = a
    <3>1. ~(rec[a].status \in Terminal /\ rec[a].result.by = rec[a].run)
      BY <1>0, <2>1 DEF RecInv, Placed
    <3> QED
      BY <1>0, <2>1, <2>2, <3>1 DEF RecStays
  <2> QED
    BY <1>1, <2>1, <2>2
<1>3. ASSUME NEW a \in Agents, Ask(a) \/ AskInVain(a) PROVE RecStays(b)
  <2>1. Others(a) /\ rec'[a].run = rec[a].run + 1
    <3>1. CASE Ask(a)
      <4>1. /\ Others(a)
            /\ rec'[a] = [status |-> "queued", run |-> rec[a].run + 1, result |-> None]
        BY <1>0, <3>1, AskMoves
      <4> QED
        BY <4>1
    <3>2. CASE AskInVain(a)
      BY <1>0, <3>2, AskInVainMoves
    <3> QED
      BY <1>3, <3>1, <3>2
  <2> QED
    BY <1>0, <1>1, <2>1 DEF RecStays
<1>4. ASSUME NEW a \in Agents, CancelTask(a) PROVE RecStays(b)
  <2>1. Others(a) /\ a \in Pending /\ rec'[a].run = rec[a].run
    BY <1>0, <1>4, CancelMoves DEF CancelTask
  <2>2. CASE b = a
    <3>1. ~(rec[a].status \in Terminal /\ rec[a].result.by = rec[a].run)
      BY <1>0, <2>1, PendingPlace DEF RecInv, Placed
    <3> QED
      BY <1>0, <2>1, <2>2, <3>1 DEF RecStays
  <2> QED
    BY <1>1, <2>1, <2>2
<1>5. ASSUME NEW e \in exec, Finish(e) PROVE RecStays(b)
  <2>1. PICK status \in Terminal :
          /\ SettleRecord(e.agent, FinalResult(e, status))
          /\ IF e.run = rec[e.agent].run THEN Unqueued(e.agent) ELSE UNCHANGED <<queue, running>>
    BY <1>5, FinishDoes
  <2>2. /\ Others(e.agent) /\ rec'[e.agent].run = rec[e.agent].run /\ e.agent \in Agents
        /\ rec[e.agent].status \in Terminal => rec'[e.agent] = rec[e.agent]
    BY <2>1, FinishMoves DEF SubInv, ExecInv, Executions
  <2> QED
    BY <1>0, <1>1, <2>2 DEF RecStays
<1>6. CASE Restart
  <2>1. rec'[b].run = rec[b].run /\ (b \notin Pending => rec'[b] = rec[b])
    BY <1>6, RestartRecords
  <2>2. b \in Pending => ~(rec[b].status \in Terminal /\ rec[b].result.by = rec[b].run)
    BY <1>0, PendingPlace DEF RecInv, Placed
  <2> QED
    BY <1>0, <2>1, <2>2 DEF RecStays
<1>7. CASE UNCHANGED rec
  BY <1>0, <1>7 DEF RecStays
<1>8. \/ \E p \in Parents : StartNext(p)
      \/ \E a \in Agents : Ask(a) \/ AskInVain(a) \/ CancelTask(a)
      \/ \E e \in exec : Finish(e)
      \/ Restart
      \/ UNCHANGED rec
  BY DEF SubNext, Pump, Execute, PumpEnds, Cancel, CancelNext, BeginTurn, StopContext, EndTurn,
         WaitTimesOut, Wait, manager, vars
<1> QED
  BY <1>2, <1>3, <1>4, <1>5, <1>6, <1>7, <1>8

\* A checkpoint is an old one, or what is published.
LEMMA SavedStep ==
  ASSUME SubInv, NotesInv, [SubNext]_vars PROVE SavedInv'
<1>1. \A f \in exec' : f.saved = None \/ f.saved = log \/ \E e \in exec : f.saved = e.saved
  <2>0. exec \in SUBSET Executions /\ ExecInv
    BY DEF SubInv, ExecInv
  <2>1. ASSUME NEW a \in Agents, Ask(a) \/ AskInVain(a) PROVE Marked(exec', exec)
    BY <2>0, <2>1, HistoryMarks DEF Ask, AskInVain, WriteIndex
  <2>2. ASSUME NEW p \in Parents, StartNext(p) PROVE Marked(exec', exec)
    BY <2>0, <2>2, HistoryMarks DEF StartNext, WriteIndex
  <2>3. ASSUME NEW a \in Agents, CancelTask(a)
        PROVE  \A f \in exec' : \E e \in exec : f.saved = e.saved
    <3> DEFINE stop(e) == [e EXCEPT !.stopped = @ \/ (e.agent = a /\ e.run = rec[a].run)]
               es == {stop(e) : e \in exec}
    <3>1. \A e \in exec : stop(e) \in Executions /\ stop(e).saved = e.saved
      BY <2>0 DEF Executions
    <3> HIDE DEF stop
    <3>2. WriteIndex(Parent[a], bound, es)
      BY <2>3 DEF CancelTask, stop
    <3>3. es \in SUBSET Executions
      BY <3>1
    <3>4. Marked(exec', es)
      BY <3>2, <3>3, HistoryMarks DEF WriteIndex
    <3> QED
      BY <3>1, <3>4 DEF Marked
  <2>4. ASSUME NEW e \in exec, Finish(e) PROVE \A f \in exec' : \E g \in exec : f.saved = g.saved
    <3>1. PICK direct \in BOOLEAN : ChangeHistory(Parent[e.agent], direct, exec \ {e})
      BY <2>4, FinishDoes
    <3>2. Marked(exec', exec \ {e})
      BY <2>0, <3>1, HistoryMarks
    <3> QED
      BY <3>2 DEF Marked
  <2>5. ASSUME NEW p \in Parents, EndTurn(p) PROVE Marked(exec', exec)
    BY <2>0, <2>5, EndTurnMarks
  <2>6. ASSUME NEW a \in Agents, Execute(a)
        PROVE  \A f \in exec' : f \in exec \/ f.saved = None \/ f.saved = log
    <3> DEFINE inTurn == turn[Parent[a]] # "none" /\ a \in bound
               n == [agent |-> a, run |-> rec[a].run, stopped |-> FALSE, inTurn |-> inTurn,
                     alone |-> Cardinality(running[Parent[a]]) <= 1, dirty |-> FALSE,
                     saved |-> IF inTurn THEN None ELSE log]
    <3>1. exec' = exec \cup {n}
      BY <2>6 DEF Execute
    <3>2. n.saved = None \/ n.saved = log
      OBVIOUS
    <3> HIDE DEF n
    <3> QED
      BY <3>1, <3>2
  <2>7. Restart => exec' = {}
    BY DEF Restart
  <2>8. \/ \E p \in Parents : StartNext(p) \/ EndTurn(p)
        \/ \E a \in Agents : Ask(a) \/ AskInVain(a) \/ CancelTask(a) \/ Execute(a)
        \/ \E e \in exec : Finish(e)
        \/ Restart
        \/ UNCHANGED exec
    BY DEF SubNext, Pump, PumpEnds, Cancel, CancelNext, BeginTurn, StopContext,
           WaitTimesOut, Wait, vars
  <2> QED
    BY <2>1, <2>2, <2>3, <2>4, <2>5, <2>6, <2>7, <2>8 DEF Marked
<1>2. ASSUME NEW f \in exec', f.saved # None, NEW a \in Agents PROVE NoteOf(f.saved[a], a)'
  <2>1. PICK s \in [Agents -> Notes] : f.saved = s /\ NoteOf(s[a], a)
    <3>1. log \in [Agents -> Notes] /\ NoteOf(log[a], a)
      BY DEF SubInv, LogInv, NotesInv, PublishedInv
    <3>2. \A e \in exec : e.saved # None => e.saved \in [Agents -> Notes] /\ NoteOf(e.saved[a], a)
      BY DEF SubInv, ExecInv, Executions, NotesInv, SavedInv
    <3> QED
      BY <1>1, <1>2, <3>1, <3>2
  <2>2. RecStays(a) /\ s[a] \in Notes
    BY <2>1, RecordsStay
  <2> QED
    BY <2>1, <2>2, NoteStays
<1> QED
  BY <1>2 DEF SavedInv

\* A turn does not become committable by what others write.
TurnStays ==
    \A q \in Parents : /\ turn'[q] = "none" <=> turn[q] = "none"
                       /\ turn'[q] = "open" => turn[q] = "open"

\* The notes there are remain notes.
LEMMA OldNotes ==
  ASSUME SubInv, PublishedInv, NEW a \in Agents, RecStays(a)
  PROVE  /\ \A x \in Notes : x = log[a] \/ x = buffer[a] => NoteOf(x, a)'
         /\ log'[a] = log[a] => NoteOf(log[a], a)' /\ Stays(a)
         /\ buffer'[a] = buffer[a] => NoteOf(buffer[a], a)'
<1>1. \A x \in Notes : x = log[a] \/ x = buffer[a] => NoteOf(x, a)'
  BY NoteStays DEF PublishedInv
<1>2. log[a] \in Notes /\ buffer[a] \in Notes
  BY NoteTypes
<1> QED
  BY <1>1, <1>2 DEF NoteOf, Stays

\* A step that changes no note
LEMMA NothingPublished ==
  ASSUME SubInv, PublishedInv, \A a \in Agents : RecStays(a), UNCHANGED <<log, buffer>>, TurnStays
  PROVE  PublishedInv' /\ StaysStep
<1>1. ASSUME NEW a \in Agents
      PROVE  NoteOf(log[a], a)' /\ NoteOf(buffer[a], a)' /\ TurnNotes(a)' /\ Stays(a)
  <2>1. TurnNotes(a)'
    BY ParentOf DEF PublishedInv, TurnNotes, TurnStays, Own
  <2> QED
    BY <2>1, OldNotes
<1> QED
  BY <1>1 DEF PublishedInv, StaysStep

\* The result of the latest run of a is published, in the parent's turn or, together
\* with the rollback of the checkpoint of an execution of a that ends, outside of it.
LEMMA ResultPublished ==
  ASSUME SubInv, RestInv, NotesInv, NEW a \in Agents, \A b \in Agents : RecStays(b),
         NEW result \in Results, result = rec'[a].result, result.run = rec'[a].run,
         rec'[a].status \in Terminal,
         NEW named, NEW direct \in BOOLEAN, NEW base, NEW es,
         PublishResult(a, result, named, base), ChangeHistory(Parent[a], direct, es),
         ~Buffered(Parent[a], named) => direct,
         \/ base = log
         \/ direct /\ \E e \in exec : /\ e.agent = a /\ e.saved # None /\ e.alone /\ e.dirty
                                      /\ base = RolledBack(Parent[a], e)
                                      /\ ~\E f \in exec' : f.agent = e.agent /\ f.run = e.run
  PROVE  PublishedInv' /\ StaysStep
<1>0. PublishedInv /\ SavedInv /\ Parent[a] \in Parents /\ None \notin Results
  BY ParentOf, NoneAssumption DEF NotesInv
<1>1. TurnStays /\ (direct => turn'[Parent[a]] # "open")
  BY <1>0, HistoryTurn DEF TurnStays
<1>2. PICK past \in [Agents -> Notes] :
        /\ past = base
        /\ \A b \in Agents : NoteOf(past[b], b)
        /\ \/ past = log
           \/ /\ direct
              /\ \A b \in Agents : Parent[b] # Parent[a] => past[b] = log[b]
              /\ \A b \in Agents : Parent[b] = Parent[a] /\ log'[b] = past[b]
                                     => \E e \in exec : TakesBack(e, b)
  <2>1. log \in [Agents -> Notes]
    BY DEF SubInv, LogInv
  <2>2. CASE base = log
    BY <1>0, <2>1, <2>2 DEF PublishedInv
  <2>3. ASSUME NEW e \in exec, direct, e.agent = a, e.saved # None, e.alone, e.dirty,
               base = RolledBack(Parent[a], e),
               ~\E f \in exec' : f.agent = e.agent /\ f.run = e.run
        PROVE  /\ base \in [Agents -> Notes]
               /\ \A b \in Agents : NoteOf(base[b], b)
               /\ \A b \in Agents : Parent[b] # Parent[a] => base[b] = log[b]
               /\ \A b \in Agents : Parent[b] = Parent[a] /\ log'[b] = base[b]
                                      => TakesBack(e, b)
    <3>1. e.saved \in [Agents -> Notes] /\ \A b \in Agents : NoteOf(e.saved[b], b)
      BY <1>0, <2>3 DEF SubInv, ExecInv, Executions, SavedInv
    <3>2. base = [b \in Agents |-> IF Parent[b] = Parent[a] THEN e.saved[b] ELSE log[b]]
      BY <2>3 DEF RolledBack
    <3>3. \A b \in Agents : NoteOf(log[b], b)
      BY <1>0 DEF PublishedInv
    <3> QED
      BY <2>1, <2>3, <3>1, <3>2, <3>3 DEF TakesBack
  <2> QED
    BY <2>2, <2>3
<1>3. \A b \in Agents : /\ log'[b] = past[b] \/ (b = a /\ log'[b] = result)
                        /\ b # a => log'[b] = past[b] /\ buffer'[b] = buffer[b]
  BY <1>2 DEF PublishResult, SubInv, LogInv
<1>4. \/ /\ turn[Parent[a]] # "none" /\ buffer'[a] = result /\ log'[a] = past[a]
      \/ direct /\ buffer'[a] = buffer[a] /\ log'[a] = result
  BY <1>2 DEF PublishResult, SubInv, LogInv, Buffered
<1>5. NoteOf(result, a)' /\ result # None
  BY <1>0, NoteTypes DEF NoteOf, RecStays
<1>6. ASSUME NEW b \in Agents
      PROVE  /\ NoteOf(past[b], b)' /\ NoteOf(log[b], b)' /\ NoteOf(buffer[b], b)'
             /\ \A x \in Notes : x = log[b] => NoteOf(x, b)'
  <2>1. \A x \in Notes : NoteOf(x, b) => NoteOf(x, b)'
    BY NoteStays
  <2>2. /\ past[b] \in Notes /\ log[b] \in Notes /\ buffer[b] \in Notes
        /\ NoteOf(past[b], b) /\ NoteOf(log[b], b) /\ NoteOf(buffer[b], b)
    BY <1>0, <1>2, NoteTypes DEF PublishedInv
  <2>3. /\ NoteOf(past[b], b)'
        /\ \A x \in Notes : x = log[b] \/ x = buffer[b] => NoteOf(x, b)'
    BY <2>1, <2>2
  <2>4. NoteOf(log[b], b)'
    BY <1>3, <1>5, <2>3 DEF NoteOf
  <2>5. NoteOf(buffer[b], b)'
    BY <1>3, <1>4, <1>5, <2>2, <2>3 DEF NoteOf
  <2> QED
    BY <2>3, <2>4, <2>5
<1>7. ASSUME NEW b \in Agents PROVE TurnNotes(b)'
  <2>1. TurnNotes(b) /\ Parent[b] \in Parents
    BY <1>0, ParentOf DEF PublishedInv
  <2>2. CASE Parent[b] # Parent[a]
    <3>1. log'[b] = log[b] /\ buffer'[b] = buffer[b]
      BY <1>2, <1>3, <2>2
    <3> QED
      BY <1>1, <2>1, <3>1 DEF TurnNotes, TurnStays, Own
  <2>3. CASE Parent[b] = Parent[a] /\ direct
    <3>1. turn[Parent[b]] = "none" => buffer'[b] = buffer[b]
      BY <1>3, <1>4, <2>3
    <3> QED
      BY <1>1, <2>1, <2>3, <3>1 DEF TurnNotes, TurnStays
  <2>4. CASE Parent[b] = Parent[a] /\ ~direct /\ b # a
    <3>1. log'[b] = log[b] /\ buffer'[b] = buffer[b]
      BY <1>2, <1>3, <2>4
    <3> QED
      BY <1>1, <2>1, <3>1 DEF TurnNotes, TurnStays, Own
  <2>5. CASE b = a /\ ~direct
    <3>1. log'[a] = log[a] /\ buffer'[a] = result /\ turn[Parent[a]] # "none"
      BY <1>2, <1>4, <2>5
    <3>2. Own(log[a]) => log[a] = result \/ log[a].run < result.run
      <4>1. PICK x \in Notes : x = log[a]
        BY NoteTypes
      <4>2. NoteOf(x, a)' /\ (x # None => x.run \in Nat) /\ rec'[a].run \in Nat
        BY <1>6, <4>1, NoteTypes DEF RecStays
      <4> QED
        BY <4>1, <4>2 DEF NoteOf, Own
    <3> QED
      BY <1>1, <2>1, <2>5, <3>1, <3>2 DEF TurnNotes, TurnStays, Own
  <2> QED
    BY <2>2, <2>3, <2>4, <2>5
<1>8. ASSUME NEW b \in Agents PROVE Stays(b)
  <2>1. CASE log'[b] = past[b]
    <3>1. past = log \/ Parent[b] # Parent[a] => Stays(b)
      BY <1>2, <2>1 DEF Stays
    <3>2. past # log /\ Parent[b] = Parent[a] => \E e \in exec : TakesBack(e, b)
      BY <1>2, <2>1
    <3> QED
      BY <3>1, <3>2 DEF Stays
  <2>2. CASE b = a /\ log'[a] = result
    <3>1. PICK x \in Notes : x = log[a]
      BY NoteTypes
    <3>2. NoteOf(x, a)' /\ (x # None => x.run \in Nat) /\ rec'[a].run \in Nat
      BY <1>6, <3>1, NoteTypes DEF RecStays
    <3>3. Own(log[a]) /\ result # log[a] => result.run > log[a].run
      BY <3>1, <3>2 DEF NoteOf, Own
    <3> QED
      BY <1>5, <2>2, <3>3 DEF Stays
  <2> QED
    BY <1>3, <2>1, <2>2
<1> QED
  BY <1>6, <1>7, <1>8 DEF PublishedInv, StaysStep

LEMMA AskPublishes ==
  ASSUME SubInv, RestInv, NotesInv, \A b \in Agents : RecStays(b), NEW a \in Agents,
         Ask(a) \/ AskInVain(a)
  PROVE  PublishedInv' /\ StaysStep
<1>1. CASE Ask(a)
  <2>1. UNCHANGED <<log, buffer>> /\ ChangeHistory(Parent[a], ~Buffered(Parent[a], bound'), exec)
    BY <1>1 DEF Ask, WriteIndex
  <2>2. TurnStays
    BY <2>1, HistoryTurn DEF TurnStays
  <2> QED
    BY <2>1, <2>2, NothingPublished DEF NotesInv
<1>2. CASE AskInVain(a)
  <2> DEFINE n == rec[a].run + 1
  <2>1. PICK result \in Results : result = [run |-> n, status |-> "failed", by |-> n]
    <3>1. n \in Nat
      BY NoteTypes
    <3> HIDE DEF n
    <3> QED
      BY <3>1, NewResult, StatusSets
  <2>2. PICK named : named = bound'
    OBVIOUS
  <2>3. PICK direct \in BOOLEAN : direct = ~Buffered(Parent[a], named)
    OBVIOUS
  <2>4. /\ rec' = [rec EXCEPT ![a] = [status |-> "failed", run |-> n, result |-> result]]
        /\ PublishResult(a, result, named, log)
        /\ ChangeHistory(Parent[a], direct, exec)
    BY <1>2, <2>1, <2>2, <2>3 DEF AskInVain, Renew, WriteIndex
  <2>5. rec'[a] = [status |-> "failed", run |-> n, result |-> result]
    BY <2>4 DEF SubInv, RecInv
  <2>6. result = rec'[a].result /\ result.run = rec'[a].run /\ rec'[a].status \in Terminal
    BY <2>1, <2>5, StatusSets
  <2> QED
    BY <2>3, <2>4, <2>6, ResultPublished
<1> QED
  BY <1>1, <1>2

LEMMA CancelPublishes ==
  ASSUME SubInv, RestInv, NotesInv, \A b \in Agents : RecStays(b), NEW a \in Agents, CancelTask(a)
  PROVE  PublishedInv' /\ StaysStep
<1>1. PICK result \in Results : result = Ended(a, "canceled", rec[a].run)
  BY NoteTypes, NewResult, StatusSets DEF Ended
<1>2. PICK es : WriteIndex(Parent[a], bound, es)
  BY DEF CancelTask
<1>3. PICK direct \in BOOLEAN : direct = ~Buffered(Parent[a], bound)
  OBVIOUS
<1>4. PublishResult(a, result, bound, log) /\ ChangeHistory(Parent[a], direct, es)
  BY <1>1, <1>2, <1>3 DEF CancelTask, WriteIndex
<1>5. result = rec'[a].result /\ result.run = rec'[a].run /\ rec'[a].status \in Terminal
  BY <1>1, CancelMoves, StatusSets DEF SubInv, Ended
<1> QED
  BY <1>3, <1>4, <1>5, ResultPublished

LEMMA FinishPublishes ==
  ASSUME SubInv, RestInv, NotesInv, \A b \in Agents : RecStays(b), NEW e \in exec, Finish(e)
  PROVE  PublishedInv' /\ StaysStep
<1> DEFINE a == e.agent
<1>1. PICK status \in Terminal, named \in {bound, bound \cup {a}}, base \in [Agents -> Notes],
            direct \in BOOLEAN :
        /\ SettleRecord(a, FinalResult(e, status))
        /\ IF e.run = rec[a].run THEN Unqueued(a) ELSE UNCHANGED <<queue, running>>
        /\ PublishResult(a, FinalResult(e, status), named, base)
        /\ ChangeHistory(Parent[a], direct, exec \ {e})
        /\ ~Buffered(Parent[a], named) => direct
        /\ \/ base = log
           \/ direct /\ e.saved # None /\ e.alone /\ e.dirty /\ base = RolledBack(Parent[a], e)
  BY FinishDoes
<1>2. /\ FinalResult(e, status) \in Results /\ FinalResult(e, status).run = rec'[a].run
      /\ FinalResult(e, status) = rec'[a].result /\ rec'[a].status \in Terminal
  <2>1. rec'[a].status = FinalResult(e, status).status
        /\ FinalResult(e, status).status \in Terminal
    BY <1>1, FinishMoves DEF SubInv
  <2> QED
    BY <1>1, <2>1, FinishMoves DEF SubInv
<1>3. PICK result \in Results : result = FinalResult(e, status)
  BY <1>2
<1>4. a \in Agents /\ exec \ {e} \in SUBSET Executions /\ Unique(exec)
  BY DEF SubInv, ExecInv, Executions
<1>5. ~\E f \in exec' : f.agent = e.agent /\ f.run = e.run
  <2>1. Marked(exec', exec \ {e})
    BY <1>1, <1>4, HistoryMarks
  <2> QED
    BY <1>4, <2>1 DEF Marked, Unique
<1>6. \/ base = log
      \/ direct /\ \E g \in exec : /\ g.agent = a /\ g.saved # None /\ g.alone /\ g.dirty
                                   /\ base = RolledBack(Parent[a], g)
                                   /\ ~\E f \in exec' : f.agent = g.agent /\ f.run = g.run
  BY <1>1, <1>5
<1>7. /\ PublishResult(a, result, named, base) /\ ChangeHistory(Parent[a], direct, exec \ {e})
      /\ ~Buffered(Parent[a], named) => direct
      /\ result = rec'[a].result /\ result.run = rec'[a].run /\ rec'[a].status \in Terminal
  BY <1>1, <1>2, <1>3
<1> HIDE DEF a
<1> QED
  BY <1>4, <1>6, <1>7, ResultPublished

LEMMA TurnPublishes ==
  ASSUME SubInv, PublishedInv, RestInv, \A b \in Agents : RecStays(b), NEW p \in Parents,
         BeginTurn(p) \/ EndTurn(p)
  PROVE  PublishedInv' /\ StaysStep
<1>1. CASE BeginTurn(p)
  <2>1. turn[p] = "none" /\ turn' = [turn EXCEPT ![p] = "open"] /\ UNCHANGED <<log, buffer>>
    BY <1>1 DEF BeginTurn
  <2>2. ASSUME NEW a \in Agents PROVE TurnNotes(a)'
    <3>1. TurnNotes(a) /\ Parent[a] \in Parents
      BY ParentOf DEF PublishedInv
    <3> QED
      BY <2>1, <3>1 DEF TurnNotes, RestInv, Own
  <2> QED
    BY <2>1, <2>2, OldNotes DEF PublishedInv, StaysStep
<1>2. CASE EndTurn(p)
  <2>1. PICK kept \in SUBSET {a \in Kids(p) : buffer[a] # None} :
          /\ turn[p] = "open" \/ (turn[p] = "overtaken" /\ kept = {})
          /\ turn' = [turn EXCEPT ![p] = "none"]
          /\ log' = [a \in Agents |-> IF a \in kept THEN buffer[a] ELSE log[a]]
          /\ buffer' = [a \in Agents |-> IF Parent[a] = p THEN None ELSE buffer[a]]
    BY <1>2 DEF EndTurn
  <2>2. ASSUME NEW a \in Agents
        PROVE  NoteOf(log[a], a)' /\ NoteOf(buffer[a], a)' /\ TurnNotes(a)' /\ Stays(a)
    <3>1. /\ log'[a] = IF a \in kept THEN buffer[a] ELSE log[a]
          /\ buffer'[a] = IF Parent[a] = p THEN None ELSE buffer[a]
          /\ a \in kept => Parent[a] = p /\ buffer[a] # None /\ turn[p] = "open"
          /\ Parent[a] \in Parents /\ TurnNotes(a)
      BY <2>1, ParentOf DEF Kids, PublishedInv
    <3>2. NoteOf(log[a], a)' /\ NoteOf(buffer[a], a)'
      BY <3>1, NoteTypes, OldNotes DEF NoteOf, Own
    <3>3. Stays(a)
      BY <3>1 DEF TurnNotes, Stays
    <3>4. TurnNotes(a)'
      <4>1. CASE Parent[a] = p
        BY <2>1, <3>1, <4>1 DEF TurnNotes, RestInv
      <4>2. CASE Parent[a] # p
        <5>1. turn'[Parent[a]] = turn[Parent[a]] /\ log'[a] = log[a] /\ buffer'[a] = buffer[a]
          BY <2>1, <3>1, <4>2
        <5> QED
          BY <3>1, <5>1 DEF TurnNotes, Own
      <4> QED
        BY <4>1, <4>2
    <3> QED
      BY <3>2, <3>3, <3>4
  <2> QED
    BY <2>2 DEF PublishedInv, StaysStep
<1> QED
  BY <1>1, <1>2

LEMMA RestartPublishes ==
  ASSUME SubInv, PublishedInv, \A b \in Agents : RecStays(b), Restart
  PROVE  PublishedInv' /\ StaysStep
<1>1. /\ turn' = [p \in Parents |-> "none"]
      /\ buffer' = [a \in Agents |-> None]
      /\ log' = [a \in Agents |->
                   IF rec'[a].result # None /\ Kids(Parent[a]) \cap disk.pending # {}
                   THEN rec'[a].result ELSE log[a]]
  BY DEF Restart
<1>2. ASSUME NEW a \in Agents
      PROVE  NoteOf(log[a], a)' /\ NoteOf(buffer[a], a)' /\ TurnNotes(a)' /\ Stays(a)
  <2>1. /\ rec'[a].run \in Nat
        /\ rec'[a].result # None =>
             rec'[a].status \in Terminal /\ rec'[a].result.run = rec'[a].run
    BY RestartRecords DEF RecStays
  <2>2. log'[a] = log[a] \/ (log'[a] = rec'[a].result /\ rec'[a].result # None)
    BY <1>1
  <2>3. PICK x \in Notes : x = log[a]
    BY NoteTypes
  <2>4. NoteOf(x, a)' /\ (x # None => x.run \in Nat)
    BY <2>3, NoteTypes, OldNotes
  <2>5. NoteOf(log[a], a)' /\ Stays(a)
    BY <2>1, <2>2, <2>3, <2>4 DEF NoteOf, Own, Stays
  <2>6. NoteOf(buffer[a], a)' /\ TurnNotes(a)'
    BY <1>1, ParentOf DEF NoteOf, Own, TurnNotes
  <2> QED
    BY <2>5, <2>6
<1> QED
  BY <1>2 DEF PublishedInv, StaysStep

LEMMA StepPub ==
  ASSUME SubInv, RestInv, NotesInv, [SubNext]_vars PROVE NotesInv' /\ StaysStep
<1>0. PublishedInv /\ \A b \in Agents : RecStays(b)
  BY RecordsStay DEF NotesInv
<1>1. ASSUME UNCHANGED <<log, buffer>>, TurnStays PROVE PublishedInv' /\ StaysStep
  BY <1>0, <1>1, NothingPublished
<1>2. ASSUME NEW p \in Parents, StartNext(p) PROVE PublishedInv' /\ StaysStep
  <2>1. UNCHANGED <<log, buffer>> /\ ChangeHistory(p, ~Buffered(p, bound), exec)
    BY <1>2 DEF StartNext, WriteIndex
  <2>2. TurnStays
    BY <2>1, HistoryTurn DEF TurnStays
  <2> QED
    BY <1>1, <2>1, <2>2
<1>3. ASSUME NEW a \in Agents, Execute(a) PROVE PublishedInv' /\ StaysStep
  <2>1. UNCHANGED <<log, buffer>> /\ (turn' = turn \/ turn' = Overtaken(Parent[a]))
    BY <1>3 DEF Execute
  <2>2. TurnStays
    BY <2>1 DEF TurnStays, Overtaken, RestInv
  <2> QED
    BY <1>1, <2>1, <2>2
<1>4. ASSUME NEW a \in Agents, Ask(a) \/ AskInVain(a) PROVE PublishedInv' /\ StaysStep
  BY <1>0, <1>4, AskPublishes
<1>5. ASSUME NEW a \in Agents, CancelTask(a) PROVE PublishedInv' /\ StaysStep
  BY <1>0, <1>5, CancelPublishes
<1>6. ASSUME NEW e \in exec, Finish(e) PROVE PublishedInv' /\ StaysStep
  BY <1>0, <1>6, FinishPublishes
<1>7. ASSUME NEW p \in Parents, BeginTurn(p) \/ EndTurn(p) PROVE PublishedInv' /\ StaysStep
  BY <1>0, <1>7, TurnPublishes
<1>8. ASSUME Restart PROVE PublishedInv' /\ StaysStep
  BY <1>0, <1>8, RestartPublishes
<1>9. ASSUME UNCHANGED history PROVE PublishedInv' /\ StaysStep
  BY <1>1, <1>9 DEF history, TurnStays
<1>10. \/ \E p \in Parents : StartNext(p) \/ BeginTurn(p) \/ EndTurn(p)
       \/ \E a \in Agents : Execute(a) \/ Ask(a) \/ AskInVain(a) \/ CancelTask(a)
       \/ \E e \in exec : Finish(e)
       \/ Restart
       \/ UNCHANGED history
  BY DEF SubNext, Pump, PumpEnds, Cancel, CancelNext, StopContext, WaitTimesOut, Wait, history, vars
<1>11. PublishedInv' /\ StaysStep
  BY <1>2, <1>3, <1>4, <1>5, <1>6, <1>7, <1>8, <1>9, <1>10
<1> QED
  BY <1>11, SavedStep DEF NotesInv

LEMMA StartPub == SubInit => NotesInv
BY ParentOf DEF SubInit, NotesInv, PublishedInv, SavedInv, NoteOf, TurnNotes, Own

\* What a run published of itself is only replaced by a result of a later run,
\* whatever comes late, is buffered in a turn that is overtaken, or is published
\* again by a restart; only the validation of a checkpoint takes it back.
THEOREM PublishedStay == SubSpec => PublishedResultsStay
<1>1. SubInv /\ RestInv /\ NotesInv /\ [SubNext]_vars => NotesInv' /\ StaysStep
  BY StepPub
<1>2. StaysStep =>
        \A a \in Agents :
          log[a] # None /\ log[a].by = log[a].run /\ log'[a] # log[a]
            => \/ log'[a] # None /\ log'[a].run > log[a].run
               \/ \E e \in exec : TakesBack(e, a)
  BY DEF StaysStep, Stays, Own
<1>3. SubInv /\ RestInv /\ NotesInv /\ [SubNext]_vars =>
        [\A a \in Agents :
           log[a] # None /\ log[a].by = log[a].run /\ log'[a] # log[a]
             => \/ log'[a] # None /\ log'[a].run > log[a].run
                \/ \E e \in exec : TakesBack(e, a)]_vars
  BY <1>1, <1>2
<1> QED
  BY <1>1, <1>3, StartPub, SubAlways, RestAlways, PTL DEF SubSpec, PublishedResultsStay
=============================================================================
