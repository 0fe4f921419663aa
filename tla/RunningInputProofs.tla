------------------------- MODULE RunningInputProofs -------------------------
(***************************************************************************)
(* What holds of the queue for any number of runs, runtime keys and prompts*)
(* and in every environment: it leaves the gate of SessionRuns alone, and  *)
(* no prompt is lost or doubled.  Prompts keep their order as long as no   *)
(* runtime is cleaned up or fails to start.                                *)
(***************************************************************************)
EXTENDS RunningInput, SessionRunsProofs, SequenceTheorems, FiniteSetTheorems,
        WellFoundedInduction

-----------------------------------------------------------------------------
(* The runs with their queue are runs.                                     *)

LEMMA StepOfRuns == [QNext]_allVars => [Next]_vars
<1> SUFFICES ASSUME [QNext]_allVars PROVE [Next]_vars
  OBVIOUS
<1>1. CASE Enqueue \/ Connectivity \/ PollAgain \/ PollFindsNothing \/ PollIsRefused
  BY <1>1 DEF Enqueue, Connectivity, PollAgain, PollFindsNothing, PollIsRefused
<1>2. CASE \E k \in DOMAIN queue : RequestInsert(k) \/ Discard(k)
  BY <1>2 DEF RequestInsert, Discard
<1>3. ASSUME NEW r \in Runs, ConsumeInsert(r) PROVE [Next]_vars
  BY <1>3 DEF ConsumeInsert
<1>4. ASSUME NEW r \in Runs, FinishAndRelease(r) \/ BootFailsAndRequeue(r) \/ PollStartsTurn(r)
      PROVE  [Next]_vars
  BY <1>4 DEF FinishAndRelease, BootFailsAndRequeue, PollStartsTurn, Next, RunStep
<1>5. CASE OtherRunStep
  BY <1>5 DEF OtherRunStep, Next, RunStep
<1>6. CASE UNCHANGED allVars
  BY <1>6 DEF allVars
<1> QED
  BY <1>1, <1>2, <1>3, <1>4, <1>5, <1>6 DEF QNext, Poll

\* The queue adds steps of its own to the runs and constrains theirs, so what
\* is true of the runs stays true.
THEOREM QueueKeepsTheRuns == QSpec => Spec
<1>1. QInit => Init
  BY DEF QInit
<1> QED
  BY <1>1, StepOfRuns, PTL DEF QSpec, Spec

\* Also with queued prompts that become turns, only live runs hold the gate,
\* and the session shows one of them.
THEOREM GateBackedWithQueue == QSpec => []GateIsBacked
  BY QueueKeepsTheRuns, GateBacked, PTL

-----------------------------------------------------------------------------
(* Where the items of a queue are.                                         *)

In(i, q) == \E k \in DOMAIN q : q[k].item = i
Distinct(q) == \A k, l \in DOMAIN q : q[k].item = q[l].item => k = l

LEMMA QueueFacts ==
  ASSUME NEW q \in Seq(Entries)
  PROVE  /\ Len(q) \in Nat /\ DOMAIN q = 1 .. Len(q)
         /\ \A k \in DOMAIN q : q[k] \in Entries /\ q[k].item \in Items
<1>1. Len(q) \in Nat /\ DOMAIN q = 1 .. Len(q) /\ q \in [1 .. Len(q) -> Entries]
  BY LenProperties
<1> QED
  BY <1>1 DEF Entries

\* A queue whose items stay where they are.
LEMMA ItemsStay ==
  ASSUME NEW q \in Seq(Entries), NEW p \in Seq(Entries), DOMAIN p = DOMAIN q,
         \A k \in DOMAIN q : p[k].item = q[k].item
  PROVE  (Distinct(q) => Distinct(p)) /\ \A i : In(i, p) <=> In(i, q)
  BY DEF Distinct, In

LEMMA ItemAppended ==
  ASSUME NEW q \in Seq(Entries), NEW e \in Entries, Distinct(q), ~In(e.item, q)
  PROVE  /\ Append(q, e) \in Seq(Entries) /\ Distinct(Append(q, e))
         /\ \A i : In(i, Append(q, e)) <=> In(i, q) \/ i = e.item
<1> DEFINE p == Append(q, e)
<1>1. Len(q) \in Nat /\ DOMAIN q = 1 .. Len(q)
  BY QueueFacts
<1>2. /\ p \in Seq(Entries) /\ Len(p) = Len(q) + 1
      /\ \A k \in 1 .. Len(q) : p[k] = q[k]
      /\ p[Len(q) + 1] = e
  BY AppendProperties
<1>3. DOMAIN p = 1 .. Len(q) + 1
  BY <1>2, LenProperties
<1> HIDE DEF p
<1>4. Distinct(p)
  BY <1>1, <1>2, <1>3 DEF Distinct, In
<1>5. ASSUME NEW i PROVE In(i, p) <=> In(i, q) \/ i = e.item
  <2>1. In(i, q) => In(i, p)
    BY <1>1, <1>2, <1>3 DEF In
  <2>2. i = e.item => In(i, p)
    <3>1. Len(q) + 1 \in DOMAIN p
      BY <1>1, <1>3
    <3> QED
      BY <1>2, <3>1 DEF In
  <2>3. In(i, p) => In(i, q) \/ i = e.item
    BY <1>1, <1>2, <1>3 DEF In
  <2> QED
    BY <2>1, <2>2, <2>3
<1> QED
  BY <1>2, <1>4, <1>5 DEF p

LEMMA ItemPutFirst ==
  ASSUME NEW q \in Seq(Entries), NEW e \in Entries, Distinct(q), ~In(e.item, q)
  PROVE  /\ <<e>> \o q \in Seq(Entries) /\ Distinct(<<e>> \o q)
         /\ \A i : In(i, <<e>> \o q) <=> In(i, q) \/ i = e.item
<1> DEFINE p == <<e>> \o q
<1>1. Len(q) \in Nat /\ DOMAIN q = 1 .. Len(q)
  BY QueueFacts
<1>2. /\ p \in Seq(Entries) /\ Len(p) = Len(q) + 1
      /\ \A k \in 1 .. Len(q) + 1 : p[k] = IF k = 1 THEN e ELSE q[k - 1]
  <2>1. <<e>> \in Seq(Entries) /\ Len(<<e>>) = 1 /\ <<e>>[1] = e
    OBVIOUS
  <2>2. /\ p \in Seq(Entries) /\ Len(p) = 1 + Len(q)
        /\ \A k \in 1 .. 1 + Len(q) : p[k] = IF k <= 1 THEN <<e>>[k] ELSE q[k - 1]
    BY <2>1, ConcatProperties
  <2> HIDE DEF p
  <2> QED
    BY <1>1, <2>1, <2>2
<1>3. DOMAIN p = 1 .. Len(q) + 1
  BY <1>2, LenProperties
<1> HIDE DEF p
<1>4. Distinct(p)
  <2> SUFFICES ASSUME NEW k \in DOMAIN p, NEW l \in DOMAIN p, p[k].item = p[l].item
               PROVE  k = l
    BY DEF Distinct
  <2>1. CASE k # 1 /\ l # 1
    BY <1>1, <1>2, <1>3, <2>1 DEF Distinct
  <2>2. ASSUME NEW j \in DOMAIN p, j # 1 PROVE p[j].item # e.item
    <3>1. j - 1 \in DOMAIN q /\ p[j] = q[j - 1]
      BY <1>1, <1>2, <1>3, <2>2
    <3> QED
      BY <3>1 DEF In
  <2>3. p[1] = e
    BY <1>1, <1>2
  <2> QED
    BY <2>1, <2>2, <2>3
<1>5. ASSUME NEW i PROVE In(i, p) <=> In(i, q) \/ i = e.item
  <2>1. ASSUME NEW k \in DOMAIN q PROVE k + 1 \in DOMAIN p /\ p[k + 1] = q[k]
    BY <1>1, <1>2, <1>3
  <2>2. In(i, q) => In(i, p)
    BY <2>1 DEF In
  <2>3. 1 \in DOMAIN p /\ p[1] = e
    BY <1>1, <1>2, <1>3
  <2>4. In(i, p) => In(i, q) \/ i = e.item
    BY <1>1, <1>2, <1>3 DEF In
  <2> QED
    BY <2>2, <2>3, <2>4 DEF In
<1> QED
  BY <1>2, <1>4, <1>5 DEF p

\* What is behind the k-th entry moves one place ahead.
LEMMA RemovedAt ==
  ASSUME NEW q \in Seq(Entries), NEW k \in DOMAIN q
  PROVE  /\ RemoveAt(q, k) \in Seq(Entries) /\ Len(RemoveAt(q, k)) = Len(q) - 1
         /\ \A l \in 1 .. Len(q) - 1 :
              RemoveAt(q, k)[l] = IF l < k THEN q[l] ELSE q[l + 1]
<1> DEFINE p == RemoveAt(q, k)
<1>1. Len(q) \in Nat /\ DOMAIN q = 1 .. Len(q) /\ \A l \in DOMAIN q : q[l] \in Entries
  BY QueueFacts
<1> DEFINE a == SubSeq(q, 1, k - 1)
           b == SubSeq(q, k + 1, Len(q))
<1>2. /\ a \in Seq(Entries) /\ Len(a) = k - 1
      /\ \A l \in 1 .. k - 1 : a[l] = q[l]
  <2>1. k - 1 \in Int /\ \A l \in 1 .. k - 1 : q[l] \in Entries
    BY <1>1
  <2>2. /\ a \in Seq(Entries) /\ Len(a) = IF 1 <= k - 1 THEN k - 1 - 1 + 1 ELSE 0
        /\ \A l \in 1 .. k - 1 - 1 + 1 : a[l] = q[1 + l - 1]
    BY <2>1, SubSeqProperties
  <2> HIDE DEF a
  <2> QED
    BY <1>1, <2>2
<1>3. /\ b \in Seq(Entries) /\ Len(b) = Len(q) - k
      /\ \A l \in 1 .. Len(q) - k : b[l] = q[k + l]
  <2>1. k + 1 \in Int /\ \A l \in k + 1 .. Len(q) : q[l] \in Entries
    BY <1>1
  <2>2. /\ b \in Seq(Entries) /\ Len(b) = IF k + 1 <= Len(q) THEN Len(q) - (k + 1) + 1 ELSE 0
        /\ \A l \in 1 .. Len(q) - (k + 1) + 1 : b[l] = q[k + 1 + l - 1]
    BY <1>1, <2>1, SubSeqProperties
  <2> HIDE DEF b
  <2>3. Len(b) = Len(q) - k
    BY <1>1, <2>2
  <2>4. ASSUME NEW l \in 1 .. Len(q) - k PROVE b[l] = q[k + l]
    <3>1. l \in 1 .. Len(q) - (k + 1) + 1 /\ k + 1 + l - 1 = k + l
      BY <1>1
    <3> QED
      BY <2>2, <3>1
  <2> QED
    BY <2>2, <2>3, <2>4
<1>4. p = a \o b
  BY DEF RemoveAt
<1> HIDE DEF a, b, p
<1>5. /\ p \in Seq(Entries) /\ Len(p) = Len(a) + Len(b)
      /\ \A l \in 1 .. Len(a) + Len(b) : p[l] = IF l <= Len(a) THEN a[l] ELSE b[l - Len(a)]
  BY <1>2, <1>3, <1>4, ConcatProperties
<1>6. Len(p) = Len(q) - 1
  BY <1>1, <1>2, <1>3, <1>5
<1>7. ASSUME NEW l \in 1 .. Len(q) - 1, l < k PROVE p[l] = q[l]
  BY <1>1, <1>2, <1>3, <1>5, <1>7
<1>8. ASSUME NEW l \in 1 .. Len(q) - 1, ~(l < k) PROVE p[l] = q[l + 1]
  <2>1. p[l] = b[l - (k - 1)] /\ l - (k - 1) \in 1 .. Len(q) - k /\ k + (l - (k - 1)) = l + 1
    BY <1>1, <1>2, <1>3, <1>5, <1>8
  <2> QED
    BY <1>3, <2>1
<1> HIDE DEF p
<1>9. /\ p \in Seq(Entries) /\ Len(p) = Len(q) - 1
      /\ \A l \in 1 .. Len(q) - 1 : p[l] = IF l < k THEN q[l] ELSE q[l + 1]
  BY <1>5, <1>6, <1>7, <1>8
<1> QED
  BY <1>9 DEF p

LEMMA ItemRemoved ==
  ASSUME NEW q \in Seq(Entries), NEW k \in DOMAIN q, Distinct(q)
  PROVE  /\ RemoveAt(q, k) \in Seq(Entries) /\ Distinct(RemoveAt(q, k))
         /\ \A i : In(i, RemoveAt(q, k)) <=> In(i, q) /\ i # q[k].item
<1> DEFINE p == RemoveAt(q, k)
<1>1. Len(q) \in Nat /\ DOMAIN q = 1 .. Len(q) /\ \A l \in DOMAIN q : q[l] \in Entries
  BY QueueFacts
<1>2. /\ p \in Seq(Entries) /\ Len(p) = Len(q) - 1
      /\ \A l \in 1 .. Len(q) - 1 : p[l] = IF l < k THEN q[l] ELSE q[l + 1]
  BY RemovedAt
<1>3. DOMAIN p = 1 .. Len(q) - 1
  BY <1>2, LenProperties
<1> HIDE DEF p
<1>4. Distinct(p)
  <2> SUFFICES ASSUME NEW l \in DOMAIN p, NEW m \in DOMAIN p, p[l].item = p[m].item
               PROVE  l = m
    BY DEF Distinct
  <2> DEFINE At(j) == IF j < k THEN j ELSE j + 1
  <2>1. At(l) \in DOMAIN q /\ At(m) \in DOMAIN q /\ q[At(l)].item = q[At(m)].item
    BY <1>1, <1>2, <1>3
  <2>2. At(l) = At(m)
    BY <2>1 DEF Distinct
  <2> QED
    BY <1>1, <1>3, <2>2
<1>5. ASSUME NEW i PROVE In(i, p) <=> In(i, q) /\ i # q[k].item
  <2>1. ASSUME NEW l \in DOMAIN p, p[l].item = i
        PROVE  In(i, q) /\ i # q[k].item
    <3> DEFINE j == IF l < k THEN l ELSE l + 1
    <3>1. j \in DOMAIN q /\ j # k /\ q[j].item = i
      BY <1>1, <1>2, <1>3, <2>1
    <3> HIDE DEF j
    <3> QED
      BY <3>1 DEF In, Distinct
  <2>2. ASSUME NEW l \in DOMAIN q, q[l].item = i, i # q[k].item
        PROVE  In(i, p)
    <3> DEFINE j == IF l < k THEN l ELSE l - 1
    <3>1. j \in DOMAIN p /\ p[j] = q[l]
      BY <1>1, <1>2, <1>3, <2>2
    <3> HIDE DEF j
    <3> QED
      BY <2>2, <3>1 DEF In
  <2> QED
    BY <2>1, <2>2 DEF In
<1> QED
  BY <1>2, <1>4, <1>5 DEF p

LEMMA LeastIsElement ==
  ASSUME NEW S \in SUBSET Nat, S # {}
  PROVE  Min(S) \in S
<1> DEFINE R == {ss \in Nat \X Nat : ss[1] < ss[2]}
<1>1. IsWellFoundedOn(R, Nat)
  BY NatLessThanWellFounded DEF OpToRel
<1> HIDE DEF R
<1>2. PICK x \in S : \A y \in S : ~(<<y, x>> \in R)
  BY <1>1, WFMin
<1>3. ASSUME NEW y \in S PROVE x =< y
  <2>1. ASSUME y < x PROVE <<y, x>> \in R
    <3> DEFINE t == <<y, x>>
    <3>1. t \in Nat \X Nat /\ t[1] = y /\ t[2] = x
      OBVIOUS
    <3>2. t[1] < t[2]
      BY <2>1, <3>1
    <3> HIDE DEF t
    <3>3. t \in R
      BY <3>1, <3>2 DEF R
    <3> QED
      BY <3>3 DEF t
  <2> QED
    BY <1>2, <2>1
<1> QED
  BY <1>3 DEF Min

LEMMA FirstQueuedIsInQueue ==
  ASSUME queue \in Seq(Entries), Queued(queue)
  PROVE  FirstQueued \in DOMAIN queue
<1> DEFINE I == {k \in 1 .. Len(queue) : ~queue[k].insert}
<1>1. DOMAIN queue = 1 .. Len(queue)
  BY QueueFacts
<1>2. I \in SUBSET Nat /\ I # {}
  BY <1>1 DEF Queued
<1>3. Min(I) \in I
  BY <1>2, LeastIsElement
<1>4. FirstQueued = Min(I)
  BY <1>2 DEF FirstQueued, SelectInSeq
<1> QED
  BY <1>1, <1>3, <1>4

LEMMA FirstInsertIsInQueue ==
  ASSUME queue \in Seq(Entries), NEW r, FirstInsertFor(r) # 0
  PROVE  FirstInsertFor(r) \in DOMAIN queue
<1> DEFINE I == {k \in 1 .. Len(queue) : queue[k].insert /\ queue[k].run = r}
<1>1. DOMAIN queue = 1 .. Len(queue)
  BY QueueFacts
<1>2. FirstInsertFor(r) = IF I # {} THEN Min(I) ELSE 0
  BY DEF FirstInsertFor, SelectInSeq
<1>3. I \in SUBSET Nat
  BY <1>1
<1> HIDE DEF I
<1>4. Min(I) \in I
  BY <1>2, <1>3, LeastIsElement
<1> QED
  BY <1>1, <1>2, <1>4 DEF I

-----------------------------------------------------------------------------
(* No run returns to where a next turn could take it again.                *)

LEMMA StepLeavesIdle ==
  ASSUME AliveInv, NEW r \in Runs, RunStep(r)
  PROVE  /\ phase'[r] # "idle"
         /\ \A c \in Runs : phase'[c] = "idle" => phase[c] = "idle"
<1>1. phase \in [Runs -> Phases]
  BY DEF AliveInv, TypeOK
<1> QED
  BY <1>1, RunStepKinds DEF TakesGate, Forgotten, PassesBy, LeavesGate, Moves

LEMMA NeverIdleAgain ==
  ASSUME AliveInv, [Next]_vars, NEW c \in Runs, phase'[c] = "idle"
  PROVE  phase[c] = "idle"
<1>1. CASE Requests
  BY <1>1, RequestEffect DEF AliveInv, TypeOK
<1> QED
  BY <1>1, StepCases, StepLeavesIdle

-----------------------------------------------------------------------------
(* Every item sent is in one place: the queue, a turn that is prepared or  *)
(* runs, the history of the agent, or the hands of the user.               *)

HeldBy(i) == \E r \in Runs : held[r] = i

Once(i) ==
    /\ served[i] \in {0, 1}
    /\ i <= sent <=> Waiting(i) \/ HeldBy(i) \/ served[i] = 1 \/ i \in discarded
    /\ ~(Waiting(i) /\ (HeldBy(i) \/ served[i] = 1 \/ i \in discarded))
    /\ ~(HeldBy(i) /\ (served[i] = 1 \/ i \in discarded))
    /\ ~(served[i] = 1 /\ i \in discarded)

HeldApart ==
    /\ \A r, s \in Runs : held[r] # 0 /\ held[r] = held[s] => r = s
    /\ \A r \in Runs : held[r] # 0 => phase[r] # "idle"

QInv ==
    /\ AliveInv
    /\ QTypeOK
    /\ Distinct(queue)
    /\ HeldApart
    /\ \A i \in Items : Once(i)

LEMMA QInitially == QInit => QInv
<1> SUFFICES ASSUME QInit PROVE QInv
  OBVIOUS
<1>1. AliveInv
  BY AliveInit DEF QInit
<1>2. queue = <<>> /\ queue \in Seq(Entries) /\ DOMAIN queue = {}
  BY DEF QInit
<1>3. QTypeOK
  BY <1>2, MaxItemsAssumption DEF QInit, QTypeOK
<1>4. Distinct(queue) /\ HeldApart
  BY <1>2 DEF QInit, Distinct, HeldApart
<1>5. ASSUME NEW i \in Items PROVE Once(i)
  BY <1>2 DEF QInit, Once, Waiting, HeldBy, Items
<1> QED
  BY <1>1, <1>3, <1>4, <1>5 DEF QInv

\* Steps that leave the held items alone keep them apart.
LEMMA HeldStays ==
  ASSUME QInv, [QNext]_allVars, UNCHANGED held
  PROVE  HeldApart'
<1>1. \A c \in Runs : phase'[c] = "idle" => phase[c] = "idle"
  BY StepOfRuns, NeverIdleAgain DEF QInv
<1> QED
  BY <1>1 DEF QInv, HeldApart

\* Steps that move no item.
LEMMA PlacesStay ==
  ASSUME QInv, [QNext]_allVars, UNCHANGED <<held, sent, discarded, served>>,
         queue' \in Seq(Entries), polls' \in Nat, online' \in BOOLEAN,
         Distinct(queue'), \A i : In(i, queue') <=> In(i, queue)
  PROVE  QInv'
<1>1. AliveInv'
  BY StepOfRuns, AliveStep DEF QInv
<1>2. QTypeOK'
  BY DEF QInv, QTypeOK
<1>3. HeldApart'
  BY HeldStays
<1>4. ASSUME NEW i \in Items PROVE Once(i)'
  <2>1. Waiting(i)' <=> Waiting(i)
    BY DEF Waiting, In
  <2>2. HeldBy(i)' <=> HeldBy(i)
    BY DEF HeldBy
  <2>3. Once(i)
    BY DEF QInv
  <2> QED
    BY <2>1, <2>2, <2>3 DEF Once
<1> QED
  BY <1>1, <1>2, <1>3, <1>4 DEF QInv

LEMMA QInductive == QInv /\ [QNext]_allVars => QInv'
<1> SUFFICES ASSUME QInv, [QNext]_allVars PROVE QInv'
  OBVIOUS
<1>0. /\ queue \in Seq(Entries) /\ held \in [Runs -> Items \cup {0}] /\ polls \in Nat
      /\ online \in BOOLEAN /\ sent \in 0 .. MaxItems /\ discarded \subseteq Items
      /\ served \in [Items -> Nat] /\ Distinct(queue) /\ HeldApart
      /\ \A i \in Items : Once(i)
  BY DEF QInv, QTypeOK
<1>a. AliveInv /\ AliveInv'
  BY StepOfRuns, AliveStep DEF QInv
<1>b. /\ snapshot \in Runs \cup {None} /\ None \notin Runs
      /\ \A k \in DOMAIN queue : queue[k] \in Entries /\ queue[k].item \in Items
  BY <1>0, <1>a, QueueFacts, ConstantsAssumption DEF AliveInv, TypeOK
<1>c. \A i : Waiting(i) <=> In(i, queue)
  BY DEF Waiting, In
<1>1. CASE Enqueue
  <2> DEFINE e == Entry(sent + 1, snapshot)
  <2>1. e \in Entries /\ e.item = sent + 1 /\ sent + 1 \in Items /\ sent' = sent + 1
    BY <1>0, <1>1, <1>b, MaxItemsAssumption DEF Enqueue, Mutable, Entry, Entries, Items
  <2>2. ~In(sent + 1, queue)
    <3>1. Once(sent + 1)
      BY <1>0, <2>1
    <3> QED
      BY <1>0, <1>c, <2>1, <3>1 DEF Once
  <2>3. queue' = Append(queue, e)
    BY <1>1 DEF Enqueue
  <2> HIDE DEF e
  <2>4. /\ queue' \in Seq(Entries) /\ Distinct(queue')
        /\ \A i : In(i, queue') <=> In(i, queue) \/ i = sent + 1
    BY <1>0, <2>1, <2>2, <2>3, ItemAppended
  <2>5. UNCHANGED <<held, polls, online, discarded, served>>
    BY <1>1 DEF Enqueue
  <2>6. QTypeOK'
    BY <1>0, <2>1, <2>4, <2>5 DEF QTypeOK, Items
  <2>7. ASSUME NEW i \in Items PROVE Once(i)'
    <3>1. Waiting(i)' <=> Waiting(i) \/ i = sent + 1
      BY <1>c, <2>4 DEF Waiting, In
    <3>2. HeldBy(i)' <=> HeldBy(i)
      BY <2>5 DEF HeldBy
    <3>3. i <= sent' <=> i <= sent \/ i = sent + 1
      BY <1>0, <2>1 DEF Items
    <3>4. Once(i) /\ (i = sent + 1 => ~(i <= sent))
      BY <1>0 DEF Items
    <3> QED
      BY <2>5, <3>1, <3>2, <3>3, <3>4 DEF Once
  <2> QED
    BY <1>a, <2>4, <2>5, <2>6, <2>7, HeldStays DEF QInv
<1>2. ASSUME NEW k \in DOMAIN queue, RequestInsert(k) PROVE QInv'
  <2>1. /\ queue' = [queue EXCEPT ![k] = [queue[k] EXCEPT !.run = snapshot, !.insert = TRUE]]
        /\ UNCHANGED <<held, polls, online, sent, discarded, served>>
    BY <1>2 DEF RequestInsert, InsertRequested
  <2>2. snapshot \in Runs
    BY <1>2, <1>b DEF RequestInsert, Mutable
  <2> DEFINE e == [queue[k] EXCEPT !.run = snapshot, !.insert = TRUE]
  <2>3. e \in Entries /\ e.item = queue[k].item
    BY <1>b, <2>2 DEF Entries
  <2>4. queue' = [queue EXCEPT ![k] = e]
    BY <2>1
  <2> HIDE DEF e
  <2>5. /\ queue' \in Seq(Entries) /\ DOMAIN queue' = DOMAIN queue
        /\ \A l \in DOMAIN queue : queue'[l].item = queue[l].item
    BY <1>0, <2>3, <2>4, ExceptSeq, QueueFacts
  <2>6. Distinct(queue') /\ \A i : In(i, queue') <=> In(i, queue)
    BY <1>0, <2>5, ItemsStay
  <2> QED
    BY <1>0, <2>1, <2>5, <2>6, PlacesStay
<1>3. ASSUME NEW k \in DOMAIN queue, queue' = RemoveAt(queue, k)
      PROVE  /\ queue' \in Seq(Entries) /\ Distinct(queue')
             /\ \A i : Waiting(i)' <=> Waiting(i) /\ i # queue[k].item
             /\ Waiting(queue[k].item) /\ queue[k].item \in Items
  <2>1. /\ queue' \in Seq(Entries) /\ Distinct(queue')
        /\ \A i : In(i, queue') <=> In(i, queue) /\ i # queue[k].item
    BY <1>0, <1>3, ItemRemoved
  <2>2. In(queue[k].item, queue) /\ queue[k].item \in Items
    BY <1>b DEF In
  <2>3. \A i : Waiting(i)' <=> In(i, queue')
    BY DEF Waiting, In
  <2> QED
    BY <1>c, <2>1, <2>2, <2>3
<1>4. ASSUME NEW k \in DOMAIN queue, Discard(k) PROVE QInv'
  <2> DEFINE x == queue[k].item
  <2>1. /\ queue' = RemoveAt(queue, k) /\ discarded' = discarded \cup {x}
        /\ UNCHANGED <<held, polls, online, sent, served>>
    BY <1>4 DEF Discard
  <2>2. /\ queue' \in Seq(Entries) /\ Distinct(queue')
        /\ \A i : Waiting(i)' <=> Waiting(i) /\ i # x
        /\ Waiting(x) /\ x \in Items
    BY <1>3, <2>1
  <2> HIDE DEF x
  <2>3. QTypeOK'
    BY <1>0, <2>1, <2>2 DEF QTypeOK
  <2>4. ASSUME NEW i \in Items PROVE Once(i)'
    <3>1. HeldBy(i)' <=> HeldBy(i)
      BY <2>1 DEF HeldBy
    <3> QED
      BY <1>0, <2>1, <2>2, <3>1 DEF Once
  <2> QED
    BY <1>a, <2>1, <2>2, <2>3, <2>4, HeldStays DEF QInv
<1>5. ASSUME NEW r \in Runs, ConsumeInsert(r) PROVE QInv'
  <2> DEFINE k == FirstInsertFor(r)
             x == queue[k].item
  <2>1. /\ k # 0 /\ queue' = RemoveAt(queue, k) /\ served' = [served EXCEPT ![x] = @ + 1]
        /\ UNCHANGED <<held, polls, online, sent, discarded>>
    BY <1>5 DEF ConsumeInsert, Serve
  <2>2. k \in DOMAIN queue
    BY <1>0, <2>1, FirstInsertIsInQueue
  <2>3. /\ queue' \in Seq(Entries) /\ Distinct(queue')
        /\ \A i : Waiting(i)' <=> Waiting(i) /\ i # x
        /\ Waiting(x) /\ x \in Items
    BY <1>3, <2>1, <2>2
  <2> HIDE DEF k, x
  <2>4. /\ served' \in [Items -> Nat]
        /\ \A i \in Items : served'[i] = IF i = x THEN served[x] + 1 ELSE served[i]
    BY <1>0, <2>1, <2>3
  <2>5. QTypeOK'
    BY <1>0, <2>1, <2>3, <2>4 DEF QTypeOK
  <2>6. ASSUME NEW i \in Items PROVE Once(i)'
    <3>1. HeldBy(i)' <=> HeldBy(i)
      BY <2>1 DEF HeldBy
    <3>2. CASE i = x
      <4>1. served[x] = 0 /\ served'[x] = 1
        BY <1>0, <2>3, <2>4 DEF Once
      <4> QED
        BY <1>0, <2>1, <2>3, <3>1, <3>2, <4>1 DEF Once
    <3>3. CASE i # x
      BY <1>0, <2>1, <2>3, <2>4, <3>1, <3>3 DEF Once
    <3> QED
      BY <3>2, <3>3
  <2> QED
    BY <1>a, <2>1, <2>3, <2>5, <2>6, HeldStays DEF QInv
<1>6. ASSUME NEW r \in Runs, FinishAndRelease(r) PROVE QInv'
  <2> DEFINE x == held[r]
  <2>1. /\ queue' = InsertsReleasedBy(r) /\ held' = [held EXCEPT ![r] = 0]
        /\ polls' \in {polls, polls + 1} /\ UNCHANGED <<online, sent, discarded>>
        /\ x # 0 => served' = [served EXCEPT ![x] = @ + 1]
        /\ x = 0 => served' = served
    BY <1>6 DEF FinishAndRelease, Serve
  <2>2. /\ queue' \in Seq(Entries) /\ DOMAIN queue' = DOMAIN queue
        /\ \A k \in DOMAIN queue : queue'[k].item = queue[k].item
    <3>1. \A k \in DOMAIN queue :
             /\ [queue[k] EXCEPT !.insert = @ /\ queue[k].run # r] \in Entries
             /\ [queue[k] EXCEPT !.insert = @ /\ queue[k].run # r].item = queue[k].item
      BY <1>b DEF Entries
    <3>2. /\ DOMAIN queue = 1 .. Len(queue) /\ Len(queue) \in Nat
      BY <1>0, QueueFacts
    <3>3. queue' \in [1 .. Len(queue) -> Entries]
      BY <2>1, <3>1, <3>2 DEF InsertsReleasedBy
    <3>4. queue' \in Seq(Entries)
      BY <3>2, <3>3, SeqDef
    <3> QED
      BY <2>1, <3>1, <3>2, <3>3, <3>4 DEF InsertsReleasedBy
  <2>3. Distinct(queue') /\ \A i : Waiting(i)' <=> Waiting(i)
    BY <1>0, <1>c, <2>2, ItemsStay DEF Waiting, In
  <2>4. x \in Items \cup {0} /\ 0 \notin Items
    BY <1>0 DEF Items
  <2> HIDE DEF x
  <2>5. \A s \in Runs : held'[s] = IF s = r THEN 0 ELSE held[s]
    BY <1>0, <2>1
  <2>6. /\ served' \in [Items -> Nat]
        /\ \A i \in Items : served'[i] = IF i = x THEN served[i] + 1 ELSE served[i]
    BY <1>0, <2>1, <2>4
  <2>7. QTypeOK'
    BY <1>0, <2>1, <2>2, <2>6 DEF QTypeOK
  <2>8. HeldApart'
    <3>1. \A c \in Runs : phase'[c] = "idle" => phase[c] = "idle"
      BY StepOfRuns, NeverIdleAgain DEF QInv
    <3> QED
      BY <1>0, <2>5, <3>1 DEF HeldApart
  <2>9. ASSUME NEW i \in Items PROVE Once(i)'
    <3>1. HeldBy(i)' <=> HeldBy(i) /\ i # x
      BY <1>0, <2>4, <2>5 DEF HeldBy, HeldApart, x
    <3>2. CASE i = x
      <4>1. HeldBy(x) /\ served[x] = 0 /\ served'[x] = 1
        BY <1>0, <2>6, <3>2 DEF Once, HeldBy, x
      <4> QED
        BY <1>0, <2>1, <2>3, <3>1, <3>2, <4>1 DEF Once
    <3>3. CASE i # x
      BY <1>0, <2>1, <2>3, <2>6, <3>1, <3>3 DEF Once
    <3> QED
      BY <3>2, <3>3
  <2> QED
    BY <1>a, <2>3, <2>7, <2>8, <2>9 DEF QInv
<1>7. ASSUME NEW r \in Runs, BootFailsAndRequeue(r) PROVE QInv'
  <2> DEFINE x == held[r]
             e == Entry(x, r)
  <2>1. /\ queue' = IF x = 0 THEN queue ELSE <<e>> \o queue
        /\ held' = [held EXCEPT ![r] = 0]
        /\ UNCHANGED <<polls, online, sent, discarded, served>>
    BY <1>7 DEF BootFailsAndRequeue, Requeued
  <2>2. /\ x \in Items \cup {0} /\ 0 \notin Items
        /\ x \in Items => e \in Entries /\ e.item = x
    BY <1>0 DEF Items, Entry, Entries
  <2>3. x \in Items => ~In(x, queue)
    <3>1. x \in Items => HeldBy(x)
      BY DEF HeldBy
    <3> QED
      BY <1>0, <1>c, <3>1 DEF Once
  <2>4. x = held[r]
    OBVIOUS
  <2> HIDE DEF x, e
  <2>5. /\ queue' \in Seq(Entries) /\ Distinct(queue')
        /\ \A i : In(i, queue') <=> In(i, queue) \/ (x # 0 /\ i = x)
    BY <1>0, <2>1, <2>2, <2>3, ItemPutFirst
  <2>6. \A s \in Runs : held'[s] = IF s = r THEN 0 ELSE held[s]
    BY <1>0, <2>1
  <2>7. QTypeOK'
    BY <1>0, <2>1, <2>5 DEF QTypeOK
  <2>8. HeldApart'
    <3>1. \A c \in Runs : phase'[c] = "idle" => phase[c] = "idle"
      BY StepOfRuns, NeverIdleAgain DEF QInv
    <3> QED
      BY <1>0, <2>6, <3>1 DEF HeldApart
  <2>9. ASSUME NEW i \in Items PROVE Once(i)'
    <3>1. HeldBy(i)' <=> HeldBy(i) /\ i # x
      BY <1>0, <2>2, <2>4, <2>6 DEF HeldBy, HeldApart
    <3>2. Waiting(i)' <=> Waiting(i) \/ i = x
      BY <1>c, <2>2, <2>5 DEF Waiting, In
    <3>3. i = x => HeldBy(i)
      BY <2>4 DEF HeldBy
    <3> QED
      BY <1>0, <2>1, <3>1, <3>2, <3>3 DEF Once
  <2> QED
    BY <1>a, <2>5, <2>7, <2>8, <2>9 DEF QInv
<1>8. CASE PollAgain \/ PollFindsNothing \/ Connectivity
  <2>1. UNCHANGED <<queue, held, sent, discarded, served>> /\ polls' \in Nat /\ online' \in BOOLEAN
    <3>1. UNCHANGED <<queue, held, sent, discarded, served>> /\ polls' \in {polls, polls - 1}
      BY <1>8 DEF PollAgain, PollFindsNothing, Connectivity
    <3>2. polls' # polls => polls > 0
      BY <1>8 DEF PollAgain, PollFindsNothing, Connectivity
    <3>3. online' = online \/ online' = ~online
      BY <1>8 DEF PollAgain, PollFindsNothing, Connectivity
    <3>4. polls' \in Nat
      BY <1>0, <3>1, <3>2
    <3>5. online' \in BOOLEAN
      BY <1>0, <3>3
    <3> QED
      BY <3>1, <3>4, <3>5
  <2> QED
    BY <1>0, <2>1, PlacesStay
<1>9. CASE PollIsRefused
  <2> DEFINE k == FirstQueued
             e == queue[k]
  <2>1. /\ queue' = <<e>> \o RemoveAt(queue, k) /\ polls' \in Nat
        /\ UNCHANGED <<held, online, sent, discarded, served>>
    BY <1>0, <1>9 DEF PollIsRefused
  <2>2. k \in DOMAIN queue
    BY <1>0, <1>9, FirstQueuedIsInQueue DEF PollIsRefused
  <2>3. e \in Entries /\ In(e.item, queue)
    BY <1>b, <2>2 DEF In
  <2> HIDE DEF k
  <2>4. /\ RemoveAt(queue, k) \in Seq(Entries) /\ Distinct(RemoveAt(queue, k))
        /\ \A i : In(i, RemoveAt(queue, k)) <=> In(i, queue) /\ i # e.item
    BY <1>0, <2>2, ItemRemoved
  <2> HIDE DEF e
  <2>5. /\ queue' \in Seq(Entries) /\ Distinct(queue')
        /\ \A i : In(i, queue') <=> In(i, queue)
    BY <2>1, <2>3, <2>4, ItemPutFirst
  <2> QED
    BY <1>0, <2>1, <2>5, PlacesStay
<1>10. ASSUME NEW r \in Runs, PollStartsTurn(r) PROVE QInv'
  <2> DEFINE k == FirstQueued
             x == queue[k].item
  <2>1. /\ queue' = RemoveAt(queue, k) /\ polls' \in Nat
        /\ held' = [held EXCEPT ![r] = x]
        /\ UNCHANGED <<online, sent, discarded, served>>
        /\ ChatArrives(r)
    BY <1>0, <1>10 DEF PollStartsTurn
  <2>2. k \in DOMAIN queue
    BY <1>0, <1>10, FirstQueuedIsInQueue DEF PollStartsTurn
  <2>3. /\ queue' \in Seq(Entries) /\ Distinct(queue')
        /\ \A i : Waiting(i)' <=> Waiting(i) /\ i # x
        /\ Waiting(x) /\ x \in Items
    BY <1>3, <2>1, <2>2
  <2> HIDE DEF k, x
  <2>4. held[r] = 0
    BY <1>0, <2>1 DEF ChatArrives, HeldApart
  <2>5. /\ held' \in [Runs -> Items \cup {0}]
        /\ \A s \in Runs : held'[s] = IF s = r THEN x ELSE held[s]
    BY <1>0, <2>1, <2>3
  <2>6. QTypeOK'
    BY <1>0, <2>1, <2>3, <2>5 DEF QTypeOK
  <2>7. ~HeldBy(x)
    BY <1>0, <2>3 DEF Once
  <2>8. HeldApart'
    <3>1. phase'[r] # "idle" /\ \A c \in Runs : phase'[c] = "idle" => phase[c] = "idle"
      BY <1>a, <2>1, StepLeavesIdle DEF RunStep
    <3> QED
      BY <1>0, <2>5, <2>7, <3>1 DEF HeldApart, HeldBy
  <2>9. ASSUME NEW i \in Items PROVE Once(i)'
    <3>1. HeldBy(i)' <=> HeldBy(i) \/ i = x
      <4>1. 0 \notin Items
        BY DEF Items
      <4> QED
        BY <2>4, <2>5, <4>1 DEF HeldBy
    <3> QED
      BY <1>0, <2>1, <2>3, <3>1 DEF Once
  <2> QED
    BY <1>a, <2>3, <2>6, <2>8, <2>9 DEF QInv
<1>11. CASE OtherRunStep \/ UNCHANGED allVars
  <2>1. UNCHANGED queueVars
    BY <1>11 DEF OtherRunStep, allVars, queueVars
  <2> QED
    BY <1>0, <2>1, PlacesStay DEF queueVars
<1> QED
  BY <1>1, <1>2, <1>4, <1>5, <1>6, <1>7, <1>8, <1>9, <1>10, <1>11 DEF QNext, Poll

LEMMA QInvariant == QSpec => []QInv
  BY QInitially, QInductive, PTL DEF QSpec

-----------------------------------------------------------------------------
(* The theorems. *)

\* Every reachable queue is well formed.
THEOREM QTypeCorrect == QSpec => []QTypeOK
<1>1. QInv => QTypeOK
  BY DEF QInv
<1> QED
  BY <1>1, QInvariant, PTL

LEMMA OnePlace ==
  ASSUME NEW S, \A x, y \in S : x = y
  PROVE  Cardinality(S) = IF S = {} THEN 0 ELSE 1
<1>1. CASE S = {}
  BY <1>1, FS_EmptySet
<1>2. CASE S # {}
  <2>1. PICK x : S = {x}
    BY <1>2
  <2> QED
    BY <1>2, <2>1, FS_Singleton
<1> QED
  BY <1>1, <1>2

\* No queued prompt is lost or doubled, whatever fails, is stopped, deleted or
\* switched while it waits or while its turn is prepared.
THEOREM ItemsOnce == QSpec => []EachItemOnce
<1>1. ASSUME QInv, NEW i \in 1 .. sent
      PROVE  Cardinality({k \in DOMAIN queue : queue[k].item = i})
               + Cardinality({r \in Runs : held[r] = i})
               + served[i] + (IF i \in discarded THEN 1 ELSE 0) = 1
  <2>1. i \in Items /\ i # 0 /\ sent \in Nat /\ i <= sent
    BY <1>1, MaxItemsAssumption DEF QInv, QTypeOK, Items
  <2>2. Once(i) /\ Distinct(queue) /\ HeldApart
    BY <1>1, <2>1 DEF QInv
  <2> DEFINE W == {k \in DOMAIN queue : queue[k].item = i}
             H == {r \in Runs : held[r] = i}
  <2>3. Cardinality(W) = IF Waiting(i) THEN 1 ELSE 0
    <3>1. \A x, y \in W : x = y
      BY <2>2 DEF Distinct
    <3>2. W = {} <=> ~Waiting(i)
      BY DEF Waiting
    <3> HIDE DEF W
    <3> QED
      BY <3>1, <3>2, OnePlace
  <2>4. Cardinality(H) = IF HeldBy(i) THEN 1 ELSE 0
    <3>1. \A x, y \in H : x = y
      BY <2>1, <2>2 DEF HeldApart
    <3>2. H = {} <=> ~HeldBy(i)
      BY DEF HeldBy
    <3> HIDE DEF H
    <3> QED
      BY <3>1, <3>2, OnePlace
  <2> HIDE DEF W, H
  <2>5. Cardinality(W) + Cardinality(H) + served[i] + (IF i \in discarded THEN 1 ELSE 0) = 1
    BY <2>1, <2>2, <2>3, <2>4 DEF Once
  <2> QED
    BY <2>5 DEF W, H
<1>2. QInv => EachItemOnce
  BY <1>1 DEF EachItemOnce
<1> QED
  BY <1>2, QInvariant, PTL

-----------------------------------------------------------------------------
(* Turns are taken in the order in which the prompts were sent, unless the *)
(* runtime is cleaned up, deleted or fails to start in the meantime.       *)

\* No saved configuration, no deletion and no failing initialisation.
Undisturbed == Env \cap {"reload", "delete", "error"} = {}

\* These runs will reach a checkpoint, or release their insert requests when
\* they are finished.
Underway == tracked \cup {s \in Runs : phase[s] = "settling"}

\* No runtime is ever marked dirty, so nothing awaits its cleanup and an ended
\* run settles at once.
Steady ==
    /\ ~rt.dirty
    /\ \A r \in Runs : /\ phase[r] # "dirtyClean"
                       /\ phase[r] = "settling" => agentOf[r] = None

LEMMA RunStaysSteady ==
  ASSUME Undisturbed, AliveInv, Steady, NEW r \in Runs, RunStep(r)
  PROVE  /\ Steady'
         /\ Finish(r) => Underway \ {r} \subseteq Underway'
         /\ phase[r] # "settling" => Underway \subseteq Underway'
<1>0. /\ phase \in [Runs -> Phases] /\ agentOf \in [Runs -> Runs \cup {None}]
      /\ "error" \notin Env /\ PrepOK
      /\ \A s \in tracked : phase[s] \in Live
  BY TypeParts DEF AliveInv, TypeOK, Undisturbed, HolderAlive
<1> DEFINE Enters == /\ \A s \in Runs \ {r} : phase'[s] = phase[s] /\ agentOf'[s] = agentOf[s]
                     /\ phase'[r] \notin {"dirtyClean", "settling"}
                     /\ ~rt'.dirty
<1>1. ASSUME Enters, tracked \subseteq tracked', phase[r] # "settling" PROVE
             Steady' /\ Underway \subseteq Underway'
  BY <1>1 DEF Steady, Underway
<1>2. ASSUME NEW k, PrepareChat(r, k), ~HasActive
      PROVE  Enters /\ tracked \subseteq tracked'
  BY <1>0, <1>2 DEF PrepareChat, EnterAgent, Suspend, Track, SwapRuntime, HasActive, Steady
<1>3. ASSUME NEW k, EnsureForContinuation(r, k), ~HasActive
      PROVE  Enters /\ tracked \subseteq tracked'
  BY <1>0, <1>3 DEF EnsureForContinuation, StartContinuation, EnterAgent, Suspend, Track,
     SwapRuntime, HasActive, Steady
<1>4. ASSUME NEW a, StartContinuation(r, a)
      PROVE  /\ \A s \in Runs \ {r} : phase'[s] = phase[s] /\ agentOf'[s] = agentOf[s]
             /\ phase'[r] \notin {"dirtyClean", "settling"} /\ tracked \subseteq tracked'
  BY <1>0, <1>4 DEF StartContinuation, EnterAgent, Suspend, Track, tracker
<1>5. CASE ChatArrives(r)
  <2>1. CASE ~HasActive
    <3>1. PICK k : PrepareChat(r, k)
      BY <1>5, <2>1 DEF ChatArrives
    <3> QED
      BY <1>1, <1>2, <1>5, <2>1, <3>1 DEF ChatArrives, Finish
  <2>2. CASE HasActive
    <3>1. Enters /\ tracked' = tracked /\ phase[r] = "idle"
      BY <1>0, <1>5, <2>2 DEF ChatArrives, Suspend, tracker, Steady
    <3> QED
      BY <1>1, <3>1 DEF Finish
  <2> QED
    BY <2>1, <2>2
<1>6. CASE WaitEnds(r)
  BY <1>1, <1>2, <1>6 DEF WaitEnds, Finish
<1>7. CASE WaitTimesOut(r)
  <2>1. Enters /\ tracked' = tracked /\ phase[r] = "waiting"
    BY <1>0, <1>7 DEF WaitTimesOut, Suspend, tracker, Steady
  <2> QED
    BY <1>1, <2>1 DEF Finish
<1>8. CASE ContinuationFires(r)
  <2>1. CASE looping /\ ~HasActive
    <3>1. EnsureForContinuation(r, selection)
      BY <1>8, <2>1 DEF ContinuationFires, Steady
    <3> QED
      BY <1>1, <1>3, <1>8, <2>1, <3>1 DEF ContinuationFires, Finish
  <2>2. CASE ~(looping /\ ~HasActive)
    <3>1. Enters /\ tracked' = tracked /\ phase[r] = "scheduled"
      BY <1>0, <1>8, <2>2 DEF ContinuationFires, Suspend, tracker, Steady
    <3> QED
      BY <1>1, <3>1 DEF Finish
  <2> QED
    BY <2>1, <2>2
<1>9. CASE Resume(r)
  <2>1. Enters /\ tracked' = tracked /\ phase[r] = "swapClean"
    BY <1>0, <1>9 DEF Resume, Suspend, tracker, Steady
  <2> QED
    BY <1>1, <2>1 DEF Finish
<1>10. CASE BootDone(r)
  <2>1. phase[r] = "booting" /\ ~rt'.dirty
    BY <1>10 DEF BootDone
  <2>2. Enters /\ tracked \subseteq tracked'
    <3>1. CASE kind[r] = "chat"
      BY <1>0, <1>10, <2>1, <3>1 DEF BootDone, Track, EnterAgent, Suspend
    <3>2. CASE kind[r] # "chat"
      BY <1>4, <1>10, <2>1, <3>2 DEF BootDone
    <3> QED
      BY <3>1, <3>2
  <2> QED
    BY <1>1, <2>1, <2>2 DEF Finish
<1>11. CASE BootFails(r)
  BY <1>0, <1>11 DEF BootFails
<1>12. CASE TurnBegins(r)
  <2>1. Enters /\ tracked' = tracked /\ phase[r] = "assembling"
    BY <1>0, <1>12 DEF TurnBegins, tracker, Steady
  <2> QED
    BY <1>1, <2>1 DEF Finish
<1>13. ASSUME NEW o \in Outcomes, RunEnds(r, o)
       PROVE  /\ Steady'
              /\ Underway \subseteq Underway'
  <2>1. /\ phase'[r] = "settling" /\ phase[r] # "settling"
        /\ \A s \in Runs \ {r} : \/ phase'[s] = phase[s]
                                 \/ phase[s] = "idle" /\ phase'[s] = "scheduled"
    BY <1>0, <1>13 DEF RunEnds, CanEnd
  <2>2. agentOf' = [agentOf EXCEPT ![r] = None] /\ ~rt'.dirty
    BY <1>13 DEF RunEnds, Steady
  <2>3. tracked \ {r} \subseteq tracked'
    BY <1>13 DEF RunEnds, ClearRun
  <2>4. Steady'
    BY <1>0, <2>1, <2>2 DEF Steady
  <2>5. Underway \subseteq Underway'
    BY <1>0, <2>1, <2>3 DEF Underway
  <2> QED
    BY <2>4, <2>5
<1>14. CASE Finish(r)
  <2>1. /\ phase'[r] = "done" /\ agentOf' = [agentOf EXCEPT ![r] = None]
        /\ \A s \in Runs \ {r} : \/ phase'[s] = phase[s]
                                 \/ phase[s] = "idle" /\ phase'[s] = "scheduled"
        /\ rt' = rt /\ tracked' = tracked
    BY <1>0, <1>14 DEF Finish, tracker
  <2>2. Steady'
    BY <1>0, <2>1 DEF Steady
  <2>3. Underway \ {r} \subseteq Underway'
    BY <1>0, <2>1 DEF Underway
  <2>4. phase[r] = "settling"
    BY <1>14 DEF Finish
  <2> QED
    BY <2>2, <2>3, <2>4
<1> QED
  BY <1>5, <1>6, <1>7, <1>8, <1>9, <1>10, <1>11, <1>12, <1>13, <1>14 DEF RunStep

LEMMA RequestsStaySteady ==
  ASSUME Undisturbed, AliveInv, Steady, Requests
  PROVE  Steady' /\ Underway \subseteq Underway'
<1>1. "reload" \notin Env /\ "delete" \notin Env /\ rt \in Runtimes
  BY DEF Undisturbed, AliveInv, TypeOK
<1>2. phase' = phase /\ agentOf' = agentOf /\ tracked' = tracked
  BY <1>1 DEF Requests, PurgeDone, CancelAll, Cancel, ConfigReload, DeleteSession,
     SwitchSelection, vars, tracker
<1>3. rt' = rt \/ rt' = NoRuntime
  BY <1>1 DEF Requests, PurgeDone, CancelAll, Cancel, ConfigReload, DeleteSession,
     SwitchSelection, vars
<1> QED
  BY <1>2, <1>3 DEF Steady, Underway, NoRuntime

\* Later prompts are behind earlier ones.
Ascending(q) == \A k, l \in DOMAIN q : k < l => q[k].item < q[l].item

OrderInv ==
    /\ QInv
    /\ Steady
    /\ Ascending(queue)
    /\ FifoTurns
    /\ \A k \in DOMAIN queue : queue[k].insert => queue[k].run \in Underway

LEMMA OrderInit == QInit => OrderInv
<1> SUFFICES ASSUME QInit PROVE OrderInv
  OBVIOUS
<1>1. queue = <<>> /\ DOMAIN queue = {}
  BY DEF QInit
<1>2. Steady
  BY DEF QInit, Init, Steady, NoRuntime
<1> QED
  BY <1>1, <1>2, QInitially DEF OrderInv, Ascending, FifoTurns

\* Nothing that waits or is held was sent after the last prompt sent.
LEMMA SentBefore ==
  ASSUME QInv
  PROVE  /\ sent \in Nat
         /\ \A k \in DOMAIN queue : queue[k].item \in Nat /\ queue[k].item <= sent
         /\ \A r \in Runs : held[r] \in Nat /\ (held[r] # 0 => held[r] <= sent)
<1>1. /\ queue \in Seq(Entries) /\ held \in [Runs -> Items \cup {0}] /\ sent \in Nat
      /\ \A i \in Items : i \in Nat /\ Once(i)
  BY MaxItemsAssumption DEF QInv, QTypeOK, Items
<1>2. ASSUME NEW k \in DOMAIN queue PROVE queue[k].item \in Nat /\ queue[k].item <= sent
  <2>1. queue[k].item \in Items
    BY <1>1, QueueFacts
  <2> QED
    BY <1>1, <2>1 DEF Once, Waiting
<1>3. ASSUME NEW r \in Runs PROVE held[r] \in Nat /\ (held[r] # 0 => held[r] <= sent)
  <2>1. held[r] # 0 => held[r] \in Items
    BY <1>1
  <2> QED
    BY <1>1, <2>1 DEF Once, HeldBy
<1> QED
  BY <1>1, <1>2, <1>3

\* Without an entry the queue keeps its order, and what was true of all its
\* entries is true of those that are left.
LEMMA OrderRemoved ==
  ASSUME NEW q \in Seq(Entries), NEW k \in DOMAIN q, Ascending(q)
  PROVE  /\ Ascending(RemoveAt(q, k))
         /\ \A l \in DOMAIN RemoveAt(q, k) :
              \E m \in DOMAIN q : m # k /\ RemoveAt(q, k)[l] = q[m]
<1> DEFINE p == RemoveAt(q, k)
           At(l) == IF l < k THEN l ELSE l + 1
<1>1. /\ Len(q) \in Nat /\ DOMAIN q = 1 .. Len(q) /\ k \in 1 .. Len(q)
      /\ \A l \in DOMAIN q : q[l].item \in Nat
  BY QueueFacts DEF Items
<1>2. /\ p \in Seq(Entries) /\ Len(p) = Len(q) - 1
      /\ \A l \in 1 .. Len(q) - 1 : p[l] = IF l < k THEN q[l] ELSE q[l + 1]
  BY RemovedAt
<1>3. DOMAIN p = 1 .. Len(q) - 1
  BY <1>2, LenProperties
<1> HIDE DEF p
<1>4. ASSUME NEW l \in DOMAIN p PROVE At(l) \in DOMAIN q /\ At(l) # k /\ p[l] = q[At(l)]
  BY <1>1, <1>2, <1>3
<1>5. ASSUME NEW l \in DOMAIN p, NEW m \in DOMAIN p, l < m PROVE At(l) < At(m)
  BY <1>1, <1>3, <1>5
<1> HIDE DEF At
<1>6. Ascending(p)
  BY <1>4, <1>5 DEF Ascending
<1>7. \A l \in DOMAIN p : \E m \in DOMAIN q : m # k /\ p[l] = q[m]
  BY <1>4
<1> QED
  BY <1>6, <1>7 DEF p

\* When nobody holds the gate and every promise has been looked at, no insert
\* request is left, and the first prompt is the next one.
LEMMA NothingBound ==
  ASSUME OrderInv, Drained, ~HasActive
  PROVE  /\ \A k \in DOMAIN queue : ~queue[k].insert
         /\ Queued(queue) => FirstQueued = 1 /\ 1 \in DOMAIN queue
<1>1. /\ queue \in Seq(Entries) /\ purging \subseteq Runs /\ None \notin Runs /\ tracked = {}
      /\ \A k \in DOMAIN queue : queue[k].run \in Runs
  <2>1. queue \in Seq(Entries) /\ purging \subseteq Runs
    BY DEF OrderInv, QInv, QTypeOK, AliveInv, TypeOK
  <2>2. \A k \in DOMAIN queue : queue[k] \in Entries
    BY <2>1, QueueFacts
  <2> QED
    BY <2>1, <2>2, ConstantsAssumption DEF HasActive, Entries
<1>2. ASSUME NEW r \in Runs PROVE r \notin Underway
  BY <1>1 DEF Underway, OrderInv, Steady, Drained, Pending
<1>3. \A k \in DOMAIN queue : ~queue[k].insert
  BY <1>1, <1>2 DEF OrderInv
<1>4. ASSUME Queued(queue) PROVE FirstQueued = 1 /\ 1 \in DOMAIN queue
  <2> DEFINE I == {k \in 1 .. Len(queue) : ~queue[k].insert}
  <2>1. Len(queue) \in Nat /\ DOMAIN queue = 1 .. Len(queue)
    BY <1>1, QueueFacts
  <2>2. I = 1 .. Len(queue) /\ 1 \in 1 .. Len(queue)
    BY <1>3, <1>4, <2>1 DEF Queued
  <2>3. FirstQueued = Min(I)
    BY <2>2 DEF FirstQueued, SelectInSeq
  <2> HIDE DEF I
  <2>4. Min(I) \in I /\ \A y \in I : Min(I) <= y
    <3>1. \E x \in I : \A y \in I : x <= y
      BY <2>1, <2>2
    <3> QED
      BY <3>1 DEF Min
  <2>5. Min(I) = 1
    BY <2>1, <2>2, <2>4
  <2> QED
    BY <2>1, <2>2, <2>3, <2>5
<1> QED
  BY <1>3, <1>4

\* Steps that keep every entry and its item, and bind none to a run that is gone.
LEMMA OrderStays ==
  ASSUME OrderInv, QInv', Steady', DOMAIN queue' = DOMAIN queue,
         \A k \in DOMAIN queue : queue'[k].item = queue[k].item,
         \A r \in Runs : held'[r] \in {0, held[r]},
         \A k \in DOMAIN queue : queue'[k].insert => queue'[k].run \in Underway'
  PROVE  OrderInv'
BY DEF OrderInv, Ascending, FifoTurns

LEMMA OrderStep ==
  ASSUME Undisturbed, OrderInv, [QNext]_allVars PROVE OrderInv'
<1>0. /\ queue \in Seq(Entries) /\ held \in [Runs -> Items \cup {0}] /\ AliveInv
      /\ QInv /\ QInv' /\ Steady /\ Ascending(queue) /\ FifoTurns
      /\ \A k \in DOMAIN queue : queue[k].insert => queue[k].run \in Underway
      /\ "error" \notin Env /\ snapshot \in Runs \cup {None} /\ None \notin Runs
  BY QInductive, ConstantsAssumption DEF OrderInv, QInv, QTypeOK, AliveInv, TypeOK, Undisturbed
<1>a. \A k \in DOMAIN queue : queue[k] \in Entries /\ queue[k].run \in Runs
  BY <1>0, QueueFacts DEF Entries
<1>b. DOMAIN queue = 1 .. Len(queue) /\ Len(queue) \in Nat
  BY <1>0, QueueFacts
<1>c. ASSUME UNCHANGED vars PROVE Steady' /\ Underway' = Underway
  BY <1>0, <1>c DEF vars, tracker, Steady, Underway
<1>d. Mutable => snapshot \in Runs /\ snapshot \in Underway
  BY <1>0 DEF Mutable, AliveInv, SnapshotIsTracked, Underway
<1>1. CASE Enqueue
  <2> DEFINE e == Entry(sent + 1, snapshot)
  <2>1. queue' = Append(queue, e) /\ UNCHANGED <<vars, held>> /\ Mutable
    BY <1>1 DEF Enqueue
  <2>2. e \in Entries /\ e.item = sent + 1 /\ e.insert = FALSE
    BY <1>0, <1>1, <1>d, <2>1, MaxItemsAssumption
    DEF Enqueue, Entry, Entries, Items, QInv, QTypeOK
  <2> HIDE DEF e
  <2>3. /\ Len(queue') = Len(queue) + 1 /\ queue' \in Seq(Entries)
        /\ \A k \in 1 .. Len(queue) : queue'[k] = queue[k]
        /\ queue'[Len(queue) + 1] = e
    BY <1>0, <2>1, <2>2, AppendProperties
  <2>4. DOMAIN queue' = 1 .. Len(queue) + 1
    BY <2>3, LenProperties
  <2>5. /\ sent \in Nat
        /\ \A k \in DOMAIN queue : queue[k].item \in Nat /\ queue[k].item <= sent
        /\ \A r \in Runs : held[r] \in Nat /\ (held[r] # 0 => held[r] <= sent)
    BY <1>0, SentBefore
  <2>6. ASSUME NEW k \in DOMAIN queue', k # Len(queue) + 1
        PROVE  k \in DOMAIN queue /\ queue'[k] = queue[k]
    BY <1>b, <2>3, <2>4, <2>6
  <2>7. Ascending(queue')
    <3> SUFFICES ASSUME NEW k \in DOMAIN queue', NEW l \in DOMAIN queue', k < l
                 PROVE  queue'[k].item < queue'[l].item
      BY DEF Ascending
    <3>1. k # Len(queue) + 1
      BY <1>b, <2>4
    <3>2. CASE l = Len(queue) + 1
      BY <2>2, <2>3, <2>5, <2>6, <3>1, <3>2
    <3>3. CASE l # Len(queue) + 1
      BY <1>0, <2>6, <3>1, <3>3 DEF Ascending
    <3> QED
      BY <3>2, <3>3
  <2>8. FifoTurns'
    <3> SUFFICES ASSUME NEW r \in Runs, held'[r] # 0, NEW k \in DOMAIN queue'
                 PROVE  queue'[k].item > held'[r]
      BY DEF FifoTurns
    <3>1. held'[r] = held[r]
      BY <2>1
    <3>2. CASE k = Len(queue) + 1
      BY <2>2, <2>3, <2>5, <3>1, <3>2
    <3>3. CASE k # Len(queue) + 1
      BY <1>0, <2>6, <3>1, <3>3 DEF FifoTurns
    <3> QED
      BY <3>2, <3>3
  <2>9. \A k \in DOMAIN queue' : queue'[k].insert => queue'[k].run \in Underway'
    BY <1>0, <1>a, <1>c, <2>1, <2>2, <2>3, <2>6
  <2> QED
    BY <1>0, <1>c, <2>1, <2>7, <2>8, <2>9 DEF OrderInv
<1>2. ASSUME NEW k \in DOMAIN queue, RequestInsert(k) PROVE OrderInv'
  <2>1. /\ queue' = [queue EXCEPT ![k] = [queue[k] EXCEPT !.run = snapshot, !.insert = TRUE]]
        /\ UNCHANGED <<vars, held>> /\ Mutable
    BY <1>2 DEF RequestInsert, InsertRequested
  <2> DEFINE e == [queue[k] EXCEPT !.run = snapshot, !.insert = TRUE]
  <2>2. e.item = queue[k].item /\ e.run = snapshot
    BY <1>a DEF Entries
  <2>3. queue' = [queue EXCEPT ![k] = e]
    BY <2>1
  <2> HIDE DEF e
  <2>4. /\ DOMAIN queue' = DOMAIN queue
        /\ \A l \in DOMAIN queue : queue'[l] = IF l = k THEN e ELSE queue[l]
    BY <1>0, <1>b, <2>3
  <2>5. \A l \in DOMAIN queue : queue'[l].insert => queue'[l].run \in Underway'
    BY <1>0, <1>a, <1>c, <1>d, <2>1, <2>2, <2>4
  <2>6. \A r \in Runs : held'[r] \in {0, held[r]}
    BY <2>1
  <2>7. \A l \in DOMAIN queue : queue'[l].item = queue[l].item
    BY <2>2, <2>4
  <2> QED
    BY <1>0, <1>c, <2>1, <2>4, <2>5, <2>6, <2>7, OrderStays
<1>3. ASSUME NEW k \in DOMAIN queue, queue' = RemoveAt(queue, k), UNCHANGED <<vars, held>>
      PROVE  OrderInv'
  <2>1. /\ Ascending(queue')
        /\ \A l \in DOMAIN queue' : \E m \in DOMAIN queue : queue'[l] = queue[m]
    BY <1>0, <1>3, OrderRemoved
  <2>2. FifoTurns'
    BY <1>0, <1>3, <2>1 DEF FifoTurns
  <2>3. \A l \in DOMAIN queue' : queue'[l].insert => queue'[l].run \in Underway'
    BY <1>0, <1>a, <1>c, <1>3, <2>1
  <2> QED
    BY <1>0, <1>c, <1>3, <2>1, <2>2, <2>3 DEF OrderInv
<1>4. ASSUME NEW k \in DOMAIN queue, Discard(k) PROVE OrderInv'
  BY <1>3, <1>4 DEF Discard
<1>5. ASSUME NEW r \in Runs, ConsumeInsert(r) PROVE OrderInv'
  <2>1. FirstInsertFor(r) \in DOMAIN queue
    BY <1>0, <1>5, FirstInsertIsInQueue DEF ConsumeInsert
  <2> QED
    BY <1>3, <1>5, <2>1 DEF ConsumeInsert
<1>6. ASSUME NEW r \in Runs, FinishAndRelease(r) PROVE OrderInv'
  <2>1. /\ queue' = [k \in DOMAIN queue |-> [queue[k] EXCEPT !.insert = @ /\ queue[k].run # r]]
        /\ held' = [held EXCEPT ![r] = 0] /\ Finish(r)
    BY <1>6 DEF FinishAndRelease, InsertsReleasedBy
  <2>2. Steady' /\ Underway \ {r} \subseteq Underway'
    BY <1>0, <2>1, RunStaysSteady DEF RunStep
  <2>3. ASSUME NEW k \in DOMAIN queue
        PROVE  /\ queue'[k].item = queue[k].item /\ queue'[k].run = queue[k].run
               /\ queue'[k].insert => queue[k].insert /\ queue[k].run # r
    BY <1>a, <2>1 DEF Entries
  <2>4. DOMAIN queue' = DOMAIN queue
    BY <2>1
  <2>5. \A k \in DOMAIN queue : queue'[k].insert => queue'[k].run \in Underway'
    BY <1>0, <1>a, <2>2, <2>3
  <2>6. \A s \in Runs : held'[s] \in {0, held[s]}
    BY <1>0, <2>1
  <2> QED
    BY <1>0, <2>2, <2>3, <2>4, <2>5, <2>6, OrderStays
<1>7. ASSUME NEW r \in Runs, BootFailsAndRequeue(r) PROVE OrderInv'
  BY <1>0, <1>7 DEF BootFailsAndRequeue, BootFails
<1>8. ASSUME UNCHANGED <<queue, held>>, Steady', Underway \subseteq Underway'
      PROVE  OrderInv'
  BY <1>0, <1>a, <1>8, OrderStays
<1>9. CASE PollAgain \/ PollFindsNothing \/ Connectivity \/ UNCHANGED allVars
  <2>1. UNCHANGED <<queue, held>> /\ UNCHANGED vars
    BY <1>9 DEF PollAgain, PollFindsNothing, Connectivity, allVars, queueVars
  <2> QED
    BY <1>c, <1>8, <2>1
<1>10. CASE PollIsRefused
  <2>1. /\ FirstQueued = 1 /\ 1 \in DOMAIN queue
        /\ queue' = <<queue[1]>> \o RemoveAt(queue, 1) /\ UNCHANGED <<vars, held>>
    BY <1>10, NothingBound DEF PollIsRefused
  <2> DEFINE p == RemoveAt(queue, 1)
             f == <<queue[1]>>
  <2>2. /\ p \in Seq(Entries) /\ Len(p) = Len(queue) - 1
        /\ \A l \in 1 .. Len(queue) - 1 : p[l] = IF l < 1 THEN queue[l] ELSE queue[l + 1]
    BY <1>0, <2>1, RemovedAt
  <2>3. f \in Seq(Entries) /\ Len(f) = 1 /\ f[1] = queue[1]
    BY <1>a, <2>1
  <2>4. queue' = f \o p
    BY <2>1
  <2> HIDE DEF p, f
  <2>5. /\ queue' \in Seq(Entries) /\ Len(queue') = 1 + Len(p)
        /\ \A k \in 1 .. 1 + Len(p) : queue'[k] = IF k <= 1 THEN f[k] ELSE p[k - 1]
    <3>1. /\ f \o p \in Seq(Entries) /\ Len(f \o p) = Len(f) + Len(p)
          /\ \A k \in 1 .. Len(f) + Len(p) :
               (f \o p)[k] = IF k <= Len(f) THEN f[k] ELSE p[k - Len(f)]
      <4>1. f \in Seq(Entries) /\ p \in Seq(Entries)
        BY <2>2, <2>3
      <4> QED
        BY <4>1, ConcatProperties
    <3> QED
      BY <2>3, <2>4, <3>1
  <2>6. DOMAIN queue' = 1 .. Len(queue') /\ Len(queue') = Len(queue)
    BY <1>b, <2>2, <2>5, LenProperties
  <2>7. ASSUME NEW k \in DOMAIN queue PROVE queue'[k] = queue[k]
    <3>1. CASE k = 1
      BY <1>b, <2>2, <2>3, <2>5, <3>1
    <3>2. CASE k # 1
      <4>1. k - 1 \in 1 .. Len(queue) - 1 /\ k \in 1 .. 1 + Len(p) /\ ~(k <= 1)
        BY <1>b, <2>2, <3>2
      <4>2. ~(k - 1 < 1) /\ (k - 1) + 1 = k
        BY <1>b, <3>2
      <4> QED
        BY <2>2, <2>5, <4>1, <4>2
    <3> QED
      BY <3>1, <3>2
  <2>8. \A k \in DOMAIN queue : queue'[k].insert => queue'[k].run \in Underway'
    BY <1>0, <1>a, <1>c, <2>1, <2>7
  <2>9. \A r \in Runs : held'[r] \in {0, held[r]}
    BY <2>1
  <2> QED
    BY <1>0, <1>b, <1>c, <2>1, <2>6, <2>7, <2>8, <2>9, OrderStays
<1>11. ASSUME NEW r \in Runs, PollStartsTurn(r) PROVE OrderInv'
  <2>1. FirstQueued = 1 /\ 1 \in DOMAIN queue /\ \A k \in DOMAIN queue : ~queue[k].insert
    BY <1>11, NothingBound DEF PollStartsTurn, ChatArrives
  <2>2. /\ queue' = RemoveAt(queue, 1) /\ held' = [held EXCEPT ![r] = queue[1].item]
        /\ ChatArrives(r)
    BY <1>11, <2>1 DEF PollStartsTurn
  <2>3. Steady'
    BY <1>0, <2>2, RunStaysSteady DEF RunStep
  <2>4. /\ Ascending(queue')
        /\ \A l \in DOMAIN queue' : \E m \in DOMAIN queue : m # 1 /\ queue'[l] = queue[m]
    BY <1>0, <2>1, <2>2, OrderRemoved
  <2>5. \A s \in Runs : held'[s] = IF s = r THEN queue[1].item ELSE held[s]
    BY <1>0, <2>2
  <2>6. FifoTurns'
    <3> SUFFICES ASSUME NEW s \in Runs, held'[s] # 0, NEW l \in DOMAIN queue'
                 PROVE  queue'[l].item > held'[s]
      BY DEF FifoTurns
    <3>1. PICK m \in DOMAIN queue : m # 1 /\ queue'[l] = queue[m]
      BY <2>4
    <3>2. queue[1].item < queue[m].item
      BY <1>0, <1>b, <2>1, <3>1 DEF Ascending
    <3>3. queue[1].item \in Nat /\ queue[m].item \in Nat
      BY <1>0, <2>1, SentBefore
    <3>4. CASE s = r
      BY <2>5, <3>1, <3>2, <3>3, <3>4
    <3>5. CASE s # r
      BY <1>0, <2>5, <3>1, <3>5 DEF FifoTurns
    <3> QED
      BY <3>4, <3>5
  <2>7. \A l \in DOMAIN queue' : ~queue'[l].insert
    BY <2>1, <2>4
  <2> QED
    BY <1>0, <2>3, <2>4, <2>6, <2>7 DEF OrderInv
<1>12. CASE OtherRunStep
  <2>1. UNCHANGED <<queue, held>>
    BY <1>12 DEF OtherRunStep, queueVars
  <2>2. CASE Requests
    BY <1>0, <1>8, <2>1, <2>2, RequestsStaySteady
  <2>3. ASSUME NEW r \in Runs,
               \/ ChatArrives(r) \/ WaitEnds(r) \/ WaitTimesOut(r)
               \/ ContinuationFires(r) \/ Resume(r) \/ BootDone(r) \/ TurnBegins(r)
               \/ \E o \in Outcomes : RunEnds(r, o)
        PROVE  OrderInv'
    <3>1. RunStep(r)
      BY <2>3 DEF RunStep
    <3>2. phase[r] # "settling"
      BY <2>3 DEF ChatArrives, WaitEnds, WaitTimesOut, ContinuationFires, Resume, BootDone,
         TurnBegins, RunEnds, CanEnd
    <3> QED
      BY <1>0, <1>8, <2>1, <3>1, <3>2, RunStaysSteady
  <2> QED
    BY <1>12, <2>2, <2>3 DEF OtherRunStep, Requests
<1> QED
  BY <1>1, <1>2, <1>4, <1>5, <1>6, <1>7, <1>9, <1>10, <1>11, <1>12 DEF QNext, Poll

\* Prompts get turns in the order in which they were sent, and none waits bound
\* to a run that has ended, whatever the user stops, inserts or discards, however
\* often the browser or the selection changes, and whoever plans continuations.
\* A cleanup that is awaited, a deletion and a failing start do reorder prompts.
THEOREM TurnsInOrder == ASSUME Undisturbed PROVE QSpec => []QueueIsOrderly
<1>1. OrderInv => QueueIsOrderly
  <2> SUFFICES ASSUME OrderInv PROVE InsertsAreReleasable
    BY DEF OrderInv, QueueIsOrderly
  <2>1. \A r \in tracked : phase[r] \in Live
    BY DEF OrderInv, QInv, AliveInv, HolderAlive
  <2> QED
    BY <2>1 DEF OrderInv, InsertsAreReleasable, Underway, Live
<1>2. QInit => OrderInv
  BY OrderInit
<1>3. OrderInv /\ [QNext]_allVars => OrderInv'
  BY OrderStep
<1> QED
  BY <1>1, <1>2, <1>3, PTL DEF QSpec
=============================================================================
