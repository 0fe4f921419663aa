------------------------- MODULE ContextStoreProofs -------------------------
(***************************************************************************)
(* Theorems about ContextStore, for every number of turns, steps, patches  *)
(* and outside writes, and every environment.                              *)
(***************************************************************************)
EXTENDS ContextStore, TLAPS, SequenceTheorems, FiniteSetTheorems, WellFoundedInduction

-----------------------------------------------------------------------------
(* File operations, one by one. *)

OpNames == {"append", "draft", "checkpoint", "artifact", "ledger",
            "rmDraft", "rmCheckpoints", "rmArtifact", "rmLedger"}

LEMMA OpFacts ==
  ASSUME NEW o \in Ops
  PROVE  /\ o.op \in OpNames
         /\ o.op = "append" => o.group \in Groups
         /\ o.op = "draft" => o.draft \in Drafts
         /\ o.op = "checkpoint" => o.checkpoint \in Checkpoints
         /\ o.op = "artifact" => o.artifact \in Artifacts
         /\ o.op = "ledger" => o.effects \subseteq Effects
BY DEF Ops, OpNames

LEMMA OpIntro ==
  /\ \A g \in Groups : [op |-> "append", group |-> g] \in Ops
  /\ \A d \in Drafts : [op |-> "draft", draft |-> d] \in Ops
  /\ \A c \in Checkpoints : [op |-> "checkpoint", checkpoint |-> c] \in Ops
  /\ \A a \in Artifacts : [op |-> "artifact", artifact |-> a] \in Ops
  /\ \A e \in SUBSET Effects : [op |-> "ledger", effects |-> e] \in Ops
  /\ \A n \in {"rmDraft", "rmCheckpoints", "rmArtifact", "rmLedger"} : [op |-> n] \in Ops
BY DEF Ops

DiskOK ==
  /\ log \in Seq(Groups)
  /\ draft \in Drafts \cup {None}
  /\ checkpoints \in Seq(Checkpoints)
  /\ artifact \in Artifacts \cup {None}
  /\ ledger \subseteq Effects

LEMMA PerformOK ==
  ASSUME DiskOK, NEW o \in Ops, Perform(o) PROVE DiskOK'
<1>1. log' \in Seq(Groups)
  BY OpFacts DEF Perform, DiskOK
<1>2. draft' \in Drafts \cup {None}
  BY OpFacts DEF Perform, DiskOK
<1>3. checkpoints' \in Seq(Checkpoints)
  BY OpFacts DEF Perform, DiskOK
<1>4. artifact' \in Artifacts \cup {None}
  BY OpFacts DEF Perform, DiskOK
<1>5. ledger' \subseteq Effects
  BY OpFacts DEF Perform, DiskOK, LedgerMerged
<1> QED
  BY <1>1, <1>2, <1>3, <1>4, <1>5 DEF DiskOK

LEMMA CutShortOK ==
  ASSUME DiskOK, excused \subseteq Effects, NEW o \in Ops, CutShort(o)
  PROVE  DiskOK' /\ excused' \subseteq Effects
<1>1. log' \in Seq(Groups)
  <2>1. CASE o.op = "append"
    <3>1. \A end \in {"cut", "torn"} : [o.group EXCEPT !.end = end] \in Groups
      BY <2>1, OpFacts DEF Groups
    <3>2. PICK end \in {"cut", "torn"} : log' = Append(log, [o.group EXCEPT !.end = end])
      BY <2>1 DEF CutShort
    <3>3. [o.group EXCEPT !.end = end] \in Groups /\ log \in Seq(Groups)
      BY <3>1 DEF DiskOK
    <3> HIDE DEF Groups
    <3> QED
      BY <3>2, <3>3, AppendProperties
  <2>2. CASE o.op # "append"
    BY <2>2 DEF CutShort, DiskOK
  <2> QED
    BY <2>1, <2>2
<1>2. draft' \in Drafts \cup {None} /\ artifact' \in Artifacts \cup {None}
  BY DEF CutShort, DiskOK
<1>3. checkpoints' \in Seq(Checkpoints) /\ ledger' \subseteq Effects /\ excused' \subseteq Effects
  BY DEF CutShort, DiskOK
<1> QED
  BY <1>1, <1>2, <1>3 DEF DiskOK

-----------------------------------------------------------------------------
(* The scripts that the handlers write. *)

\* A nonempty set of positions of a sequence has a last one.
LEMMA LastPosition ==
  ASSUME NEW n \in Nat, NEW P \in SUBSET (1..n), P # {}
  PROVE  \E k \in P : \A j \in P : j <= k
<1> DEFINE R == OpToRel(<, Nat)
           D == {n - k : k \in P}
<1>1. D \subseteq Nat /\ D # {}
  <2>1. \A k \in P : n - k \in Nat
    OBVIOUS
  <2>2. PICK k \in P : TRUE
    OBVIOUS
  <2>3. n - k \in D
    OBVIOUS
  <2> QED
    BY <2>1, <2>3
<1>2. PICK d \in D : \A e \in D : ~ (<<e, d>> \in R)
  BY <1>1, NatLessThanWellFounded, WFMin
<1>3. PICK k \in P : d = n - k
  BY <1>2
<1>4. \A j \in P : j <= k
  <2> SUFFICES ASSUME NEW j \in P, j > k PROVE FALSE
    OBVIOUS
  <2>1. n - j \in D /\ n - j \in Nat /\ d \in Nat /\ n - j < d
    BY <1>3
  <2> QED
    BY <2>1, <1>2 DEF OpToRel
<1> QED
  BY <1>4

LEMMA LatestOK ==
  ASSUME checkpoints \in Seq(Checkpoints)
  PROVE  \/ LatestCheckpoint = None
         \/ \E k \in 1..Len(checkpoints) :
              /\ LatestCheckpoint = checkpoints[k]
              /\ checkpoints[k].id = draft.id
              /\ checkpoints[k].turn = draft.turn
<1> DEFINE lines == {k \in DOMAIN checkpoints :
                       /\ checkpoints[k].id = draft.id
                       /\ checkpoints[k].turn = draft.turn}
<1>1. CASE lines = {}
  BY <1>1 DEF LatestCheckpoint
<1>2. CASE lines # {}
  <2>1. Len(checkpoints) \in Nat /\ lines \subseteq 1..Len(checkpoints)
    BY LenProperties
  <2>2. \E k \in lines : \A j \in lines : j <= k
    BY <1>2, <2>1, LastPosition
  <2>3. (CHOOSE k \in lines : \A j \in lines : j <= k) \in lines
    BY <2>2
  <2> QED
    BY <1>2, <2>1, <2>3 DEF LatestCheckpoint
<1> QED
  BY <1>1, <1>2

LEMMA SafePointOK ==
  ASSUME DiskOK, queued \in [Turns -> Checkpoints \cup {None}], NEW t \in Turns
  PROVE  \/ SafePoint(t) = None
         \/ SafePoint(t) = queued[t] /\ queued[t] \in Checkpoints
         \/ \E k \in 1..Len(checkpoints) :
              /\ SafePoint(t) = checkpoints[k]
              /\ checkpoints[k] \in Checkpoints
              /\ checkpoints[k].turn = t
<1>1. CASE queued[t] # None
  BY <1>1 DEF SafePoint
<1>2. CASE queued[t] = None /\ draft # None /\ draft.turn = t
  <2>1. SafePoint(t) = LatestCheckpoint
    BY <1>2 DEF SafePoint
  <2>2. \A k \in 1..Len(checkpoints) : checkpoints[k] \in Checkpoints
    BY ElementOfSeq DEF DiskOK
  <2> QED
    BY <1>2, <2>1, <2>2, LatestOK DEF DiskOK
<1>3. CASE queued[t] = None /\ ~(draft # None /\ draft.turn = t)
  BY <1>3 DEF SafePoint
<1> QED
  BY <1>1, <1>2, <1>3

\* What the entries, checkpoints and scripts of the model may claim.
Claims(c) == c.upto <= steps[c.turn] /\ c.patches <= patches[c.turn]

OwnGroups == {g \in Groups : g.turn # None => Claims(g)}
OwnCheckpoints == {c \in Checkpoints : Claims(c)}

\* Operations that add nothing to the history.
QuietOps == {o \in Ops : /\ o.op # "append"
                         /\ o.op = "checkpoint" => o.checkpoint \in OwnCheckpoints}

\* The one operation before an append: a checkpoint is flushed.
FlushQuiet == {o \in QuietOps : o.op = "checkpoint"}

\* Quiet operations that write no artifact of a committed turn.
PlainOps == {o \in QuietOps : o.op = "artifact" => ~o.artifact.committed}

LEMMA QuietFacts ==
  /\ QuietOps \subseteq Ops
  /\ FlushQuiet \subseteq PlainOps
  /\ PlainOps \subseteq QuietOps
BY DEF QuietOps, FlushQuiet, PlainOps

LEMMA ClearDraftOK == ClearDraft \in Seq(PlainOps)
<1>1. [op |-> "rmDraft"] \in PlainOps /\ [op |-> "rmCheckpoints"] \in PlainOps
  BY OpIntro DEF PlainOps, QuietOps
<1> QED
  BY <1>1 DEF ClearDraft

LEMMA RecoveryClearedOK == ASSUME NEW t PROVE RecoveryCleared(t) \in Seq(PlainOps)
<1>1. [op |-> "rmArtifact"] \in PlainOps /\ [op |-> "rmLedger"] \in PlainOps
  BY OpIntro DEF PlainOps, QuietOps
<1> DEFINE a == IF seen[t].artifact THEN <<[op |-> "rmArtifact"]>> ELSE <<>>
           l == IF seen[t].ledger THEN <<[op |-> "rmLedger"]>> ELSE <<>>
<1>2. a \in Seq(PlainOps) /\ l \in Seq(PlainOps)
  BY <1>1
<1> HIDE DEF a, l
<1>3. a \o l \in Seq(PlainOps)
  BY <1>2, ConcatProperties
<1> QED
  BY <1>3 DEF RecoveryCleared, a, l

QueueOwn ==
  \A t \in Turns :
    queued[t] # None => queued[t] \in OwnCheckpoints /\ queued[t].turn = t

LEMMA FlushOpsOK ==
  ASSUME QueueOwn, NEW t \in Turns PROVE FlushOps(t) \in Seq(FlushQuiet)
<1>1. CASE queued[t] = None
  BY <1>1 DEF FlushOps
<1>2. CASE queued[t] # None
  <2>1. [op |-> "checkpoint", checkpoint |-> queued[t]] \in FlushQuiet
    BY <1>2, OpIntro DEF QueueOwn, FlushQuiet, QuietOps, OwnCheckpoints
  <2> QED
    BY <1>2, <2>1 DEF FlushOps
<1> QED
  BY <1>1, <1>2

\* What remains of InterruptOps behind its entry.
Remainder(t, kept, effects) ==
  ClearDraft
    \o <<[op |-> "artifact",
          artifact |-> [turn |-> t, id |-> draftId[t], committed |-> kept # None]]>>
    \o (IF effects = {} THEN <<>> ELSE <<[op |-> "ledger", effects |-> effects]>>)
    \o ClearDraft

\* Quiet operations whose artifact, if committed, is that of turn t.
QuietOf(t) == {o \in QuietOps : o.op = "artifact" /\ o.artifact.committed
                                => o.artifact.turn = t}

LEMMA RemainderOK ==
  ASSUME NEW t \in Turns, draftId[t] \in Turns, NEW kept, NEW e \in SUBSET Effects
  PROVE  /\ Remainder(t, kept, e) \in Seq(QuietOf(t))
         /\ kept = None => Remainder(t, kept, e) \in Seq(PlainOps)
<1> DEFINE a == [turn |-> t, id |-> draftId[t], committed |-> kept # None]
           A == <<[op |-> "artifact", artifact |-> a]>>
           L == IF e = {} THEN <<>> ELSE <<[op |-> "ledger", effects |-> e]>>
<1>1. a \in Artifacts
  BY DEF Artifacts
<1>2. [op |-> "artifact", artifact |-> a] \in QuietOps
  BY <1>1, OpIntro DEF QuietOps
<1>3. [op |-> "ledger", effects |-> e] \in PlainOps
  BY OpIntro DEF QuietOps, PlainOps
<1>4. PlainOps \subseteq QuietOf(t)
  BY DEF PlainOps, QuietOf
<1>5. A \in Seq(QuietOf(t)) /\ L \in Seq(QuietOf(t)) /\ ClearDraft \in Seq(QuietOf(t))
  <2>1. A \in Seq(QuietOf(t))
    BY <1>2 DEF QuietOf
  <2>2. L \in Seq(QuietOf(t))
    BY <1>3, <1>4
  <2>3. ClearDraft \in Seq(QuietOf(t))
    BY <1>4, ClearDraftOK, SeqMonotonic
  <2> QED
    BY <2>1, <2>2, <2>3
<1>6. ASSUME kept = None
      PROVE  A \in Seq(PlainOps) /\ L \in Seq(PlainOps) /\ ClearDraft \in Seq(PlainOps)
  <2>1. A \in Seq(PlainOps)
    <3>1. a.committed = FALSE
      BY <1>6
    <3> HIDE DEF a
    <3>2. [op |-> "artifact", artifact |-> a] \in PlainOps
      BY <1>2, <3>1 DEF PlainOps
    <3> QED
      BY <3>2
  <2>2. L \in Seq(PlainOps)
    BY <1>3
  <2> QED
    BY <2>1, <2>2, ClearDraftOK
<1>7. ASSUME NEW S, A \in Seq(S), L \in Seq(S), ClearDraft \in Seq(S)
      PROVE  Remainder(t, kept, e) \in Seq(S)
  <2> HIDE DEF A, L
  <2>1. ClearDraft \o A \in Seq(S)
    BY <1>7, ConcatProperties
  <2>2. (ClearDraft \o A) \o L \in Seq(S)
    BY <1>7, <2>1, ConcatProperties
  <2>3. ((ClearDraft \o A) \o L) \o ClearDraft \in Seq(S)
    BY <1>7, <2>2, ConcatProperties
  <2> QED
    BY <2>3 DEF Remainder, A, L
<1> QED
  BY <1>5, <1>6, <1>7

-----------------------------------------------------------------------------
(* The inductive invariant. *)

OneTurn ==
  \A t, u \in Turns : phase[t] \notin Ended /\ phase[u] \notin Ended => t = u

Baseline == \A t \in Turns : phase[t] \in Live \cup {"ending"} => base[t] <= Len(log)

\* While a tool runs, there is room for its result.
ToolBound == \A t \in Turns : phase[t] = "tool" => steps[t] < MaxSteps

Backed(t) == \E i \in EntriesOf(t, "interrupted") : log[i].end = "whole"

\* At most one append, before which checkpoints are flushed and nothing else.
OneAppend(s) ==
  \A i \in 1..Len(s) :
    s[i].op = "append" =>
      /\ s[i].group \in OwnGroups
      /\ s[i].group.end = "whole"
      /\ \A j \in 1..Len(s) :
           /\ j # i => s[j].op # "append"
           /\ j < i => s[j].op = "checkpoint"

OwnCheckpointsOnly(s) ==
  \A i \in 1..Len(s) : s[i].op = "checkpoint" => s[i].checkpoint \in OwnCheckpoints

\* The entry that is about to be appended overlooks nothing.
OnBaseline(s) ==
  \A i \in 1..Len(s) :
    s[i].op = "append" =>
      IF s[i].group.turn = None
      THEN \A u \in Turns : phase[u] # "ending"
      ELSE phase[s[i].group.turn] = "ending" /\ base[s[i].group.turn] = Len(log)

\* The events come before the artifact that tells of them.
EventsFirst(s) ==
  \A i \in 1..Len(s) :
    s[i].op = "artifact" /\ s[i].artifact.committed =>
      \/ Backed(s[i].artifact.turn)
      \/ \E j \in 1..Len(s) :
           /\ s[j].op = "append"
           /\ s[j].group.turn = s[i].artifact.turn
           /\ s[j].group.kind = "interrupted"

ScriptOK ==
  /\ OneAppend(script)
  /\ OwnCheckpointsOnly(script)
  /\ OnBaseline(script)
  /\ EventsFirst(script)
  /\ script = <<>> => \A t \in Turns : phase[t] # "ending"

ClaimsOK ==
  /\ \A i \in 1..Len(log) : log[i] \in OwnGroups
  /\ \A i \in 1..Len(checkpoints) : checkpoints[i] \in OwnCheckpoints
  /\ QueueOwn

Inv ==
  /\ TypeOK
  /\ OneTurn
  /\ Baseline
  /\ ToolBound
  /\ ClaimsOK
  /\ ScriptOK
  /\ ArtifactIsProven

\* What the script of an ending turn looks like.
Shape(s, t) ==
  \/ s \in Seq(PlainOps)
  \/ /\ base[t] = Len(log)
     /\ \E pre \in Seq(FlushQuiet), g \in OwnGroups, post \in Seq(QuietOf(t)) :
          /\ s = pre \o (<<[op |-> "append", group |-> g]>> \o post)
          /\ g.turn = t
          /\ g.end = "whole"
          /\ g.kind = "interrupted" \/ post \in Seq(PlainOps)

LEMMA PlainScript ==
  ASSUME NEW s \in Seq(PlainOps)
  PROVE  /\ s \in Seq(Ops)
         /\ OneAppend(s) /\ OwnCheckpointsOnly(s) /\ OnBaseline(s) /\ EventsFirst(s)
         /\ \A i \in 1..Len(s) : s[i].op # "append"
<1>1. s \in Seq(Ops)
  BY QuietFacts, SeqMonotonic
<1>2. \A i \in 1..Len(s) : s[i] \in PlainOps
  BY ElementOfSeq
<1> QED
  BY <1>1, <1>2 DEF PlainOps, QuietOps, OneAppend, OwnCheckpointsOnly, OnBaseline, EventsFirst

LEMMA ShapeOK ==
  ASSUME NEW t \in Turns, None \notin Turns, NEW s, Shape(s, t)
  PROVE  /\ s \in Seq(Ops)
         /\ OneAppend(s) /\ OwnCheckpointsOnly(s) /\ EventsFirst(s)
         /\ \A i \in 1..Len(s) :
              s[i].op = "append" => s[i].group.turn = t /\ base[t] = Len(log)
<1>1. CASE s \in Seq(PlainOps)
  BY <1>1, PlainScript
<1>2. CASE s \notin Seq(PlainOps)
  <2>1. base[t] = Len(log)
    BY <1>2 DEF Shape
  <2>2. PICK pre \in Seq(FlushQuiet), g \in OwnGroups, post \in Seq(QuietOf(t)) :
          /\ s = pre \o (<<[op |-> "append", group |-> g]>> \o post)
          /\ g.turn = t
          /\ g.end = "whole"
          /\ g.kind = "interrupted" \/ post \in Seq(PlainOps)
    BY <1>2 DEF Shape
  <2> DEFINE a == [op |-> "append", group |-> g]
             n == Len(pre)
             m == Len(post)
  <2>3. a \in Ops /\ a.op = "append" /\ a.group = g
    BY OpIntro DEF OwnGroups
  <2>4. pre \in Seq(Ops) /\ post \in Seq(Ops) /\ <<a>> \in Seq(Ops)
    <3>1. FlushQuiet \subseteq Ops /\ QuietOf(t) \subseteq Ops
      BY DEF FlushQuiet, QuietOf, QuietOps
    <3> QED
      BY <2>3, <3>1, SeqMonotonic
  <2>5. n \in Nat /\ m \in Nat
    BY <2>4, LenProperties
  <2> HIDE DEF a, n, m
  <2>6. /\ <<a>> \o post \in Seq(Ops)
        /\ Len(<<a>> \o post) = m + 1
        /\ (<<a>> \o post)[1] = a
        /\ \A i \in 2..m+1 : (<<a>> \o post)[i] = post[i - 1]
    <3>1. Len(<<a>>) = 1 /\ <<a>>[1] = a
      OBVIOUS
    <3> QED
      BY <2>4, <2>5, <3>1, ConcatProperties DEF m
  <2>7. /\ s \in Seq(Ops)
        /\ Len(s) = n + m + 1
        /\ \A i \in 1..n : s[i] = pre[i]
        /\ s[n + 1] = a
        /\ \A i \in n+2..n+m+1 : s[i] = post[i - n - 1]
    <3> DEFINE r == <<a>> \o post
    <3>1. s = pre \o r /\ r \in Seq(Ops) /\ Len(r) = m + 1
      BY <2>2, <2>6 DEF a
    <3>2. r[1] = a /\ \A i \in 2..m+1 : r[i] = post[i - 1]
      BY <2>6
    <3> HIDE DEF r
    <3>3. /\ s \in Seq(Ops)
          /\ Len(s) = n + Len(r)
          /\ \A i \in 1..n + Len(r) : s[i] = IF i <= n THEN pre[i] ELSE r[i - n]
      BY <2>4, <3>1, ConcatProperties DEF n
    <3>4. Len(s) = n + m + 1 /\ \A i \in 1..n : s[i] = pre[i]
      BY <2>5, <3>1, <3>3
    <3>5. s[n + 1] = a
      <4>1. n + 1 \in 1..n + Len(r) /\ ~(n + 1 <= n) /\ (n + 1) - n = 1
        BY <2>5, <3>1
      <4>2. s[n + 1] = r[(n + 1) - n]
        BY <3>3, <4>1
      <4> QED
        BY <3>2, <4>1, <4>2
    <3>6. ASSUME NEW i \in n+2..n+m+1 PROVE s[i] = post[i - n - 1]
      <4>1. i \in 1..n + Len(r) /\ ~(i <= n) /\ i - n \in 2..m+1 /\ (i - n) - 1 = i - n - 1
        BY <2>5, <3>1
      <4> QED
        BY <3>2, <3>3, <4>1
    <3> QED
      BY <3>3, <3>4, <3>5, <3>6
  <2>8. \A i \in 1..n : s[i].op = "checkpoint" /\ s[i].checkpoint \in OwnCheckpoints
    <3>1. \A i \in 1..n : s[i] \in FlushQuiet
      BY <2>2, <2>7, ElementOfSeq DEF n
    <3> QED
      BY <3>1 DEF FlushQuiet, QuietOps
  <2>9. \A i \in n+2..n+m+1 :
          /\ s[i].op # "append"
          /\ s[i].op = "checkpoint" => s[i].checkpoint \in OwnCheckpoints
          /\ s[i].op = "artifact" /\ s[i].artifact.committed => s[i].artifact.turn = t
    <3>1. \A i \in 1..m : post[i] \in QuietOf(t)
      BY <2>2, ElementOfSeq DEF m
    <3>2. \A i \in n+2..n+m+1 : s[i] \in QuietOf(t)
      BY <2>5, <2>7, <3>1
    <3> QED
      BY <3>2 DEF QuietOf, QuietOps
  <2>10. \A i \in 1..Len(s) : i <= n \/ i = n + 1 \/ i \in n+2..n+m+1
    BY <2>5, <2>7
  <2>11. OneAppend(s)
    <3>1. \A i \in 1..Len(s) : s[i].op = "append" <=> i = n + 1
      <4> SUFFICES ASSUME NEW i \in 1..Len(s)
                   PROVE  s[i].op = "append" <=> i = n + 1
        OBVIOUS
      <4>1. CASE i <= n
        <5>1. i \in 1..n /\ i # n + 1
          BY <2>5, <4>1
        <5> QED
          BY <2>8, <5>1
      <4>2. CASE i = n + 1
        BY <2>3, <2>7, <4>2
      <4>3. CASE i \in n+2..n+m+1
        <5>1. i # n + 1
          BY <2>5, <4>3
        <5> QED
          BY <2>9, <4>3, <5>1
      <4> QED
        BY <2>10, <4>1, <4>2, <4>3
    <3>2. \A j \in 1..Len(s) : j < n + 1 => s[j].op = "checkpoint"
      BY <2>5, <2>7, <2>8
    <3>3. s[n + 1].group \in OwnGroups /\ s[n + 1].group.end = "whole"
      BY <2>2, <2>3, <2>7
    <3> QED
      BY <3>1, <3>2, <3>3 DEF OneAppend
  <2>12. OwnCheckpointsOnly(s)
    <3> SUFFICES ASSUME NEW i \in 1..Len(s), s[i].op = "checkpoint"
                 PROVE  s[i].checkpoint \in OwnCheckpoints
      BY DEF OwnCheckpointsOnly
    <3>1. i # n + 1
      BY <2>3, <2>7
    <3> QED
      BY <2>5, <2>8, <2>9, <2>10, <3>1
  <2>13. EventsFirst(s)
    <3> SUFFICES ASSUME NEW i \in 1..Len(s), s[i].op = "artifact", s[i].artifact.committed
                 PROVE  \E j \in 1..Len(s) :
                          /\ s[j].op = "append"
                          /\ s[j].group.turn = s[i].artifact.turn
                          /\ s[j].group.kind = "interrupted"
      BY DEF EventsFirst
    <3>1. i \in n+2..n+m+1
      <4>1. i # n + 1
        BY <2>3, <2>7
      <4>2. ~(i <= n)
        BY <2>5, <2>8
      <4> QED
        BY <2>10, <4>1, <4>2
    <3>2. s[i].artifact.turn = t
      BY <2>9, <3>1
    <3>3. post \notin Seq(PlainOps)
      <4> SUFFICES ASSUME post \in Seq(PlainOps) PROVE FALSE
        OBVIOUS
      <4>1. i - n - 1 \in 1..Len(post)
        BY <2>5, <3>1 DEF m
      <4>2. s[i] \in PlainOps
        BY <2>7, <3>1, <4>1, ElementOfSeq
      <4> QED
        BY <4>2 DEF PlainOps
    <3>4. g.kind = "interrupted"
      BY <2>2, <3>3
    <3>5. n + 1 \in 1..Len(s)
      BY <2>5, <2>7
    <3> QED
      BY <2>2, <2>3, <2>7, <3>2, <3>4, <3>5
  <2>14. \A i \in 1..Len(s) : s[i].op = "append" => s[i].group.turn = t
    <3> SUFFICES ASSUME NEW i \in 1..Len(s), s[i].op = "append" PROVE s[i].group.turn = t
      OBVIOUS
    <3>1. ~(i <= n)
      BY <2>5, <2>8
    <3>2. i = n + 1
      BY <2>9, <2>10, <3>1
    <3> QED
      BY <2>2, <2>3, <2>7, <3>2
  <2> QED
    BY <2>1, <2>7, <2>11, <2>12, <2>13, <2>14
<1> QED
  BY <1>1, <1>2

-----------------------------------------------------------------------------
(* One file operation. *)

LEMMA LogGrows ==
  ASSUME log \in Seq(Groups), NEW g \in Groups, log' = Append(log, g)
  PROVE  /\ log' \in Seq(Groups)
         /\ Len(log') = Len(log) + 1 /\ Len(log) \in Nat
         /\ \A i \in 1..Len(log) : log'[i] = log[i]
         /\ log'[Len(log) + 1] = g
BY AppendProperties, LenProperties

LEMMA BackedStays ==
  ASSUME log \in Seq(Groups), NEW g \in Groups, log' = log \/ log' = Append(log, g)
  PROVE  \A t : Backed(t) => Backed(t)'
<1> SUFFICES ASSUME NEW t, Backed(t), log' = Append(log, g) PROVE Backed(t)'
  BY DEF Backed, EntriesOf
<1>1. PICK i \in EntriesOf(t, "interrupted") : log[i].end = "whole"
  BY DEF Backed
<1>2. i \in 1..Len(log) /\ DOMAIN log' = 1..Len(log')
  BY LogGrows, LenProperties DEF EntriesOf
<1>3. i \in DOMAIN log' /\ log'[i] = log[i]
  BY <1>2, LogGrows
<1> QED
  BY <1>1, <1>3 DEF Backed, EntriesOf

LEMMA ScriptHead ==
  ASSUME TypeOK, ~Settled
  PROVE  /\ Len(script) \in Nat \ {0}
         /\ Head(script) = script[1] /\ Head(script) \in Ops
         /\ Tail(script) \in Seq(Ops)
         /\ Len(Tail(script)) = Len(script) - 1
         /\ \A i \in 1..Len(Tail(script)) : Tail(script)[i] = script[i + 1]
<1>1. script \in Seq(Ops) /\ script # <<>>
  BY DEF TypeOK, Settled
<1> QED
  BY <1>1, HeadTailProperties, EmptySeq

LEMMA DiskStepTyped ==
  ASSUME TypeOK, DiskStep PROVE TypeOK'
<1>1. DiskOK'
  BY PerformOK, ScriptHead DEF TypeOK, DiskOK, DiskStep
<1>2. script' \in Seq(Ops)
  BY ScriptHead DEF DiskStep
<1>3. phase' \in [Turns -> Phases]
  BY DEF DiskStep, TypeOK, Phases, Ended
<1>4. excused' \subseteq Effects
  BY DEF DiskStep, TypeOK
<1>5. UNCHANGED <<turnVars, coordinator, refused>>
  BY DEF DiskStep
<1> QED
  BY <1>1, <1>2, <1>3, <1>4, <1>5 DEF TypeOK, DiskOK, turnVars, coordinator

LEMMA DiskStepKeeps ==
  ASSUME Inv, DiskStep PROVE Inv'
<1> DEFINE h == Head(script)
<1>1. TypeOK /\ TypeOK' /\ log \in Seq(Groups) /\ log' \in Seq(Groups)
  BY DiskStepTyped DEF Inv, TypeOK
<1>2. /\ Len(script) \in Nat \ {0}
      /\ h = script[1] /\ h \in Ops
      /\ Len(script') = Len(script) - 1
      /\ \A i \in 1..Len(script') : script'[i] = script[i + 1]
      /\ script' \in Seq(Ops)
  BY <1>1, ScriptHead DEF DiskStep
<1>3. Perform(h) /\ UNCHANGED <<turnVars, coordinator>>
  BY DEF DiskStep
<1> HIDE DEF h
<1>4. /\ OwnGroups' = OwnGroups /\ OwnCheckpoints' = OwnCheckpoints
      /\ base' = base /\ queued' = queued
  BY <1>3 DEF turnVars, coordinator, OwnGroups, OwnCheckpoints, Claims
<1>5. \A t \in Turns : phase'[t] = phase[t] \/ (phase'[t] = "done" /\ phase[t] = "ending")
  BY <1>1 DEF DiskStep, TypeOK
<1>6. Len(script) # 1 => phase' = phase
  BY <1>1 DEF DiskStep, TypeOK
<1>7. /\ OneAppend(script) /\ OwnCheckpointsOnly(script) /\ OnBaseline(script)
      /\ EventsFirst(script)
  BY DEF Inv, ScriptOK
<1>8. /\ h.op = "append" => h.group \in Groups /\ log' = Append(log, h.group)
      /\ h.op # "append" => log' = log
  BY <1>2, <1>3, OpFacts DEF Perform
<1>9. \A t : Backed(t) => Backed(t)'
  BY <1>1, <1>8, BackedStays DEF Backed, EntriesOf
<1>10. OneTurn'
  BY <1>5 DEF Inv, OneTurn, Ended
<1>11. Baseline'
  <2>1. Len(log) \in Nat /\ Len(log') \in Nat /\ Len(log) <= Len(log')
    BY <1>1, <1>8, LogGrows, LenProperties
  <2>2. \A t \in Turns : base[t] \in Nat
    BY <1>1 DEF TypeOK
  <2> QED
    BY <1>4, <1>5, <2>1, <2>2 DEF Inv, Baseline, Live
<1>12. ClaimsOK'
  <2>1. \A i \in 1..Len(log') : log'[i] \in OwnGroups
    <3>1. CASE h.op = "append"
      <4>1. h.group \in OwnGroups
        BY <1>2, <1>7, <3>1 DEF OneAppend
      <4> QED
        BY <1>1, <1>8, <3>1, <4>1, LogGrows DEF Inv, ClaimsOK
    <3>2. CASE h.op # "append"
      BY <1>8, <3>2 DEF Inv, ClaimsOK
    <3> QED
      BY <3>1, <3>2
  <2>2. \A i \in 1..Len(checkpoints') : checkpoints'[i] \in OwnCheckpoints
    <3>1. CASE h.op = "checkpoint"
      <4>1. h.checkpoint \in OwnCheckpoints /\ checkpoints' = Append(checkpoints, h.checkpoint)
        BY <1>2, <1>3, <1>7, <3>1 DEF OwnCheckpointsOnly, Perform
      <4>2. checkpoints \in Seq(Checkpoints) /\ h.checkpoint \in Checkpoints
        BY <1>1, <4>1 DEF TypeOK, OwnCheckpoints
      <4>3. /\ Len(checkpoints') = Len(checkpoints) + 1 /\ Len(checkpoints) \in Nat
            /\ \A i \in 1..Len(checkpoints) : checkpoints'[i] = checkpoints[i]
            /\ checkpoints'[Len(checkpoints) + 1] = h.checkpoint
        BY <4>1, <4>2, AppendProperties, LenProperties
      <4> QED
        BY <4>1, <4>3 DEF Inv, ClaimsOK
    <3>2. CASE h.op = "rmCheckpoints"
      BY <1>3, <3>2 DEF Perform
    <3>3. CASE h.op \notin {"checkpoint", "rmCheckpoints"}
      BY <1>3, <3>3 DEF Perform, Inv, ClaimsOK
    <3> QED
      BY <3>1, <3>2, <3>3
  <2>3. QueueOwn'
    BY <1>4 DEF Inv, ClaimsOK, QueueOwn
  <2> QED
    BY <1>4, <2>1, <2>2, <2>3 DEF ClaimsOK
<1>13. ScriptOK'
  <2>1. \A i \in 1..Len(script') : i + 1 \in 1..Len(script) /\ script'[i] = script[i + 1]
    BY <1>2
  <2>2. OneAppend(script)'
    BY <1>4, <1>7, <2>1 DEF OneAppend
  <2>3. OwnCheckpointsOnly(script)'
    BY <1>4, <1>7, <2>1 DEF OwnCheckpointsOnly
  <2>4. OnBaseline(script)'
    <3> SUFFICES ASSUME NEW i \in 1..Len(script'), script'[i].op = "append"
                 PROVE  IF script'[i].group.turn = None
                        THEN \A u \in Turns : phase'[u] # "ending"
                        ELSE /\ phase'[script'[i].group.turn] = "ending"
                             /\ base'[script'[i].group.turn] = Len(log')
      BY DEF OnBaseline
    <3>1. script[i + 1].op = "append" /\ script[1].op = "checkpoint"
      <4>1. 1 \in 1..Len(script) /\ 1 < i + 1
        BY <1>2
      <4> QED
        BY <1>7, <2>1, <4>1 DEF OneAppend
    <3>2. log' = log /\ phase' = phase
      BY <1>2, <1>6, <1>8, <3>1
    <3> QED
      BY <1>4, <1>7, <2>1, <3>1, <3>2 DEF OnBaseline
  <2>5. EventsFirst(script)'
    <3> SUFFICES ASSUME NEW i \in 1..Len(script'),
                        script'[i].op = "artifact", script'[i].artifact.committed,
                        NEW u, u = script'[i].artifact.turn
                 PROVE  \/ Backed(u)'
                        \/ \E j \in 1..Len(script') :
                             /\ script'[j].op = "append"
                             /\ script'[j].group.turn = u
                             /\ script'[j].group.kind = "interrupted"
      BY DEF EventsFirst, Backed, EntriesOf
    <3>1. script'[i] = script[i + 1] /\ script[i + 1].artifact.turn = u
      BY <2>1
    <3>2. \/ Backed(u)
          \/ \E j \in 1..Len(script) :
               /\ script[j].op = "append"
               /\ script[j].group.turn = u
               /\ script[j].group.kind = "interrupted"
      BY <1>7, <2>1, <3>1 DEF EventsFirst
    <3>3. CASE Backed(u)
      BY <1>9, <3>3
    <3>4. ASSUME NEW j \in 1..Len(script), script[j].op = "append",
                 script[j].group.turn = u, script[j].group.kind = "interrupted"
          PROVE  \/ Backed(u)'
                 \/ \E k \in 1..Len(script') :
                      /\ script'[k].op = "append"
                      /\ script'[k].group.turn = u
                      /\ script'[k].group.kind = "interrupted"
      <4>1. CASE j = 1
        <5>1. log' = Append(log, h.group) /\ h.group \in Groups
          BY <1>2, <1>8, <3>4, <4>1
        <5>2. h.group.turn = u /\ h.group.kind = "interrupted" /\ h.group.end = "whole"
          BY <1>2, <1>7, <3>4, <4>1 DEF OneAppend
        <5>3. Len(log) + 1 \in DOMAIN log' /\ log'[Len(log) + 1] = h.group
          BY <1>1, <5>1, LogGrows, LenProperties
        <5> QED
          BY <5>2, <5>3 DEF Backed, EntriesOf
      <4>2. CASE j # 1
        <5>1. j - 1 \in 1..Len(script') /\ script'[j - 1] = script[j]
          BY <1>2, <4>2
        <5> QED
          BY <3>4, <5>1
      <4> QED
        BY <4>1, <4>2
    <3> QED
      BY <3>2, <3>3, <3>4
  <2>6. script' = <<>> => \A t \in Turns : phase'[t] # "ending"
    <3> SUFFICES ASSUME script' = <<>> PROVE \A t \in Turns : phase'[t] # "ending"
      OBVIOUS
    <3>1. Len(script) = 1
      BY <1>2
    <3> QED
      BY <1>1, <3>1 DEF DiskStep, TypeOK
  <2> QED
    BY <2>2, <2>3, <2>4, <2>5, <2>6 DEF ScriptOK
<1>14. ArtifactIsProven'
  <2> SUFFICES ASSUME artifact' # None, artifact'.committed, NEW u, u = artifact'.turn
               PROVE  Backed(u)'
    BY DEF ArtifactIsProven, Backed, EntriesOf
  <2>1. CASE h.op = "artifact"
    <3>1. artifact' = h.artifact
      BY <1>3, <2>1 DEF Perform
    <3>2. Backed(u) \/ \E j \in 1..Len(script) : script[j].op = "append"
      BY <1>2, <1>7, <2>1, <3>1 DEF EventsFirst
    <3>3. ASSUME NEW j \in 1..Len(script), script[j].op = "append" PROVE FALSE
      <4>1. 1 \in 1..Len(script) /\ j # 1 /\ 1 < j
        BY <1>2, <2>1, <3>3
      <4> QED
        BY <1>2, <1>7, <2>1, <3>3, <4>1 DEF OneAppend
    <3> QED
      BY <1>9, <3>2, <3>3
  <2>2. CASE h.op # "artifact"
    <3>1. artifact' = artifact \/ artifact' = None
      BY <1>3, <2>2 DEF Perform
    <3>2. Backed(u)
      BY <3>1 DEF Inv, ArtifactIsProven, Backed
    <3> QED
      BY <1>9, <3>2
  <2> QED
    BY <2>1, <2>2
<1>15. ToolBound'
  BY <1>3, <1>5 DEF Inv, ToolBound, turnVars
<1> QED
  BY <1>1, <1>10, <1>11, <1>12, <1>13, <1>14, <1>15 DEF Inv

-----------------------------------------------------------------------------
(* Steps of the running code.  All of them start with an empty script. *)

LEMMA Idle ==
  ASSUME Inv, Settled PROVE script = <<>> /\ \A t \in Turns : phase[t] # "ending"
BY DEF Inv, ScriptOK, Settled

\* A step that leaves a script behind.
LEMMA Scripted ==
  ASSUME Inv, UNCHANGED <<disk, steps, patches>>,
         TypeOK', OneTurn', Baseline', ToolBound', QueueOwn',
         OneAppend(script'), OwnCheckpointsOnly(script'), EventsFirst(script'),
         OnBaseline(script)',
         script' = <<>> => \A t \in Turns : phase'[t] # "ending"
  PROVE  Inv'
<1>1. OwnGroups' = OwnGroups /\ OwnCheckpoints' = OwnCheckpoints
  BY DEF OwnGroups, OwnCheckpoints, Claims
<1>2. ClaimsOK'
  BY <1>1 DEF Inv, ClaimsOK, disk
<1>3. ArtifactIsProven'
  BY DEF Inv, ArtifactIsProven, EntriesOf, disk
<1>4. OneAppend(script)' /\ OwnCheckpointsOnly(script)'
  BY <1>1 DEF OneAppend, OwnCheckpointsOnly
<1>5. EventsFirst(script)'
  BY DEF EventsFirst, Backed, EntriesOf, disk
<1> QED
  BY <1>2, <1>3, <1>4, <1>5 DEF Inv, ScriptOK

\* A step that touches memory only.
LEMMA MemoryOnly ==
  ASSUME Inv, Settled, UNCHANGED <<disk, script>>,
         TypeOK', OneTurn', Baseline', ToolBound', QueueOwn',
         \A t \in Turns : steps[t] <= steps'[t] /\ patches[t] <= patches'[t],
         \A t \in Turns : phase'[t] # "ending"
  PROVE  Inv'
<1>1. script' = <<>> /\ 1..Len(script') = {}
  BY Idle
<1>2. \A t \in Turns : /\ steps[t] \in Nat /\ steps'[t] \in Nat
                       /\ patches[t] \in Nat /\ patches'[t] \in Nat
  BY DEF Inv, TypeOK
<1>3. OwnGroups \subseteq OwnGroups'
  <2> SUFFICES ASSUME NEW g \in OwnGroups, g.turn # None PROVE Claims(g)'
    BY DEF OwnGroups
  <2>1. g.turn \in Turns /\ g.upto \in Nat /\ g.patches \in Nat /\ Claims(g)
    BY DEF OwnGroups, Groups
  <2> QED
    BY <1>2, <2>1 DEF Claims
<1>4. OwnCheckpoints \subseteq OwnCheckpoints'
  <2> SUFFICES ASSUME NEW c \in OwnCheckpoints PROVE Claims(c)'
    BY DEF OwnCheckpoints
  <2>1. c.turn \in Turns /\ c.upto \in Nat /\ c.patches \in Nat /\ Claims(c)
    BY DEF OwnCheckpoints, Checkpoints
  <2> QED
    BY <1>2, <2>1 DEF Claims
<1>5. ClaimsOK'
  BY <1>3, <1>4 DEF Inv, ClaimsOK, QueueOwn, disk
<1>6. ArtifactIsProven'
  BY DEF Inv, ArtifactIsProven, EntriesOf, disk
<1>7. ScriptOK'
  BY <1>1 DEF ScriptOK, OneAppend, OwnCheckpointsOnly, OnBaseline, EventsFirst
<1> QED
  BY <1>5, <1>6, <1>7 DEF Inv

\* Nothing is lost when a turn's numbers stay as they are.
LEMMA Monotone ==
  ASSUME TypeOK, UNCHANGED <<steps, patches>>
  PROVE  \A t \in Turns : steps[t] <= steps'[t] /\ patches[t] <= patches'[t]
BY DEF TypeOK

LEMMA StartKeeps == ASSUME Inv, NEW t \in Turns, Start(t) PROVE Inv'
<1>1. TypeOK'
  BY DEF Inv, TypeOK, Start, disk, coordinator, Phases, Ended, Live, Artifacts
<1>2. OneTurn' /\ Baseline' /\ ToolBound'
  BY DEF Inv, TypeOK, Start, OneTurn, Baseline, ToolBound, Live, disk
<1>3. QueueOwn'
  BY DEF Inv, ClaimsOK, QueueOwn, Start, coordinator, OwnCheckpoints, Claims
<1>4. \A u \in Turns : steps[u] <= steps'[u] /\ patches[u] <= patches'[u]
  BY Monotone DEF Start, Inv
<1>5. \A u \in Turns : phase'[u] # "ending"
  BY Idle DEF Start, Inv, TypeOK
<1>6. Settled /\ UNCHANGED <<disk, script>>
  BY DEF Start
<1> QED
  BY <1>1, <1>2, <1>3, <1>4, <1>5, <1>6, MemoryOnly

LEMMA AssemblyFailsKeeps == ASSUME Inv, NEW t \in Turns, AssemblyFails(t) PROVE Inv'
<1>1. TypeOK'
  BY DEF Inv, TypeOK, AssemblyFails, disk, turnVars, coordinator, Phases, Ended
<1>2. OneTurn' /\ Baseline' /\ ToolBound'
  BY DEF Inv, TypeOK, AssemblyFails, OneTurn, Baseline, ToolBound, Live, Ended, disk, turnVars
<1>3. QueueOwn'
  BY DEF Inv, ClaimsOK, QueueOwn, AssemblyFails, coordinator, turnVars, OwnCheckpoints, Claims
<1>4. \A u \in Turns : steps[u] <= steps'[u] /\ patches[u] <= patches'[u]
  BY Monotone DEF AssemblyFails, Inv, turnVars
<1>5. \A u \in Turns : phase'[u] # "ending"
  BY Idle DEF AssemblyFails, Inv, TypeOK
<1>6. Settled /\ UNCHANGED <<disk, script>>
  BY DEF AssemblyFails
<1> QED
  BY <1>1, <1>2, <1>3, <1>4, <1>5, <1>6, MemoryOnly

LEMMA BeginTurnKeeps == ASSUME Inv, NEW t \in Turns, BeginTurn(t) PROVE Inv'
<1>1. /\ UNCHANGED <<disk, steps, patches>>
      /\ script' \in Seq(PlainOps) /\ script' # <<>>
  <2> DEFINE d == [op |-> "draft", draft |-> [turn |-> t, id |-> draftId[t]]]
  <2>1. d \in PlainOps
    BY OpIntro DEF Inv, TypeOK, Drafts, PlainOps, QuietOps
  <2>2. script' = <<d>> /\ UNCHANGED <<disk, steps, patches>>
    BY DEF BeginTurn
  <2> QED
    BY <2>1, <2>2
<1>2. /\ script' \in Seq(Ops)
      /\ OneAppend(script') /\ OwnCheckpointsOnly(script') /\ EventsFirst(script')
      /\ \A i \in 1..Len(script') : script'[i].op # "append"
  BY <1>1, PlainScript
<1>3. Len(log) \in Nat
  BY LenProperties DEF Inv, TypeOK
<1>4. TypeOK'
  BY <1>2, <1>3 DEF Inv, TypeOK, BeginTurn, disk, Phases, Live, ReadCount
<1>5. OneTurn' /\ ToolBound'
  BY DEF Inv, TypeOK, BeginTurn, OneTurn, ToolBound, Ended
<1>6. Baseline'
  BY <1>3 DEF Inv, TypeOK, BeginTurn, Baseline, Live, disk, ReadCount
<1>7. QueueOwn'
  BY DEF Inv, ClaimsOK, QueueOwn, BeginTurn, OwnCheckpoints, Claims
<1>8. OnBaseline(script)'
  BY <1>2 DEF OnBaseline
<1> QED
  BY <1>1, <1>2, <1>4, <1>5, <1>6, <1>7, <1>8, Scripted

LEMMA RecordPatchKeeps == ASSUME Inv, NEW t \in Turns, RecordPatch(t) PROVE Inv'
<1>1. /\ patches[t] \in Nat /\ patches[t] + 1 <= MaxPatches
      /\ patches' = [patches EXCEPT ![t] = @ + 1]
      /\ \A u \in Turns : patches[u] \in Nat
  BY BoundsAssumption DEF Inv, TypeOK, RecordPatch, AnotherPatch
<1>2. TypeOK'
  BY <1>1, BoundsAssumption DEF Inv, TypeOK, RecordPatch, disk, coordinator
<1>3. OneTurn' /\ Baseline' /\ ToolBound'
  BY DEF Inv, RecordPatch, OneTurn, Baseline, ToolBound, disk
<1>4. QueueOwn'
  BY <1>1 DEF Inv, ClaimsOK, QueueOwn, RecordPatch, coordinator, OwnCheckpoints, Checkpoints, Claims
<1>5. \A u \in Turns : steps[u] <= steps'[u] /\ patches[u] <= patches'[u]
  BY <1>1 DEF RecordPatch, Inv, TypeOK
<1>6. \A u \in Turns : phase'[u] # "ending"
  BY Idle DEF RecordPatch
<1>7. Settled /\ UNCHANGED <<disk, script>>
  BY DEF RecordPatch
<1> QED
  BY <1>2, <1>3, <1>4, <1>5, <1>6, <1>7, MemoryOnly

LEMMA ToolDoneKeeps ==
  ASSUME Inv, NEW t \in Turns, ToolDone(t) PROVE Inv'
<1>1. /\ steps[t] \in Nat /\ steps[t] + 1 <= MaxSteps
      /\ steps' = [steps EXCEPT ![t] = @ + 1]
      /\ \A u \in Turns : steps[u] \in Nat
  BY BoundsAssumption DEF Inv, TypeOK, ToolBound, ToolDone
<1>2. TypeOK'
  BY <1>1, BoundsAssumption DEF Inv, TypeOK, ToolDone, disk, coordinator, Phases, Live
<1>3. OneTurn' /\ Baseline' /\ ToolBound'
  BY DEF Inv, TypeOK, ToolDone, OneTurn, Baseline, ToolBound, disk, Live, Ended
<1>4. QueueOwn'
  BY <1>1 DEF Inv, ClaimsOK, QueueOwn, ToolDone, coordinator, OwnCheckpoints, Checkpoints, Claims
<1>5. \A u \in Turns : steps[u] <= steps'[u] /\ patches[u] <= patches'[u]
  BY <1>1 DEF ToolDone, Inv, TypeOK
<1>6. \A u \in Turns : phase'[u] # "ending"
  BY Idle DEF ToolDone, Inv, TypeOK
<1>7. Settled /\ UNCHANGED <<disk, script>>
  BY DEF ToolDone
<1> QED
  BY <1>2, <1>3, <1>4, <1>5, <1>6, <1>7, MemoryOnly

LEMMA EndBatchKeeps == ASSUME Inv, NEW t \in Turns, EndBatch(t) PROVE Inv'
<1> DEFINE c == [turn |-> t, id |-> IF draft = None THEN draftId[t] ELSE draft.id,
                 upto |-> steps[t], patches |-> patches[t]]
<1>1. c \in Checkpoints /\ c.turn = t /\ c.upto = steps[t] /\ c.patches = patches[t]
  BY DEF Inv, TypeOK, Checkpoints, Drafts
<1>2. queued' = [queued EXCEPT ![t] = c] /\ UNCHANGED <<steps, patches>>
  BY DEF EndBatch
<1> HIDE DEF c
<1>3. TypeOK'
  <2>1. TypeOK /\ UNCHANGED <<disk, script, base, draftId, seen, steps, patches, pending,
                              excused, refused>>
    BY DEF Inv, EndBatch
  <2>2. queued' \in [Turns -> Checkpoints \cup {None}]
    BY <1>1, <1>2, <2>1 DEF TypeOK
  <2>3. phase' \in [Turns -> Phases] /\ sealed' \in [Turns -> 0..MaxSteps]
    BY <2>1 DEF EndBatch, TypeOK, Phases, Live
  <2>4. timers' \subseteq Turns
    BY <2>1 DEF EndBatch, TypeOK
  <2> QED
    BY <2>1, <2>2, <2>3, <2>4 DEF TypeOK, disk
<1>4. OneTurn' /\ Baseline' /\ ToolBound'
  BY DEF Inv, TypeOK, EndBatch, OneTurn, Baseline, ToolBound, disk, Live, Ended
<1>5. c \in OwnCheckpoints'
  BY <1>1, <1>2 DEF Inv, TypeOK, OwnCheckpoints, Claims
<1>6. QueueOwn'
  <2>1. OwnCheckpoints' = OwnCheckpoints
    BY <1>2 DEF OwnCheckpoints, Claims
  <2> QED
    BY <1>1, <1>2, <1>5, <2>1 DEF Inv, TypeOK, ClaimsOK, QueueOwn
<1>7. \A u \in Turns : phase'[u] # "ending"
  BY Idle DEF EndBatch, Inv, TypeOK
<1>8. Settled /\ UNCHANGED <<disk, script>>
  BY DEF EndBatch
<1>9. \A u \in Turns : steps[u] <= steps'[u] /\ patches[u] <= patches'[u]
  BY <1>2, Monotone DEF Inv
<1> QED
  BY <1>3, <1>4, <1>6, <1>7, <1>8, <1>9, MemoryOnly

-----------------------------------------------------------------------------
(* Steps that leave file operations behind. *)

LEMMA FlushedOK ==
  ASSUME TypeOK, QueueOwn, NEW t \in Turns, Flushed(t), UNCHANGED <<steps, patches>>
  PROVE  /\ queued' \in [Turns -> Checkpoints \cup {None}]
         /\ timers' \subseteq Turns
         /\ QueueOwn'
<1>1. queued' \in [Turns -> Checkpoints \cup {None}] /\ timers' \subseteq Turns
  BY DEF TypeOK, Flushed
<1>2. \A u \in Turns : queued'[u] = queued[u] \/ queued'[u] = None
  BY DEF TypeOK, Flushed
<1>3. OwnCheckpoints' = OwnCheckpoints
  BY DEF OwnCheckpoints, Claims
<1> QED
  BY <1>1, <1>2, <1>3 DEF QueueOwn

LEMMA FlushScript ==
  ASSUME QueueOwn, NEW t \in Turns
  PROVE  /\ FlushOps(t) \in Seq(Ops) /\ FlushOps(t) \in Seq(PlainOps)
         /\ OneAppend(FlushOps(t)) /\ OwnCheckpointsOnly(FlushOps(t))
         /\ EventsFirst(FlushOps(t))
         /\ \A i \in 1..Len(FlushOps(t)) : FlushOps(t)[i].op # "append"
<1>1. FlushOps(t) \in Seq(PlainOps)
  BY FlushOpsOK, QuietFacts, SeqMonotonic
<1> QED
  BY <1>1, PlainScript

LEMMA TimerFiresKeeps == ASSUME Inv, NEW t \in Turns, TimerFires(t) PROVE Inv'
<1>1. /\ TypeOK /\ QueueOwn /\ Settled
      /\ UNCHANGED <<disk, phase, turnVars, pending, excused, refused>>
  BY DEF TimerFires, Inv, ClaimsOK
<1>2. UNCHANGED <<steps, patches>>
  BY <1>1 DEF turnVars
<1>3. OneTurn' /\ Baseline' /\ ToolBound'
  BY <1>1 DEF Inv, OneTurn, Baseline, ToolBound, disk, turnVars
<1>4. \A u \in Turns : phase'[u] # "ending"
  BY <1>1, Idle
<1>5. CASE Flushable(t)
  <2>1. script' = FlushOps(t) /\ Flushed(t)
    BY <1>5 DEF TimerFires
  <2>2. /\ queued' \in [Turns -> Checkpoints \cup {None}]
        /\ timers' \subseteq Turns /\ QueueOwn'
    BY <1>1, <1>2, <2>1, FlushedOK
  <2>3. TypeOK'
    BY <1>1, <2>1, <2>2, FlushScript DEF TypeOK, disk, turnVars
  <2>4. OnBaseline(script)'
    BY <1>1, <2>1, FlushScript DEF OnBaseline
  <2> QED
    BY <1>1, <1>2, <1>3, <1>4, <2>1, <2>2, <2>3, <2>4, FlushScript, Scripted
<1>6. CASE ~Flushable(t)
  <2>1. timers' = timers \ {t} /\ UNCHANGED <<script, queued>>
    BY <1>6 DEF TimerFires
  <2>2. TypeOK'
    BY <1>1, <2>1 DEF TypeOK, disk, turnVars
  <2>3. QueueOwn'
    BY <1>1, <1>2, <2>1 DEF QueueOwn, OwnCheckpoints, Claims
  <2>4. \A u \in Turns : steps[u] <= steps'[u] /\ patches[u] <= patches'[u]
    BY <1>1, <1>2, Monotone
  <2> QED
    BY <1>1, <1>3, <1>4, <2>1, <2>2, <2>3, <2>4, MemoryOnly
<1> QED
  BY <1>5, <1>6

LEMMA LateWriteKeeps == ASSUME Inv, LateWrite PROVE Inv'
<1> DEFINE g == [turn |-> None, kind |-> "write", upto |-> 0, patches |-> 0, end |-> "whole"]
           w == [op |-> "append", group |-> g]
<1>1. /\ TypeOK /\ QueueOwn /\ Settled /\ script' = <<w>>
      /\ UNCHANGED <<disk, phase, turnVars, coordinator, excused, refused>>
  BY DEF LateWrite, Inv, ClaimsOK
<1>2. g \in OwnGroups
  BY BoundsAssumption DEF OwnGroups, Groups
<1>3. w \in Ops /\ w.op = "append" /\ w.group = g /\ g.turn = None /\ g.end = "whole"
  BY <1>2, OpIntro DEF OwnGroups
<1> HIDE DEF g, w
<1>4. script' \in Seq(Ops) /\ Len(script') = 1 /\ script'[1] = w
  BY <1>1, <1>3
<1>5. OneAppend(script') /\ OwnCheckpointsOnly(script') /\ EventsFirst(script')
  BY <1>2, <1>3, <1>4 DEF OneAppend, OwnCheckpointsOnly, EventsFirst
<1>6. \A u \in Turns : phase'[u] # "ending"
  BY <1>1, Idle
<1>7. OnBaseline(script)'
  BY <1>3, <1>4, <1>6 DEF OnBaseline
<1>8. TypeOK'
  BY <1>1, <1>4 DEF TypeOK, disk, turnVars, coordinator
<1>9. OneTurn' /\ Baseline' /\ ToolBound' /\ QueueOwn'
  BY <1>1 DEF Inv, OneTurn, Baseline, ToolBound, QueueOwn, OwnCheckpoints, Claims,
              disk, turnVars, coordinator
<1>10. UNCHANGED <<disk, steps, patches>>
  BY <1>1 DEF turnVars
<1> QED
  BY <1>5, <1>6, <1>7, <1>8, <1>9, <1>10, Scripted

\* A turn ends with a script of the right shape.
LEMMA EndsKeeps ==
  ASSUME Inv, Settled, NEW t \in Turns, phase[t] \in Live,
         UNCHANGED <<disk, turnVars, excused>>,
         refused' \subseteq Turns, timers' \subseteq Turns, pending' \subseteq Turns,
         queued' \in [Turns -> Checkpoints \cup {None}], QueueOwn',
         Ends(t, script'), Shape(script', t)
  PROVE  Inv'
<1>1. TypeOK /\ UNCHANGED <<disk, steps, patches, base>>
  BY DEF Inv, turnVars
<1>2. /\ script' \in Seq(Ops)
      /\ OneAppend(script') /\ OwnCheckpointsOnly(script') /\ EventsFirst(script')
      /\ \A i \in 1..Len(script') :
           script'[i].op = "append" => script'[i].group.turn = t /\ base[t] = Len(log)
  BY BoundsAssumption, ShapeOK
<1>3. phase' = [phase EXCEPT ![t] = IF script' = <<>> THEN "done" ELSE "ending"]
  BY DEF Ends
<1>4. TypeOK'
  BY <1>1, <1>2, <1>3 DEF TypeOK, disk, turnVars, Phases, Ended
<1>5. OneTurn' /\ ToolBound'
  BY <1>1, <1>3 DEF Inv, TypeOK, OneTurn, ToolBound, Ended, Live
<1>6. Baseline'
  BY <1>1, <1>3 DEF Inv, TypeOK, Baseline, Live, disk
<1>7. OnBaseline(script)'
  <2> SUFFICES ASSUME NEW i \in 1..Len(script'), script'[i].op = "append"
               PROVE  /\ script'[i].group.turn # None
                      /\ phase'[script'[i].group.turn] = "ending"
                      /\ base'[script'[i].group.turn] = Len(log')
    BY DEF OnBaseline
  <2>1. script' # <<>>
    OBVIOUS
  <2> QED
    BY <1>1, <1>2, <1>3, <2>1, BoundsAssumption DEF TypeOK, disk
<1>8. script' = <<>> => \A u \in Turns : phase'[u] # "ending"
  BY <1>1, <1>3, Idle DEF TypeOK
<1> QED
  BY <1>1, <1>2, <1>4, <1>5, <1>6, <1>7, <1>8, Scripted

LEMMA GivesUpKeeps ==
  ASSUME Inv, Settled, NEW t \in Turns, phase[t] \in Live, GivesUp(t),
         UNCHANGED <<disk, turnVars, excused>>, refused' \subseteq Turns
  PROVE  Inv'
<1>1. TypeOK /\ QueueOwn /\ UNCHANGED <<steps, patches, pending>>
  BY DEF Inv, ClaimsOK, turnVars, GivesUp
<1>2. CASE Flushable(t)
  <2>1. Ends(t, FlushOps(t)) /\ Flushed(t) /\ script' = FlushOps(t)
    BY <1>2 DEF GivesUp, Ends
  <2>2. Ends(t, script') /\ Shape(script', t)
    BY <1>1, <2>1, FlushScript DEF Shape
  <2>3. /\ queued' \in [Turns -> Checkpoints \cup {None}]
        /\ timers' \subseteq Turns /\ QueueOwn' /\ pending' \subseteq Turns
    BY <1>1, <2>1, FlushedOK DEF TypeOK
  <2> QED
    BY <2>2, <2>3, EndsKeeps
<1>3. CASE ~Flushable(t)
  <2>1. Ends(t, <<>>) /\ UNCHANGED <<queued, timers>> /\ script' = <<>>
    BY <1>3 DEF GivesUp, Ends
  <2>2. Ends(t, script') /\ Shape(script', t)
    BY <2>1 DEF Shape
  <2>3. /\ queued' \in [Turns -> Checkpoints \cup {None}]
        /\ timers' \subseteq Turns /\ QueueOwn' /\ pending' \subseteq Turns
    BY <1>1, <2>1 DEF TypeOK, QueueOwn, OwnCheckpoints, Claims
  <2> QED
    BY <2>2, <2>3, EndsKeeps
<1> QED
  BY <1>2, <1>3

LEMMA BeforeToolKeeps == ASSUME Inv, NEW t \in Turns, BeforeTool(t) PROVE Inv'
<1>1. /\ TypeOK /\ QueueOwn /\ Settled /\ phase[t] \in Live
      /\ UNCHANGED <<disk, turnVars, excused, refused, steps, patches>>
      /\ phase[t] \in {"thinking", "batch"} /\ steps[t] < MaxSteps
  BY DEF BeforeTool, AnotherStep, Inv, ClaimsOK, turnVars, Live
<1>2. CASE Flushable(t)
  <2>1. /\ script' = FlushOps(t) /\ Flushed(t)
        /\ phase' = [phase EXCEPT ![t] = "tool"]
        /\ UNCHANGED pending
    BY <1>2 DEF BeforeTool
  <2>2. /\ queued' \in [Turns -> Checkpoints \cup {None}]
        /\ timers' \subseteq Turns /\ QueueOwn'
    BY <1>1, <2>1, FlushedOK
  <2>3. TypeOK'
    BY <1>1, <2>1, <2>2, FlushScript DEF TypeOK, disk, turnVars, Phases, Live
  <2>4. OnBaseline(script)'
    BY <1>1, <2>1, FlushScript DEF OnBaseline
  <2>5. OneTurn' /\ Baseline' /\ ToolBound'
    BY <1>1, <2>1 DEF Inv, TypeOK, OneTurn, Baseline, ToolBound, Ended, Live, disk, turnVars
  <2>6. \A u \in Turns : phase'[u] # "ending"
    BY <1>1, <2>1, Idle DEF TypeOK
  <2> QED
    BY <1>1, <2>1, <2>2, <2>3, <2>4, <2>5, <2>6, FlushScript, Scripted
<1>3. CASE ~Flushable(t)
  BY <1>1, <1>3, GivesUpKeeps DEF BeforeTool, TypeOK
<1> QED
  BY <1>2, <1>3

-----------------------------------------------------------------------------
(* The end of a turn. *)

\* Without a conflict, nothing was appended since beginTurn counted.
LEMMA NoConflict ==
  ASSUME TypeOK, Baseline, NEW t \in Turns, phase[t] \in Live, ~Conflict(t)
  PROVE  base[t] = Len(log)
<1>1. Len(log) \in Nat /\ base[t] \in Nat /\ base[t] <= Len(log)
  BY LenProperties DEF TypeOK, Baseline
<1>2. Cardinality(TornGroups) \in Nat
  <2>1. TornGroups \in SUBSET (1..Len(log))
    BY LenProperties DEF TornGroups, TypeOK
  <2>2. IsFiniteSet(1..Len(log))
    <3>1. 1 \in Int /\ Len(log) \in Int
      BY <1>1
    <3> QED
      BY <3>1, FS_Interval
  <2>3. IsFiniteSet(TornGroups)
    BY <2>1, <2>2, FS_Subset
  <2> QED
    BY <2>3, FS_CardinalityType
<1>3. Len(log) + Cardinality(TornGroups) = base[t]
  BY DEF Conflict, FileCount
<1> QED
  BY <1>1, <1>2, <1>3

\* What a turn may be committed up to.
LEMMA EntryOK ==
  ASSUME TypeOK, NEW t \in Turns, NEW kind \in {"complete", "interrupted"},
         NEW n \in 0..MaxSteps, n <= steps[t]
  PROVE  \E g \in OwnGroups : /\ Entry(t, kind, n) = [op |-> "append", group |-> g]
                              /\ g.turn = t /\ g.kind = kind /\ g.end = "whole"
<1> DEFINE g == [turn |-> t, kind |-> kind, upto |-> n, patches |-> patches[t],
                 end |-> "whole"]
<1>1. patches[t] \in 0..MaxPatches
  BY DEF TypeOK
<1>2. g \in Groups
  BY <1>1 DEF Groups
<1>3. Claims(g)
  BY <1>1, BoundsAssumption DEF Claims
<1>4. Entry(t, kind, n) = [op |-> "append", group |-> g]
  BY DEF Entry
<1>5. g.turn = t /\ g.kind = kind /\ g.end = "whole"
  OBVIOUS
<1> QED
  BY <1>2, <1>3, <1>4, <1>5 DEF OwnGroups

\* The safe point of a turn is one of its own checkpoints.
LEMMA SafePointOwn ==
  ASSUME TypeOK, ClaimsOK, NEW t \in Turns, SafePoint(t) # None
  PROVE  SafePoint(t).upto \in 0..MaxSteps /\ SafePoint(t).upto <= steps[t]
<1>1. SafePoint(t) \in OwnCheckpoints /\ SafePoint(t).turn = t
  BY SafePointOK DEF TypeOK, DiskOK, ClaimsOK, QueueOwn
<1> QED
  BY <1>1 DEF OwnCheckpoints, Checkpoints, Claims

LEMMA CompleteScript ==
  ASSUME TypeOK, Baseline, QueueOwn, NEW t \in Turns, phase[t] \in Live, ~Conflict(t)
  PROVE  Shape(FlushOps(t) \o <<Entry(t, "complete", steps[t])>>
                 \o ClearDraft \o RecoveryCleared(t), t)
<1>1. base[t] = Len(log)
  BY NoConflict
<1>2. PICK g \in OwnGroups :
        /\ Entry(t, "complete", steps[t]) = [op |-> "append", group |-> g]
        /\ g.turn = t /\ g.end = "whole"
  <2>1. steps[t] \in 0..MaxSteps /\ steps[t] <= steps[t]
    BY BoundsAssumption DEF TypeOK
  <2> QED
    BY <2>1, EntryOK
<1> DEFINE F == FlushOps(t)
           E == <<[op |-> "append", group |-> g]>>
           C == ClearDraft
           R == RecoveryCleared(t)
<1>3. F \in Seq(FlushQuiet) /\ C \in Seq(PlainOps) /\ R \in Seq(PlainOps)
  BY FlushOpsOK, ClearDraftOK, RecoveryClearedOK
<1>4. F \in Seq(Ops) /\ E \in Seq(Ops) /\ C \in Seq(Ops) /\ R \in Seq(Ops)
  <2>1. E \in Seq(Ops)
    BY OpIntro DEF OwnGroups
  <2>2. FlushQuiet \subseteq Ops /\ PlainOps \subseteq Ops
    BY QuietFacts
  <2> HIDE DEF F, C, R
  <2> QED
    BY <1>3, <2>1, <2>2, SeqMonotonic
<1>5. C \o R \in Seq(PlainOps) /\ C \o R \in Seq(QuietOf(t))
  <2>1. C \o R \in Seq(PlainOps)
    BY <1>3, ConcatProperties
  <2>2. PlainOps \subseteq QuietOf(t)
    BY DEF PlainOps, QuietOf
  <2> QED
    BY <2>1, <2>2, SeqMonotonic
<1> HIDE DEF F, E, C, R
<1>6. ((F \o E) \o C) \o R = F \o (E \o (C \o R))
  <2> DEFINE P == F \o E
             Y == C \o R
  <2>1. P \in Seq(Ops) /\ Y \in Seq(Ops)
    BY <1>4, ConcatProperties
  <2> HIDE DEF P
  <2>2. (P \o C) \o R = P \o Y
    BY <1>4, <2>1, ConcatAssociative
  <2> HIDE DEF Y
  <2>3. (F \o E) \o Y = F \o (E \o Y)
    BY <1>4, <2>1, ConcatAssociative
  <2> QED
    BY <2>2, <2>3 DEF P, Y
<1>7. Shape(F \o (E \o (C \o R)), t)
  BY <1>1, <1>2, <1>3, <1>5 DEF Shape, E
<1> QED
  BY <1>2, <1>6, <1>7 DEF F, E, C, R

\* InterruptOps is its entry, if any, and the remainder.
LEMMA InterruptSplit ==
  ASSUME NEW t \in Turns, draftId[t] \in Turns, NEW kept, NEW e \in SUBSET Effects,
         NEW entry \in Seq(Ops)
  PROVE  /\ InterruptOps(t, kept, entry, e) = entry \o Remainder(t, kept, e)
         /\ Remainder(t, kept, e) \in Seq(Ops)
<1> DEFINE A == <<[op |-> "artifact",
                  artifact |-> [turn |-> t, id |-> draftId[t], committed |-> kept # None]]>>
           L == IF e = {} THEN <<>> ELSE <<[op |-> "ledger", effects |-> e]>>
           C == ClearDraft
           X == entry
<1>1. A \in Seq(Ops) /\ L \in Seq(Ops) /\ C \in Seq(Ops) /\ X \in Seq(Ops)
  <2>1. A \in Seq(Ops)
    <3>1. [turn |-> t, id |-> draftId[t], committed |-> kept # None] \in Artifacts
      BY DEF Artifacts
    <3> QED
      BY <3>1, OpIntro
  <2>2. L \in Seq(Ops)
    BY OpIntro
  <2>3. C \in Seq(Ops)
    BY QuietFacts, ClearDraftOK, SeqMonotonic
  <2> QED
    BY <2>1, <2>2, <2>3
<1>2. InterruptOps(t, kept, entry, e) = (((X \o C) \o A) \o L) \o C
  BY DEF InterruptOps
<1>3. Remainder(t, kept, e) = ((C \o A) \o L) \o C
  BY DEF Remainder
<1> HIDE DEF A, L, C, X
<1>4. /\ C \o A \in Seq(Ops) /\ (C \o A) \o L \in Seq(Ops)
      /\ ((C \o A) \o L) \o C \in Seq(Ops)
  <2>1. C \o A \in Seq(Ops)
    BY <1>1, ConcatProperties
  <2>2. (C \o A) \o L \in Seq(Ops)
    BY <1>1, <2>1, ConcatProperties
  <2> QED
    BY <1>1, <2>1, <2>2, ConcatProperties
<1>5. ((X \o C) \o A) \o L = X \o ((C \o A) \o L)
  <2> DEFINE Y == C \o A
  <2>1. (X \o C) \o A = X \o Y
    BY <1>1, ConcatAssociative
  <2>2. X \in Seq(Ops) /\ Y \in Seq(Ops) /\ L \in Seq(Ops)
    BY <1>1, <1>4
  <2> HIDE DEF Y
  <2>3. (X \o Y) \o L = X \o (Y \o L)
    BY <2>2, ConcatAssociative
  <2>4. ((X \o C) \o A) \o L = X \o (Y \o L)
    BY <2>1, <2>3
  <2> QED
    BY <2>4 DEF Y
<1>6. (X \o ((C \o A) \o L)) \o C = X \o (((C \o A) \o L) \o C)
  <2> DEFINE Y == (C \o A) \o L
  <2>1. Y \in Seq(Ops)
    BY <1>4
  <2> HIDE DEF Y
  <2>2. (X \o Y) \o C = X \o (Y \o C)
    BY <1>1, <2>1, ConcatAssociative
  <2> QED
    BY <2>2 DEF Y
<1> QED
  BY <1>2, <1>3, <1>4, <1>5, <1>6 DEF X

LEMMA FinalizeKeeps ==
  ASSUME Inv, Settled, NEW t \in Turns, phase[t] \in Live, Finalize(t),
         UNCHANGED <<disk, turnVars, excused>>
  PROVE  Inv'
<1>1. TypeOK /\ ClaimsOK /\ QueueOwn /\ Baseline /\ UNCHANGED <<steps, patches>>
  BY DEF Inv, ClaimsOK, turnVars
<1> DEFINE kept == SafePoint(t)
           commits == kept # None \/ patches[t] > 0
           n == IF kept = None THEN 0 ELSE kept.upto
           e == {t} \X ((n + 1)..steps[t])
           entry == IF commits THEN <<Entry(t, "interrupted", n)>> ELSE <<>>
<1>2. n \in 0..MaxSteps /\ n <= steps[t]
  BY <1>1, SafePointOwn, BoundsAssumption DEF TypeOK
<1>3. e \in SUBSET Effects
  <2>1. (n + 1)..steps[t] \subseteq Steps
    BY <1>1, <1>2, BoundsAssumption DEF TypeOK, Steps
  <2> HIDE DEF n
  <2> QED
    BY <2>1 DEF Effects
<1>4. draftId[t] \in Turns
  BY <1>1 DEF TypeOK
<1>5. CASE commits /\ Conflict(t)
  <2>1. GivesUp(t) /\ refused' = refused \cup {t}
    BY <1>5 DEF Finalize
  <2> QED
    BY <1>1, <2>1, GivesUpKeeps DEF TypeOK
<1>6. CASE ~(commits /\ Conflict(t))
  <2>1. /\ refused' = refused /\ Flushed(t) /\ pending' = pending \ {t}
        /\ Ends(t, FlushOps(t) \o InterruptOps(t, kept, entry, e))
    BY <1>6 DEF Finalize
  <2>2. /\ queued' \in [Turns -> Checkpoints \cup {None}] /\ QueueOwn'
        /\ timers' \subseteq Turns /\ pending' \subseteq Turns /\ refused' \subseteq Turns
    BY <1>1, <2>1, FlushedOK DEF TypeOK
  <2>3. script' = FlushOps(t) \o InterruptOps(t, kept, entry, e) /\ Ends(t, script')
    BY <2>1 DEF Ends
  <2>4. FlushOps(t) \in Seq(FlushQuiet) /\ FlushOps(t) \in Seq(PlainOps)
    BY <1>1, FlushOpsOK, FlushScript
  <2> HIDE DEF e
  <2>5. CASE commits
    <3>1. PICK g \in OwnGroups :
            /\ Entry(t, "interrupted", n) = [op |-> "append", group |-> g]
            /\ g.turn = t /\ g.kind = "interrupted" /\ g.end = "whole"
      BY <1>1, <1>2, EntryOK
    <3>2. entry = <<[op |-> "append", group |-> g]>> /\ entry \in Seq(Ops)
      BY <2>5, <3>1, OpIntro DEF OwnGroups
    <3> HIDE DEF kept, entry
    <3>3. InterruptOps(t, kept, entry, e) = entry \o Remainder(t, kept, e)
      BY <1>3, <1>4, <3>2, InterruptSplit
    <3>4. Remainder(t, kept, e) \in Seq(QuietOf(t))
      BY <1>3, <1>4, RemainderOK
    <3>5. base[t] = Len(log)
      BY <1>1, <1>6, <2>5, NoConflict
    <3>6. Shape(script', t)
      BY <2>3, <2>4, <3>1, <3>2, <3>3, <3>4, <3>5 DEF Shape
    <3> QED
      BY <2>2, <2>3, <3>6, EndsKeeps
  <2>6. CASE ~commits
    <3>1. kept = None /\ entry = <<>> /\ entry \in Seq(Ops)
      BY <2>6
    <3> HIDE DEF kept, entry
    <3>2. /\ InterruptOps(t, kept, entry, e) = entry \o Remainder(t, kept, e)
          /\ Remainder(t, kept, e) \in Seq(Ops)
      BY <1>3, <1>4, <3>1, InterruptSplit
    <3>3. InterruptOps(t, kept, entry, e) = Remainder(t, kept, e)
      BY <3>1, <3>2, ConcatEmptySeq
    <3>4. Remainder(t, kept, e) \in Seq(PlainOps)
      BY <1>3, <1>4, <3>1, RemainderOK
    <3>5. script' \in Seq(PlainOps)
      BY <2>3, <2>4, <3>3, <3>4, ConcatProperties
    <3>6. Shape(script', t)
      BY <3>5 DEF Shape
    <3> QED
      BY <2>2, <2>3, <3>6, EndsKeeps
  <2> QED
    BY <2>5, <2>6
<1> QED
  BY <1>5, <1>6

LEMMA CompleteKeeps == ASSUME Inv, NEW t \in Turns, Complete(t) PROVE Inv'
<1>1. /\ TypeOK /\ Baseline /\ QueueOwn /\ Settled /\ phase[t] \in Live
      /\ UNCHANGED <<disk, turnVars, excused, steps, patches>>
  BY DEF Complete, Inv, ClaimsOK, turnVars, Live
<1>2. CASE ~Flushable(t)
  BY <1>1, <1>2, GivesUpKeeps DEF Complete, TypeOK
<1>3. CASE Flushable(t) /\ Conflict(t)
  BY <1>1, <1>3, FinalizeKeeps DEF Complete
<1>4. CASE Flushable(t) /\ ~Conflict(t)
  <2>1. /\ refused' = refused /\ Flushed(t) /\ pending' = pending \ {t}
        /\ Ends(t, FlushOps(t) \o <<Entry(t, "complete", steps[t])>>
                     \o ClearDraft \o RecoveryCleared(t))
    BY <1>4 DEF Complete
  <2>2. Ends(t, script') /\ Shape(script', t)
    BY <1>1, <1>4, <2>1, CompleteScript DEF Ends
  <2>3. /\ queued' \in [Turns -> Checkpoints \cup {None}] /\ QueueOwn'
        /\ timers' \subseteq Turns /\ pending' \subseteq Turns /\ refused' \subseteq Turns
    BY <1>1, <2>1, FlushedOK DEF TypeOK
  <2> QED
    BY <1>1, <2>2, <2>3, EndsKeeps
<1> QED
  BY <1>2, <1>3, <1>4

LEMMA InterruptKeeps == ASSUME Inv, NEW t \in Turns, Interrupt(t) PROVE Inv'
<1>1. Settled /\ phase[t] \in Live /\ UNCHANGED <<disk, turnVars, excused>>
  BY DEF Interrupt
<1>2. CASE Flushable(t)
  BY <1>1, <1>2, FinalizeKeeps DEF Interrupt
<1>3. CASE ~Flushable(t)
  BY <1>1, <1>3, GivesUpKeeps DEF Interrupt, Inv, TypeOK
<1> QED
  BY <1>2, <1>3

-----------------------------------------------------------------------------
(* The process dies. *)

LEMMA CrashKeeps == ASSUME Inv, Crash PROVE Inv'
<1>1. /\ TypeOK /\ ClaimsOK /\ DiskOK /\ excused \subseteq Effects
      /\ log \in Seq(Groups)
  BY DEF Inv, TypeOK, DiskOK
<1>2. /\ script' = <<>> /\ timers' = {} /\ pending' = {}
      /\ queued' = [t \in Turns |-> None]
      /\ phase' = [t \in Turns |-> IF phase[t] \in Ended THEN phase[t] ELSE "crashed"]
      /\ UNCHANGED <<turnVars, refused>>
  BY DEF Crash
<1>3. OwnGroups' = OwnGroups /\ OwnCheckpoints' = OwnCheckpoints
  BY <1>2 DEF turnVars, OwnGroups, OwnCheckpoints, Claims
<1>4. /\ DiskOK' /\ excused' \subseteq Effects
      /\ checkpoints' = checkpoints
      /\ artifact' = artifact \/ artifact' = None
      /\ log' = log \/ \E g \in OwnGroups : log' = Append(log, g)
  <2>1. CASE UNCHANGED <<disk, excused>>
    BY <1>1, <2>1 DEF disk, DiskOK
  <2>2. CASE ~Settled /\ CutShort(Head(script))
    <3> DEFINE o == Head(script)
    <3>1. o \in Ops /\ o = script[1] /\ 1 \in 1..Len(script)
      BY <1>1, <2>2, ScriptHead
    <3>2. o.op = "append" => o.group \in OwnGroups
      BY <3>1 DEF Inv, ScriptOK, OneAppend
    <3> HIDE DEF o
    <3>3. CutShort(o)
      BY <2>2 DEF o
    <3>4. DiskOK' /\ excused' \subseteq Effects
      BY <1>1, <3>1, <3>3, CutShortOK
    <3>5. checkpoints' = checkpoints /\ (artifact' = artifact \/ artifact' = None)
      BY <3>3 DEF CutShort
    <3>6. log' = log \/ \E g \in OwnGroups : log' = Append(log, g)
      <4>1. CASE o.op = "append"
        <5>1. PICK end \in {"cut", "torn"} : log' = Append(log, [o.group EXCEPT !.end = end])
          BY <3>3, <4>1 DEF CutShort
        <5>2. [o.group EXCEPT !.end = end] \in OwnGroups
          BY <3>2, <4>1 DEF OwnGroups, Groups, Claims
        <5> QED
          BY <5>1, <5>2
      <4>2. CASE o.op # "append"
        BY <3>3, <4>2 DEF CutShort
      <4> QED
        BY <4>1, <4>2
    <3> QED
      BY <3>4, <3>5, <3>6
  <2> QED
    BY <2>1, <2>2 DEF Crash
<1>5. TypeOK'
  BY <1>1, <1>2, <1>4 DEF TypeOK, DiskOK, turnVars, Phases, Ended
<1>6. \A t \in Turns : phase'[t] \in Ended
  BY <1>2 DEF Ended
<1>7. OneTurn' /\ Baseline' /\ ToolBound'
  BY <1>6 DEF OneTurn, Baseline, ToolBound, Live, Ended
<1>8. ClaimsOK'
  <2>1. \A i \in 1..Len(log') : log'[i] \in OwnGroups
    <3>1. CASE log' = log
      BY <1>1, <3>1 DEF ClaimsOK
    <3>2. ASSUME NEW g \in OwnGroups, log' = Append(log, g)
          PROVE  \A i \in 1..Len(log') : log'[i] \in OwnGroups
      <4>1. g \in Groups
        BY DEF OwnGroups
      <4> QED
        BY <1>1, <3>2, <4>1, LogGrows DEF ClaimsOK
    <3> QED
      BY <1>4, <3>1, <3>2
  <2>2. QueueOwn'
    BY <1>2 DEF QueueOwn
  <2> QED
    BY <1>1, <1>3, <1>4, <2>1, <2>2 DEF ClaimsOK
<1>9. ScriptOK'
  BY <1>2, <1>6 DEF ScriptOK, OneAppend, OwnCheckpointsOnly, OnBaseline, EventsFirst, Ended
<1>10. ArtifactIsProven'
  <2> SUFFICES ASSUME artifact' # None, artifact'.committed, NEW u, u = artifact'.turn
               PROVE  Backed(u)'
    BY DEF ArtifactIsProven, Backed, EntriesOf
  <2>1. Backed(u)
    BY <1>4 DEF Inv, ArtifactIsProven, Backed
  <2>2. CASE log' = log
    BY <2>1, <2>2 DEF Backed, EntriesOf
  <2>3. ASSUME NEW g \in OwnGroups, log' = Append(log, g) PROVE Backed(u)'
    <3>1. g \in Groups
      BY DEF OwnGroups
    <3> QED
      BY <1>1, <2>1, <2>3, <3>1, BackedStays
  <2> QED
    BY <1>4, <2>2, <2>3
<1> QED
  BY <1>5, <1>7, <1>8, <1>9, <1>10 DEF Inv

-----------------------------------------------------------------------------
(* The invariant is inductive. *)

LEMMA InitInv == Init => Inv
<1> SUFFICES ASSUME Init PROVE Inv
  OBVIOUS
<1>1. Len(<<>>) = 0 /\ 1..Len(log) = {} /\ 1..Len(checkpoints) = {} /\ 1..Len(script) = {}
  BY DEF Init
<1>2. TypeOK
  BY BoundsAssumption DEF Init, TypeOK, Phases, Ended
<1>3. OneTurn /\ Baseline /\ ToolBound
  BY DEF Init, OneTurn, Baseline, ToolBound, Live, Ended
<1>4. ClaimsOK
  BY <1>1 DEF Init, ClaimsOK, QueueOwn
<1>5. ScriptOK
  BY <1>1 DEF Init, ScriptOK, OneAppend, OwnCheckpointsOnly, OnBaseline, EventsFirst
<1>6. ArtifactIsProven
  BY DEF Init, ArtifactIsProven
<1> QED
  BY <1>2, <1>3, <1>4, <1>5, <1>6 DEF Inv

LEMMA StutterKeeps == ASSUME Inv, UNCHANGED vars PROVE Inv'
<1>1. /\ UNCHANGED <<log, draft, checkpoints, artifact, ledger>>
      /\ UNCHANGED <<base, draftId, seen, steps, sealed, patches>>
      /\ UNCHANGED <<queued, timers, pending, script, phase, excused, refused>>
  BY DEF vars, disk, turnVars, coordinator
<1>2. OwnGroups' = OwnGroups /\ OwnCheckpoints' = OwnCheckpoints
  BY <1>1 DEF OwnGroups, OwnCheckpoints, Claims
<1>3. TypeOK'
  BY <1>1 DEF Inv, TypeOK
<1>4. OneTurn' /\ Baseline' /\ ToolBound' /\ ArtifactIsProven'
  BY <1>1 DEF Inv, OneTurn, Baseline, ToolBound, ArtifactIsProven, EntriesOf
<1>5. ClaimsOK'
  BY <1>1, <1>2 DEF Inv, ClaimsOK, QueueOwn
<1>6. ScriptOK'
  BY <1>1, <1>2 DEF Inv, ScriptOK, OneAppend, OwnCheckpointsOnly, OnBaseline, EventsFirst,
                    Backed, EntriesOf
<1> QED
  BY <1>3, <1>4, <1>5, <1>6 DEF Inv

LEMMA NextKeeps == ASSUME Inv, [Next]_vars PROVE Inv'
<1>1. ASSUME NEW t \in Turns, Start(t) PROVE Inv'
  BY <1>1, StartKeeps
<1>2. ASSUME NEW t \in Turns, AssemblyFails(t) PROVE Inv'
  BY <1>2, AssemblyFailsKeeps
<1>3. ASSUME NEW t \in Turns, BeginTurn(t) PROVE Inv'
  BY <1>3, BeginTurnKeeps
<1>4. ASSUME NEW t \in Turns, RecordPatch(t) PROVE Inv'
  BY <1>4, RecordPatchKeeps
<1>5. ASSUME NEW t \in Turns, BeforeTool(t) PROVE Inv'
  BY <1>5, BeforeToolKeeps
<1>6. ASSUME NEW t \in Turns, ToolDone(t) PROVE Inv'
  BY <1>6, ToolDoneKeeps
<1>7. ASSUME NEW t \in Turns, EndBatch(t) PROVE Inv'
  BY <1>7, EndBatchKeeps
<1>8. ASSUME NEW t \in Turns, TimerFires(t) PROVE Inv'
  BY <1>8, TimerFiresKeeps
<1>9. ASSUME NEW t \in Turns, Complete(t) PROVE Inv'
  BY <1>9, CompleteKeeps
<1>10. ASSUME NEW t \in Turns, Interrupt(t) PROVE Inv'
  BY <1>10, InterruptKeeps
<1>11. ASSUME DiskStep PROVE Inv'
  BY <1>11, DiskStepKeeps
<1>12. ASSUME LateWrite PROVE Inv'
  BY <1>12, LateWriteKeeps
<1>13. ASSUME Crash PROVE Inv'
  BY <1>13, CrashKeeps
<1>14. ASSUME UNCHANGED vars PROVE Inv'
  BY <1>14, StutterKeeps
<1> QED
  BY <1>1, <1>2, <1>3, <1>4, <1>5, <1>6, <1>7, <1>8, <1>9, <1>10, <1>11, <1>12, <1>13,
     <1>14 DEF Next

\* The invariant that the theorems below are read off.
THEOREM Invariance == Spec => []Inv
<1>1. Inv /\ [Next]_vars => Inv'
  BY NextKeeps
<1> QED
  BY <1>1, InitInv, PTL DEF Spec

\* Every variable keeps its type, also when a crash cuts a file short.
THEOREM TypeCorrect == Spec => []TypeOK
<1>1. Inv => TypeOK
  BY DEF Inv
<1> QED
  BY <1>1, Invariance, PTL

\* No entry of the history claims a tool step or a patch that its own turn has
\* not made, although checkpoints are read back from files that older turns
\* may have left.
THEOREM NoFabrication == Spec => []NothingFabricated
<1>1. Inv => NothingFabricated
  <2> SUFFICES ASSUME Inv, NEW i \in DOMAIN log, log[i].turn # None
               PROVE  /\ log[i].upto <= steps[log[i].turn]
                      /\ log[i].patches <= patches[log[i].turn]
    BY DEF NothingFabricated
  <2>1. i \in 1..Len(log)
    BY LenProperties DEF Inv, TypeOK
  <2>2. log[i] \in OwnGroups
    BY <2>1 DEF Inv, ClaimsOK
  <2> QED
    BY <2>2 DEF OwnGroups, Claims
<1> QED
  BY <1>1, Invariance, PTL

\* Whenever the process dies, an artifact that tells of a committed checkpoint
\* is backed by the events of its turn.
THEOREM EventsBeforeArtifact == Spec => []ArtifactIsProven
<1>1. Inv => ArtifactIsProven
  BY DEF Inv
<1> QED
  BY <1>1, Invariance, PTL

-----------------------------------------------------------------------------
(* The events file implements the abstract history. *)

Hist == [i \in DOMAIN log |-> log[i].turn]
OpenAt == [t \in Turns |-> IF Open(t) THEN base[t] ELSE Shut]

Owners == Turns \cup {None}

\* An operation of the script adds to the history.
Appending == \E i \in DOMAIN script : script[i].op = "append"

LEMMA HistFacts ==
  ASSUME log \in Seq(Groups)
  PROVE  Hist \in Seq(Owners) /\ Len(Hist) = Len(log)
<1>1. Len(log) \in Nat /\ DOMAIN log = 1..Len(log)
  BY LenProperties
<1>2. \A i \in 1..Len(log) : log[i].turn \in Owners
  <2>1. \A i \in 1..Len(log) : log[i] \in Groups
    BY ElementOfSeq
  <2> QED
    BY <2>1 DEF Groups, Owners
<1>3. Hist = [i \in 1..Len(log) |-> log[i].turn]
  BY <1>1 DEF Hist
<1> QED
  BY <1>1, <1>2, <1>3

LEMMA HistGrows ==
  ASSUME log \in Seq(Groups), NEW g \in Groups, log' = Append(log, g)
  PROVE  Hist' = Append(Hist, g.turn)
<1>1. /\ log' \in Seq(Groups) /\ Len(log') = Len(log) + 1 /\ Len(log) \in Nat
      /\ \A i \in 1..Len(log) : log'[i] = log[i]
      /\ log'[Len(log) + 1] = g
      /\ DOMAIN log = 1..Len(log) /\ DOMAIN log' = 1..Len(log')
  BY LogGrows, LenProperties
<1>2. Hist \in Seq(Owners) /\ Len(Hist) = Len(log) /\ g.turn \in Owners
  BY HistFacts DEF Groups, Owners
<1>3. Hist' \in Seq(Owners) /\ Len(Hist') = Len(log')
  <2>1. \A i \in 1..Len(log') : log'[i].turn \in Owners
    <3>1. \A i \in 1..Len(log') : log'[i] \in Groups
      BY <1>1, ElementOfSeq
    <3> QED
      BY <3>1 DEF Groups, Owners
  <2>2. Hist' = [i \in 1..Len(log') |-> log'[i].turn]
    BY <1>1 DEF Hist
  <2> QED
    BY <1>1, <2>1, <2>2
<1> DEFINE H == Append(Hist, g.turn)
<1>4. /\ H \in Seq(Owners) /\ Len(H) = Len(log) + 1
      /\ \A i \in 1..Len(log) : H[i] = Hist[i]
      /\ H[Len(log) + 1] = g.turn
  BY <1>2, AppendProperties
<1>5. \A i \in 1..Len(log') : Hist'[i] = log'[i].turn
  BY <1>1 DEF Hist
<1>6. \A i \in 1..Len(log) : Hist[i] = log[i].turn
  BY <1>1 DEF Hist
<1> HIDE DEF H
<1>7. \A i \in 1..Len(log') : Hist'[i] = H[i]
  BY <1>1, <1>4, <1>5, <1>6
<1>8. Hist' = H
  BY <1>1, <1>3, <1>4, <1>7, SeqEqual
<1> QED
  BY <1>8 DEF H

LEMMA OpenMeans ==
  \A t : Open(t) <=> phase[t] \in Live \/ (phase[t] = "ending" /\ Appending)
BY DEF Open, Appending

LEMMA OpenMeansThen ==
  \A t : Open(t)' <=> phase'[t] \in Live \/ (phase'[t] = "ending" /\ Appending')
BY DEF Open, Appending

\* A step that leaves every turn as open as it was.
LEMMA NothingOpens ==
  ASSUME UNCHANGED <<log, base>>, \A t \in Turns : Open(t)' <=> Open(t)
  PROVE  UNCHANGED <<Hist, OpenAt>>
BY DEF Hist, OpenAt

LEMMA StaysOpen ==
  ASSUME Inv, Settled, UNCHANGED <<log, base>>,
         \A u \in Turns : phase'[u] # "ending" /\ (phase'[u] \in Live <=> phase[u] \in Live)
  PROVE  UNCHANGED <<Hist, OpenAt>>
<1>1. \A u \in Turns : Open(u)' <=> Open(u)
  BY Idle, OpenMeans, OpenMeansThen
<1> QED
  BY <1>1, NothingOpens

\* The steps between the begin of a turn and its end, and before the begin.
LEMMA QuietSimulation ==
  ASSUME Inv, NEW t \in Turns,
         \/ Start(t) \/ AssemblyFails(t) \/ RecordPatch(t) \/ ToolDone(t) \/ EndBatch(t)
         \/ TimerFires(t) \/ (BeforeTool(t) /\ Flushable(t))
  PROVE  UNCHANGED <<Hist, OpenAt>>
<1>1. Settled /\ phase \in [Turns -> Phases]
  BY DEF Start, AssemblyFails, RecordPatch, ToolDone, EndBatch, TimerFires, BeforeTool,
         Inv, TypeOK
<1>2. UNCHANGED <<log, base>>
  BY DEF Start, AssemblyFails, RecordPatch, ToolDone, EndBatch, TimerFires, BeforeTool,
         disk, turnVars
<1>3. \A u \in Turns : phase[u] # "ending"
  BY <1>1, Idle
<1>4. \A u \in Turns : phase'[u] # "ending" /\ (phase'[u] \in Live <=> phase[u] \in Live)
  <2>1. CASE Start(t) \/ AssemblyFails(t)
    BY <1>1, <1>3, <2>1 DEF Start, AssemblyFails, Live
  <2>2. CASE RecordPatch(t) \/ TimerFires(t)
    BY <1>3, <2>2 DEF RecordPatch, TimerFires
  <2>3. CASE ToolDone(t) \/ EndBatch(t)
    BY <1>1, <1>3, <2>3 DEF ToolDone, EndBatch, Live
  <2>4. CASE BeforeTool(t) /\ Flushable(t)
    BY <1>1, <1>3, <2>4 DEF BeforeTool, Live
  <2> QED
    BY <2>1, <2>2, <2>3, <2>4
<1> QED
  BY <1>1, <1>2, <1>4, StaysOpen

LEMMA BeginSimulation ==
  ASSUME Inv, NEW t \in Turns, BeginTurn(t) PROVE TH!Begin(t)
<1>1. /\ phase \in [Turns -> Phases] /\ base \in [Turns -> Nat] /\ log \in Seq(Groups)
      /\ Settled /\ phase[t] = "assembling" /\ log' = log
      /\ phase' = [phase EXCEPT ![t] = "thinking"]
      /\ base' = [base EXCEPT ![t] = Len(log)]
  BY DEF Inv, TypeOK, BeginTurn, disk, ReadCount
<1>2. \A u \in Turns : phase[u] # "ending"
  BY <1>1, Idle
<1>3. ~Open(t) /\ Open(t)' /\ \A u \in Turns : u # t => (Open(u)' <=> Open(u))
  BY <1>1, <1>2, OpenMeans, OpenMeansThen DEF Live
<1>4. OpenAt[t] = Shut /\ OpenAt' = [OpenAt EXCEPT ![t] = Len(log)]
  BY <1>1, <1>3 DEF OpenAt
<1>5. Hist' = Hist /\ Len(Hist) = Len(log)
  BY <1>1, HistFacts DEF Hist
<1>6. OpenAt[t] = Shut /\ OpenAt' = [OpenAt EXCEPT ![t] = Len(Hist)] /\ Hist' = Hist
  BY <1>4, <1>5
<1> QED
  BY <1>6 DEF TH!Begin, Hist, OpenAt

LEMMA EndSimulation ==
  ASSUME Inv, Settled, NEW t \in Turns, phase[t] \in Live, UNCHANGED <<log, base>>,
         Ends(t, script')
  PROVE  TH!Abandon(t) \/ UNCHANGED <<Hist, OpenAt>>
<1>1. /\ phase \in [Turns -> Phases] /\ base \in [Turns -> Nat]
      /\ phase' = [phase EXCEPT ![t] = IF script' = <<>> THEN "done" ELSE "ending"]
      /\ \A u \in Turns : phase[u] # "ending"
  BY Idle DEF Inv, TypeOK, Ends
<1>2. Open(t) /\ \A u \in Turns : u # t => (Open(u)' <=> Open(u))
  BY <1>1, OpenMeans, OpenMeansThen
<1>3. CASE Appending'
  <2>1. script' # <<>>
    BY <1>3 DEF Appending
  <2>2. Open(t)'
    BY <1>1, <1>3, <2>1, OpenMeansThen
  <2> QED
    BY <1>2, <2>2, NothingOpens
<1>4. CASE ~Appending'
  <2>1. ~Open(t)'
    BY <1>1, <1>4, OpenMeansThen DEF Live
  <2>2. OpenAt[t] = base[t] /\ base[t] # Shut /\ Hist' = Hist
    BY <1>1, <1>2 DEF OpenAt, Hist, Shut
  <2>3. OpenAt' = [OpenAt EXCEPT ![t] = Shut]
    BY <1>2, <2>1 DEF OpenAt
  <2>4. OpenAt[t] # Shut /\ OpenAt' = [OpenAt EXCEPT ![t] = Shut] /\ Hist' = Hist
    BY <2>2, <2>3
  <2> QED
    BY <2>4 DEF TH!Abandon, Hist, OpenAt
<1> QED
  BY <1>3, <1>4

\* Every way in which a turn ends.
LEMMA WaysToEnd ==
  ASSUME NEW t \in Turns, Complete(t) \/ Interrupt(t) \/ (BeforeTool(t) /\ ~Flushable(t))
  PROVE  Settled /\ phase[t] \in Live /\ UNCHANGED <<log, base>> /\ Ends(t, script')
<1>1. GivesUp(t) => Ends(t, script')
  BY DEF GivesUp, Ends
<1>2. Finalize(t) => Ends(t, script')
  BY <1>1 DEF Finalize, Ends
<1>3. Settled /\ phase[t] \in Live /\ UNCHANGED <<log, base>>
  BY DEF Complete, Interrupt, BeforeTool, Live, disk, turnVars
<1>4. Complete(t) => Ends(t, script')
  BY <1>1, <1>2 DEF Complete, Ends
<1>5. Interrupt(t) => Ends(t, script')
  BY <1>1, <1>2 DEF Interrupt
<1>6. BeforeTool(t) /\ ~Flushable(t) => Ends(t, script')
  BY <1>1 DEF BeforeTool
<1> QED
  BY <1>3, <1>4, <1>5, <1>6

\* The entry of the turn that ends is added, and no turn stays open.
LEMMA CommitSimulation ==
  ASSUME Inv, NEW t \in Turns, phase[t] = "ending", Appending, base[t] = Len(log),
         Hist' = Append(Hist, t), \A u \in Turns : ~Open(u)'
  PROVE  TH!Commit(t)
<1>1. log \in Seq(Groups) /\ Len(Hist) = Len(log)
  BY HistFacts DEF Inv, TypeOK
<1>2. Open(t) /\ \A u \in Turns : u # t => ~Open(u)
  BY OpenMeans DEF Inv, OneTurn, Ended, Live
<1>3. OpenAt[t] = Len(Hist) /\ OpenAt' = [OpenAt EXCEPT ![t] = Shut]
  BY <1>1, <1>2 DEF OpenAt
<1> QED
  BY <1>3 DEF TH!Commit, Hist, OpenAt

LEMMA DiskSimulation ==
  ASSUME Inv, DiskStep PROVE [TH!Next]_<<Hist, OpenAt>>
<1> DEFINE h == Head(script)
<1>1. /\ TypeOK /\ phase \in [Turns -> Phases] /\ log \in Seq(Groups)
      /\ OneAppend(script) /\ OnBaseline(script)
  BY DEF Inv, TypeOK, ScriptOK
<1>2. /\ Len(script) \in Nat \ {0} /\ script \in Seq(Ops)
      /\ h = script[1] /\ h \in Ops
      /\ Len(script') = Len(script) - 1
      /\ \A i \in 1..Len(script') : script'[i] = script[i + 1]
      /\ DOMAIN script = 1..Len(script) /\ DOMAIN script' = 1..Len(script')
  BY <1>1, ScriptHead, LenProperties DEF DiskStep, TypeOK
<1>3. /\ Perform(h) /\ base' = base
      /\ phase' = [t \in Turns |->
                     IF phase[t] = "ending" /\ Len(script) = 1 THEN "done" ELSE phase[t]]
  BY DEF DiskStep, turnVars
<1> HIDE DEF h
<1>4. CASE h.op # "append"
  <2>1. log' = log
    BY <1>3, <1>4 DEF Perform
  <2>2. Appending' <=> Appending
    <3>1. ASSUME NEW i \in 1..Len(script), script[i].op = "append" PROVE Appending'
      <4>1. i # 1 /\ i - 1 \in 1..Len(script') /\ script'[i - 1] = script[i]
        BY <1>2, <1>4, <3>1
      <4> QED
        BY <1>2, <3>1, <4>1 DEF Appending
    <3>2. ASSUME NEW i \in 1..Len(script'), script'[i].op = "append" PROVE Appending
      <4>1. i + 1 \in 1..Len(script) /\ script'[i] = script[i + 1]
        BY <1>2
      <4> QED
        BY <1>2, <3>2, <4>1 DEF Appending
    <3> QED
      BY <1>2, <3>1, <3>2 DEF Appending
  <2>3. Len(script) = 1 => ~Appending
    BY <1>2, <1>4 DEF Appending
  <2>4. \A u \in Turns : Open(u)' <=> Open(u)
    BY <1>3, <2>2, <2>3, OpenMeans, OpenMeansThen DEF Live
  <2> QED
    BY <1>3, <2>1, <2>4, NothingOpens
<1>5. CASE h.op = "append"
  <2>1. /\ log' = Append(log, h.group) /\ h.group \in Groups /\ Appending
        /\ 1 \in 1..Len(script)
    BY <1>2, <1>3, <1>5, OpFacts DEF Perform, Appending
  <2>2. Hist' = Append(Hist, h.group.turn)
    BY <1>1, <2>1, HistGrows
  <2>3. ~Appending'
    <3> SUFFICES ASSUME NEW i \in 1..Len(script'), script'[i].op = "append" PROVE FALSE
      BY <1>2 DEF Appending
    <3>1. i + 1 \in 1..Len(script) /\ i + 1 # 1 /\ script[i + 1].op = "append"
      BY <1>2
    <3> QED
      BY <1>1, <1>2, <1>5, <2>1, <3>1 DEF OneAppend
  <2>4. CASE h.group.turn = None
    <3>1. \A u \in Turns : phase[u] # "ending"
      BY <1>1, <1>2, <1>5, <2>1, <2>4 DEF OnBaseline
    <3>2. \A u \in Turns : Open(u)' <=> Open(u)
      BY <1>3, <3>1, OpenMeans, OpenMeansThen
    <3>3. OpenAt' = OpenAt /\ Hist' = Append(Hist, None)
      BY <1>3, <2>2, <2>4, <3>2 DEF OpenAt
    <3>4. TH!Write
      BY <3>3 DEF TH!Write, Hist, OpenAt
    <3> QED
      BY <3>4 DEF TH!Next
  <2>5. CASE h.group.turn # None
    <3>1. h.group.turn \in Turns
      BY <2>1, <2>5 DEF Groups
    <3>2. PICK t \in Turns : t = h.group.turn
      BY <3>1
    <3>3. phase[t] = "ending" /\ base[t] = Len(log)
      BY <1>1, <1>2, <1>5, <2>1, <2>5, <3>2 DEF OnBaseline
    <3>4. \A u \in Turns : phase'[u] \notin Live
      <4>1. \A u \in Turns : phase[u] \notin Live
        BY <3>3 DEF Inv, OneTurn, Live, Ended
      <4> QED
        BY <1>3, <4>1 DEF Live
    <3>5. \A u \in Turns : ~Open(u)'
      BY <2>3, <3>4, OpenMeansThen
    <3>6. TH!Commit(t)
      BY <2>1, <2>2, <3>2, <3>3, <3>5, CommitSimulation
    <3> QED
      BY <3>6 DEF TH!Next
  <2> QED
    BY <2>4, <2>5
<1> QED
  BY <1>4, <1>5

LEMMA CrashSimulation ==
  ASSUME Inv, Crash PROVE [TH!Next]_<<Hist, OpenAt>>
<1>1. /\ TypeOK /\ log \in Seq(Groups) /\ script \in Seq(Ops)
      /\ OneAppend(script) /\ OnBaseline(script)
  BY DEF Inv, TypeOK, ScriptOK
<1>2. \A u \in Turns : phase'[u] \in Ended
  BY DEF Crash, Ended
<1>3. \A u \in Turns : ~Open(u)'
  BY <1>2, OpenMeansThen DEF Ended, Live
<1>4. OpenAt' = [u \in Turns |-> Shut]
  BY <1>3 DEF OpenAt
<1>5. CASE Hist' = Hist \/ Hist' = Append(Hist, None)
  <2>1. TH!Die
    BY <1>4, <1>5 DEF TH!Die, Hist, OpenAt
  <2> QED
    BY <2>1 DEF TH!Next
<1>6. CASE ~(Hist' = Hist \/ Hist' = Append(Hist, None))
  <2>1. log' # log
    BY <1>6 DEF Hist
  <2>2. ~Settled /\ CutShort(Head(script))
    BY <2>1 DEF Crash, disk
  <2> DEFINE o == Head(script)
  <2>3. o = script[1] /\ o \in Ops /\ 1 \in 1..Len(script) /\ DOMAIN script = 1..Len(script)
    BY <1>1, <2>2, ScriptHead, LenProperties
  <2> HIDE DEF o
  <2>4. CutShort(o)
    BY <2>2 DEF o
  <2>5. o.op = "append" /\ o.group \in Groups /\ Appending
    BY <2>1, <2>3, <2>4, OpFacts DEF CutShort, Appending
  <2>6. PICK end \in {"cut", "torn"} : log' = Append(log, [o.group EXCEPT !.end = end])
    BY <2>4, <2>5 DEF CutShort
  <2>7. [o.group EXCEPT !.end = end] \in Groups /\ [o.group EXCEPT !.end = end].turn = o.group.turn
    BY <2>5 DEF Groups
  <2>8. Hist' = Append(Hist, o.group.turn)
    BY <1>1, <2>6, <2>7, HistGrows
  <2>9. o.group.turn \in Turns /\ o.group.turn # None
    BY <1>6, <2>5, <2>8 DEF Groups
  <2>10. PICK t \in Turns : t = o.group.turn
    BY <2>9
  <2>11. phase[t] = "ending" /\ base[t] = Len(log)
    BY <1>1, <2>3, <2>5, <2>9, <2>10 DEF OnBaseline
  <2>12. TH!Commit(t)
    BY <1>3, <2>5, <2>8, <2>10, <2>11, CommitSimulation
  <2> QED
    BY <2>12 DEF TH!Next
<1> QED
  BY <1>5, <1>6

LEMMA HistorySimulation ==
  ASSUME Inv, [Next]_vars PROVE [TH!Next]_<<Hist, OpenAt>>
<1>1. ASSUME NEW t \in Turns,
             \/ Start(t) \/ AssemblyFails(t) \/ RecordPatch(t) \/ ToolDone(t) \/ EndBatch(t)
             \/ TimerFires(t) \/ (BeforeTool(t) /\ Flushable(t))
      PROVE  UNCHANGED <<Hist, OpenAt>>
  BY <1>1, QuietSimulation
<1>2. ASSUME NEW t \in Turns, BeginTurn(t) PROVE TH!Next
  BY <1>2, BeginSimulation DEF TH!Next
<1>3. ASSUME NEW t \in Turns,
             Complete(t) \/ Interrupt(t) \/ (BeforeTool(t) /\ ~Flushable(t))
      PROVE  TH!Next \/ UNCHANGED <<Hist, OpenAt>>
  <2>1. Settled /\ phase[t] \in Live /\ UNCHANGED <<log, base>> /\ Ends(t, script')
    BY <1>3, WaysToEnd
  <2> QED
    BY <2>1, EndSimulation DEF TH!Next
<1>4. CASE DiskStep
  BY <1>4, DiskSimulation
<1>5. CASE LateWrite
  <2>1. UNCHANGED <<log, base, phase>> /\ Settled
    BY <1>5 DEF LateWrite, disk, turnVars
  <2>2. \A u \in Turns : phase'[u] # "ending" /\ (phase'[u] \in Live <=> phase[u] \in Live)
    BY <2>1, Idle
  <2> QED
    BY <2>1, <2>2, StaysOpen
<1>6. CASE Crash
  BY <1>6, CrashSimulation
<1>7. CASE UNCHANGED vars
  <2>1. UNCHANGED <<log, base, phase, script>>
    BY <1>7 DEF vars, disk, turnVars
  <2> QED
    BY <2>1 DEF Hist, OpenAt, Open
<1> QED
  BY <1>1, <1>2, <1>3, <1>4, <1>5, <1>6, <1>7 DEF Next

\* The events file only grows, and a turn's entry is added only if nothing was
\* added since the turn began, wherever the process dies and whoever else
\* writes: the history of ContextStore implements TurnHistory.
THEOREM ImplementsHistory == Spec => HistoryRefinement
<1>1. Init => TH!Init
  <2> SUFFICES ASSUME Init PROVE TH!Init
    OBVIOUS
  <2>1. \A t \in Turns : ~Open(t)
    BY OpenMeans DEF Init, Live
  <2>2. Hist = <<>> /\ OpenAt = [t \in Turns |-> Shut]
    BY <2>1 DEF Init, Hist, OpenAt
  <2> QED
    BY <2>2 DEF TH!Init, Hist, OpenAt
<1>2. Inv /\ [Next]_vars => [TH!Next]_<<Hist, OpenAt>>
  BY HistorySimulation
<1>3. [TH!Next]_<<Hist, OpenAt>> => [TH!Next]_TH!vars
  BY DEF TH!vars, Hist, OpenAt
<1> QED
  BY <1>1, <1>2, <1>3, Invariance, PTL DEF Spec, HistoryRefinement, TH!Spec

-----------------------------------------------------------------------------
(* What earlier batches did is on disk before a tool runs. *)

DraftOf(t) == [turn |-> t, id |-> draftId[t]]

\* The next file operation, if there is one, is of this kind.
Writing(o) == script # <<>> /\ Head(script).op = o

\* A turn at work has its draft on disk, or the draft is being written; what
\* else may be written meanwhile is a checkpoint, or an entry from outside.
DraftHeld(t) ==
  \/ /\ script = <<[op |-> "draft", draft |-> DraftOf(t)]>>
     /\ sealed[t] = 0 /\ queued[t] = None
  \/ /\ draft = DraftOf(t)
     /\ \/ script = <<>>
        \/ Len(script) = 1 /\ Head(script).op \in {"checkpoint", "append"}

Newest(c, t) == c.turn = t /\ c.id = draftId[t] /\ c.upto = sealed[t]

\* What the batches of the turn sealed is queued, being written or on disk.
SealHeld(t) ==
  /\ queued[t] # None => Newest(queued[t], t)
  /\ Writing("checkpoint") => Newest(Head(script).checkpoint, t)
  /\ sealed[t] > 0 =>
       \/ queued[t] # None
       \/ Writing("checkpoint")
       \/ LatestCheckpoint # None /\ LatestCheckpoint.upto = sealed[t]

\* A checkpoint waits only while its turn thinks or is between two tools.
QueueIsLive ==
  \A t \in Turns :
    /\ queued[t] # None => phase[t] \in {"thinking", "batch"}
    /\ t \in timers => queued[t] # None

Fresh ==
  \A t \in Turns : phase[t] \in {"idle", "assembling"} => steps[t] = 0 /\ sealed[t] = 0

DurableInv ==
  /\ QueueIsLive
  /\ Fresh
  /\ \A t \in Turns : phase[t] \in Live => DraftHeld(t) /\ SealHeld(t)

\* The checkpoint appended last is the one that recovery reads.
LEMMA LatestAppended ==
  ASSUME checkpoints \in Seq(Checkpoints), NEW c \in Checkpoints,
         checkpoints' = Append(checkpoints, c), draft' = draft,
         c.id = draft.id, c.turn = draft.turn
  PROVE  LatestCheckpoint' = c
<1> DEFINE n == Len(checkpoints) + 1
           lines == {k \in DOMAIN checkpoints' :
                       /\ checkpoints'[k].id = draft'.id
                       /\ checkpoints'[k].turn = draft'.turn}
<1>1. Len(checkpoints) \in Nat
  BY LenProperties
<1>2. DOMAIN checkpoints' = 1..n /\ checkpoints'[n] = c
  BY AppendProperties, LenProperties
<1>3. n \in lines /\ \A j \in lines : j <= n
  BY <1>1, <1>2
<1> HIDE DEF n
<1>4. lines \subseteq Nat /\ n \in Nat
  BY <1>1, <1>2 DEF n
<1>5. (CHOOSE k \in lines : \A j \in lines : j <= k) = n
  BY <1>3, <1>4
<1> QED
  BY <1>2, <1>3, <1>5 DEF LatestCheckpoint

LEMMA LatestFrame ==
  ASSUME UNCHANGED <<draft, checkpoints>> PROVE LatestCheckpoint' = LatestCheckpoint
BY DEF LatestCheckpoint

\* Nothing but the turn at work has a checkpoint waiting.
LEMMA OthersIdle ==
  ASSUME TypeOK, OneTurn, QueueIsLive, NEW t \in Turns, phase[t] \notin Ended,
         NEW p, phase' = [phase EXCEPT ![t] = p], NEW u \in Turns \ {t}
  PROVE  /\ phase'[u] \in Ended /\ phase'[u] = phase[u]
         /\ queued[u] = None /\ u \notin timers
BY DEF TypeOK, OneTurn, QueueIsLive, Ended

\* The turn at work can always flush: the draft is its own.
LEMMA LiveFlushable ==
  ASSUME Inv, DurableInv, Settled, NEW t \in Turns, phase[t] \in Live
  PROVE  /\ draft = DraftOf(t) /\ draft # None /\ Flushable(t)
         /\ queued[t] # None => Newest(queued[t], t)
<1>1. draft = DraftOf(t)
  BY DEF DurableInv, DraftHeld, Settled
<1>2. draft # None
  <2>1. DraftOf(t) \in Drafts
    BY DEF Inv, TypeOK, DraftOf, Drafts
  <2> QED
    BY <1>1, <2>1, NoneAssumption
<1> QED
  BY <1>1, <1>2 DEF DurableInv, SealHeld, Newest, Flushable, DraftOf

\* A step after which no turn is at work.
LEMMA NobodyAtWork ==
  ASSUME \A u \in Turns : phase'[u] \in Ended \cup {"assembling", "ending"},
         \A u \in Turns : queued'[u] = None /\ u \notin timers',
         Fresh'
  PROVE  DurableInv'
BY DEF DurableInv, QueueIsLive, Live, Ended

LEMMA StartDurable ==
  ASSUME Inv, DurableInv, NEW t \in Turns, Start(t) PROVE DurableInv'
<1>1. /\ \A u \in Turns : phase[u] \in Ended
      /\ phase[t] = "idle" /\ phase' = [phase EXCEPT ![t] = "assembling"]
      /\ UNCHANGED <<steps, sealed, queued, timers>>
  BY DEF Start, coordinator
<1>2. phase \in [Turns -> Phases]
  BY DEF Inv, TypeOK
<1>3. \A u \in Turns : phase'[u] \in Ended \cup {"assembling"}
  BY <1>1, <1>2
<1>4. \A u \in Turns : queued'[u] = None /\ u \notin timers'
  BY <1>1 DEF DurableInv, QueueIsLive, Ended
<1>5. Fresh'
  BY <1>1, <1>2 DEF DurableInv, Fresh
<1> QED
  BY <1>3, <1>4, <1>5, NobodyAtWork

LEMMA AssemblyFailsDurable ==
  ASSUME Inv, DurableInv, NEW t \in Turns, AssemblyFails(t) PROVE DurableInv'
<1>1. /\ phase[t] = "assembling" /\ phase' = [phase EXCEPT ![t] = "done"]
      /\ UNCHANGED <<steps, sealed, queued, timers>>
  BY DEF AssemblyFails, turnVars, coordinator
<1>2. phase \in [Turns -> Phases] /\ TypeOK /\ OneTurn /\ QueueIsLive
  BY DEF Inv, TypeOK, DurableInv
<1>3. \A u \in Turns \ {t} : phase'[u] \in Ended /\ queued[u] = None /\ u \notin timers
  BY <1>1, <1>2, OthersIdle DEF Ended
<1>4. phase'[t] \in Ended /\ queued[t] = None /\ t \notin timers
  BY <1>1, <1>2 DEF QueueIsLive, Ended
<1>5. Fresh'
  BY <1>1, <1>2 DEF DurableInv, Fresh
<1>6. /\ \A u \in Turns : phase'[u] \in Ended
      /\ \A u \in Turns : queued'[u] = None /\ u \notin timers'
  BY <1>1, <1>3, <1>4
<1> QED
  BY <1>5, <1>6, NobodyAtWork

\* Only one turn needs to be looked at.
LEMMA OneAtWork ==
  ASSUME NEW t \in Turns, Fresh',
         \A u \in Turns \ {t} : phase'[u] \in Ended /\ queued'[u] = None /\ u \notin timers',
         queued'[t] # None => phase'[t] \in {"thinking", "batch"},
         t \in timers' => queued'[t] # None,
         DraftHeld(t)', SealHeld(t)'
  PROVE  DurableInv'
<1>1. \A u \in Turns \ {t} : phase'[u] \notin Live
  BY DEF Live, Ended
<1>2. QueueIsLive'
  BY DEF QueueIsLive
<1>3. \A u \in Turns : phase'[u] \in Live => u = t
  BY <1>1
<1> QED
  BY <1>2, <1>3 DEF DurableInv

LEMMA BeginTurnDurable ==
  ASSUME Inv, DurableInv, NEW t \in Turns, BeginTurn(t) PROVE DurableInv'
<1>1. /\ phase[t] = "assembling" /\ phase' = [phase EXCEPT ![t] = "thinking"]
      /\ script' = <<[op |-> "draft", draft |-> DraftOf(t)]>>
      /\ UNCHANGED <<disk, draftId, steps, sealed, queued, timers>>
  BY DEF BeginTurn, DraftOf
<1>2. phase \in [Turns -> Phases] /\ TypeOK /\ OneTurn /\ QueueIsLive /\ Fresh
  BY DEF Inv, TypeOK, DurableInv
<1>3. \A u \in Turns \ {t} : phase'[u] \in Ended /\ queued'[u] = None /\ u \notin timers'
  BY <1>1, <1>2, OthersIdle DEF Ended
<1>4. sealed'[t] = 0 /\ queued'[t] = None /\ t \notin timers'
  BY <1>1, <1>2 DEF QueueIsLive, Fresh
<1>5. DraftHeld(t)'
  BY <1>1, <1>4 DEF DraftHeld, DraftOf
<1>6. SealHeld(t)'
  BY <1>1, <1>4 DEF SealHeld, Writing
<1>7. Fresh'
  BY <1>1, <1>2 DEF Fresh
<1> QED
  BY <1>3, <1>4, <1>5, <1>6, <1>7, OneAtWork

\* A step of memory that leaves the drafts and the checkpoints as they are.
LEMMA SameDurable ==
  ASSUME DurableInv,
         UNCHANGED <<draft, checkpoints, phase, draftId, sealed, steps, queued, timers>>,
         \/ script' = script
         \/ script = <<>> /\ Len(script') = 1 /\ Head(script').op = "append"
         \/ /\ script' = <<>>
            /\ \A t \in Turns : phase[t] \in Live =>
                 /\ draft = DraftOf(t)
                 /\ ~Writing("checkpoint")
  PROVE  DurableInv'
<1>1. QueueIsLive' /\ Fresh'
  BY DEF DurableInv, QueueIsLive, Fresh
<1>2. ASSUME NEW t \in Turns, phase'[t] \in Live PROVE DraftHeld(t)' /\ SealHeld(t)'
  <2>1. /\ DraftHeld(t) /\ SealHeld(t) /\ DraftOf(t)' = DraftOf(t)
        /\ LatestCheckpoint' = LatestCheckpoint
    BY <1>2, LatestFrame DEF DurableInv, DraftOf
  <2>2. CASE script' = script
    BY <2>1, <2>2 DEF DraftHeld, SealHeld, Writing, Newest
  <2>3. CASE script = <<>> /\ Len(script') = 1 /\ Head(script').op = "append"
    <3>1. Head(script').op # "checkpoint"
      BY <2>3
    <3> QED
      BY <2>1, <2>3, <3>1 DEF DraftHeld, SealHeld, Writing, Newest
  <2>4. CASE script' = <<>> /\ draft = DraftOf(t) /\ ~Writing("checkpoint")
    BY <2>1, <2>4 DEF DraftHeld, SealHeld, Writing, Newest
  <2> QED
    BY <1>2, <2>2, <2>3, <2>4
<1> QED
  BY <1>1, <1>2 DEF DurableInv

LEMMA RecordPatchDurable ==
  ASSUME Inv, DurableInv, NEW t \in Turns, RecordPatch(t) PROVE DurableInv'
BY SameDurable DEF RecordPatch, disk, coordinator

LEMMA LateWriteDurable == ASSUME Inv, DurableInv, LateWrite PROVE DurableInv'
<1>1. /\ UNCHANGED <<draft, checkpoints, phase, draftId, sealed, steps, queued, timers>>
      /\ script = <<>> /\ Len(script') = 1 /\ Head(script').op = "append"
  BY DEF LateWrite, Settled, disk, turnVars, coordinator
<1> QED
  BY <1>1, SameDurable

LEMMA ToolDoneDurable ==
  ASSUME Inv, DurableInv, NEW t \in Turns, ToolDone(t) PROVE DurableInv'
<1>1. /\ phase[t] = "tool" /\ phase' = [phase EXCEPT ![t] = "batch"]
      /\ steps' = [steps EXCEPT ![t] = @ + 1]
      /\ UNCHANGED <<draft, checkpoints, script, draftId, sealed, queued, timers>>
  BY DEF ToolDone, disk, coordinator
<1>2. phase \in [Turns -> Phases] /\ steps \in [Turns -> 0..MaxSteps]
      /\ TypeOK /\ OneTurn /\ QueueIsLive /\ Fresh
  BY DEF Inv, TypeOK, DurableInv
<1>3. \A u \in Turns \ {t} : phase'[u] \in Ended /\ queued'[u] = None /\ u \notin timers'
  BY <1>1, <1>2, OthersIdle DEF Ended
<1>4. DraftHeld(t) /\ SealHeld(t) /\ DraftOf(t)' = DraftOf(t)
  BY <1>1 DEF DurableInv, Live, DraftOf
<1>5. DraftHeld(t)'
  BY <1>1, <1>4 DEF DraftHeld
<1>6. SealHeld(t)'
  BY <1>1, <1>4, LatestFrame DEF SealHeld, Writing, Newest
<1>7. Fresh'
  BY <1>1, <1>2 DEF Fresh
<1>8. phase'[t] = "batch" /\ (t \in timers' => queued'[t] # None)
  BY <1>1, <1>2 DEF QueueIsLive
<1> QED
  BY <1>3, <1>5, <1>6, <1>7, <1>8, OneAtWork

LEMMA EndBatchDurable ==
  ASSUME Inv, DurableInv, NEW t \in Turns, EndBatch(t) PROVE DurableInv'
<1> DEFINE c == [turn |-> t, id |-> draftId[t], upto |-> steps[t], patches |-> patches[t]]
<1>1. /\ phase[t] = "batch" /\ phase' = [phase EXCEPT ![t] = "thinking"] /\ Settled
      /\ sealed' = [sealed EXCEPT ![t] = steps[t]]
      /\ timers' = timers \cup {t}
      /\ UNCHANGED <<draft, checkpoints, script, draftId, steps>>
  BY DEF EndBatch, disk
<1>2. phase \in [Turns -> Phases] /\ sealed \in [Turns -> 0..MaxSteps]
      /\ queued \in [Turns -> Checkpoints \cup {None}]
      /\ TypeOK /\ OneTurn /\ QueueIsLive /\ Fresh
  BY DEF Inv, TypeOK, DurableInv
<1>3. draft = DraftOf(t) /\ draft # None
  BY <1>1, LiveFlushable DEF Live
<1>4. queued' = [queued EXCEPT ![t] = c]
  BY <1>3 DEF EndBatch, DraftOf
<1>5. c \in Checkpoints
  BY DEF Inv, TypeOK, Checkpoints
<1>6. Newest(queued[t], t)' /\ queued'[t] # None
  <2>1. c.turn = t /\ c.id = draftId'[t] /\ c.upto = sealed'[t]
    BY <1>1, <1>2
  <2> HIDE DEF c
  <2>2. queued'[t] = c
    BY <1>2, <1>4
  <2> QED
    BY <1>5, <2>1, <2>2, NoneAssumption DEF Newest
<1> HIDE DEF c
<1>7. \A u \in Turns \ {t} : phase'[u] \in Ended /\ queued'[u] = None /\ u \notin timers'
  BY <1>1, <1>2, <1>4, OthersIdle DEF Ended
<1>8. DraftHeld(t)'
  BY <1>1, <1>3 DEF DraftHeld, DraftOf, Settled
<1>9. SealHeld(t)'
  BY <1>1, <1>6 DEF SealHeld, Writing, Settled
<1>10. Fresh'
  BY <1>1, <1>2 DEF Fresh
<1>11. phase'[t] = "thinking"
  BY <1>1, <1>2
<1> QED
  BY <1>6, <1>7, <1>8, <1>9, <1>10, <1>11, OneAtWork

\* A queued checkpoint is handed to the files.
LEMMA FlushDurable ==
  ASSUME Inv, DurableInv, Settled, NEW t \in Turns, phase[t] \in Live,
         NEW p \in Live, phase' = [phase EXCEPT ![t] = p],
         script' = FlushOps(t), Flushed(t),
         UNCHANGED <<disk, draftId, sealed, steps>>
  PROVE  DurableInv'
<1>1. /\ queued' = [queued EXCEPT ![t] = None] /\ timers' = timers \ {t}
      /\ phase \in [Turns -> Phases] /\ queued \in [Turns -> Checkpoints \cup {None}]
      /\ TypeOK /\ OneTurn /\ QueueIsLive /\ Fresh
  BY DEF Flushed, Inv, TypeOK, DurableInv
<1>2. /\ draft = DraftOf(t) /\ DraftOf(t)' = DraftOf(t)
      /\ queued[t] # None => Newest(queued[t], t)
      /\ SealHeld(t)
  BY LiveFlushable DEF DraftOf, DurableInv
<1>3. \A u \in Turns \ {t} : phase'[u] \in Ended /\ queued'[u] = None /\ u \notin timers'
  <2>1. phase[t] \notin Ended
    BY DEF Live, Ended
  <2> QED
    BY <1>1, <2>1, OthersIdle
<1>4. queued'[t] = None /\ t \notin timers' /\ phase'[t] = p
  BY <1>1
<1>5. LatestCheckpoint' = LatestCheckpoint /\ draft' = draft
  BY LatestFrame DEF disk
<1>6. DraftHeld(t)' /\ SealHeld(t)'
  <2>1. CASE queued[t] = None
    <3>1. script' = <<>> /\ script = <<>>
      BY <2>1 DEF FlushOps, Settled
    <3> QED
      BY <1>2, <1>4, <1>5, <2>1, <3>1 DEF DraftHeld, SealHeld, Writing
  <2>2. CASE queued[t] # None
    <3>1. script' = <<[op |-> "checkpoint", checkpoint |-> queued[t]]>>
      BY <2>2 DEF FlushOps
    <3>2. /\ script' # <<>> /\ Len(script') = 1 /\ Head(script').op = "checkpoint"
          /\ Head(script').checkpoint = queued[t]
      BY <3>1
    <3>3. Newest(Head(script).checkpoint, t)'
      BY <1>2, <2>2, <3>2 DEF Newest
    <3>4. DraftHeld(t)'
      BY <1>2, <1>5, <3>2 DEF DraftHeld
    <3> QED
      BY <1>4, <3>2, <3>3, <3>4 DEF SealHeld, Writing
  <2> QED
    BY <2>1, <2>2
<1>7. Fresh'
  BY <1>1 DEF Fresh, Live
<1> QED
  BY <1>3, <1>4, <1>6, <1>7, OneAtWork

LEMMA BeforeToolDurable ==
  ASSUME Inv, DurableInv, NEW t \in Turns, BeforeTool(t) PROVE DurableInv'
<1>1. Settled /\ phase[t] \in Live /\ UNCHANGED <<disk, draftId, sealed, steps>>
  BY DEF BeforeTool, Live, turnVars
<1>2. Flushable(t)
  BY <1>1, LiveFlushable
<1>3. script' = FlushOps(t) /\ Flushed(t) /\ phase' = [phase EXCEPT ![t] = "tool"]
  BY <1>2 DEF BeforeTool
<1> QED
  BY <1>1, <1>3, FlushDurable DEF Live

LEMMA TimerFiresDurable ==
  ASSUME Inv, DurableInv, NEW t \in Turns, TimerFires(t) PROVE DurableInv'
<1>1. /\ Settled /\ t \in timers /\ phase[t] \in Live
      /\ UNCHANGED <<disk, draftId, sealed, steps, phase>>
  BY DEF TimerFires, turnVars, DurableInv, QueueIsLive, Live
<1>2. Flushable(t)
  BY <1>1, LiveFlushable
<1>3. script' = FlushOps(t) /\ Flushed(t) /\ phase' = [phase EXCEPT ![t] = phase[t]]
  BY <1>1, <1>2 DEF TimerFires, Inv, TypeOK
<1> QED
  BY <1>1, <1>3, FlushDurable

\* A turn ends, having flushed what it had queued.
LEMMA EndDurable ==
  ASSUME Inv, DurableInv, Settled, NEW t \in Turns, phase[t] \in Live,
         NEW ops, Ends(t, ops), Flushed(t), UNCHANGED <<steps, sealed>>
  PROVE  DurableInv'
<1>1. /\ queued' = [queued EXCEPT ![t] = None] /\ timers' = timers \ {t}
      /\ phase' = [phase EXCEPT ![t] = IF ops = <<>> THEN "done" ELSE "ending"]
      /\ phase \in [Turns -> Phases] /\ queued \in [Turns -> Checkpoints \cup {None}]
      /\ TypeOK /\ OneTurn /\ QueueIsLive /\ Fresh
  BY DEF Flushed, Ends, Inv, TypeOK, DurableInv
<1>2. phase[t] \notin Ended
  BY DEF Live, Ended
<1>3. \A u \in Turns \ {t} : phase'[u] \in Ended /\ queued'[u] = None /\ u \notin timers'
  BY <1>1, <1>2, OthersIdle
<1>4. queued'[t] = None /\ t \notin timers' /\ phase'[t] \in {"done", "ending"}
  BY <1>1
<1>5. \A u \in Turns : phase'[u] \in Ended \cup {"assembling", "ending"}
  BY <1>3, <1>4 DEF Ended
<1>6. \A u \in Turns : queued'[u] = None /\ u \notin timers'
  BY <1>3, <1>4
<1>7. Fresh'
  BY <1>1 DEF Fresh
<1> QED
  BY <1>5, <1>6, <1>7, NobodyAtWork

LEMMA FinalizeEnds ==
  ASSUME Inv, DurableInv, Settled, NEW t \in Turns, phase[t] \in Live, Finalize(t)
  PROVE  \E ops : Ends(t, ops) /\ Flushed(t)
<1>1. Flushable(t)
  BY LiveFlushable
<1> QED
  BY <1>1 DEF Finalize, GivesUp

LEMMA CompleteDurable ==
  ASSUME Inv, DurableInv, NEW t \in Turns, Complete(t) PROVE DurableInv'
<1>1. Settled /\ phase[t] \in Live /\ UNCHANGED <<steps, sealed>>
  BY DEF Complete, Live, turnVars
<1>2. Flushable(t)
  BY <1>1, LiveFlushable
<1>3. \E ops : Ends(t, ops) /\ Flushed(t)
  BY <1>1, <1>2, FinalizeEnds DEF Complete
<1> QED
  BY <1>1, <1>3, EndDurable

LEMMA InterruptDurable ==
  ASSUME Inv, DurableInv, NEW t \in Turns, Interrupt(t) PROVE DurableInv'
<1>1. Settled /\ phase[t] \in Live /\ UNCHANGED <<steps, sealed>>
  BY DEF Interrupt, turnVars
<1>2. Flushable(t)
  BY <1>1, LiveFlushable
<1>3. \E ops : Ends(t, ops) /\ Flushed(t)
  BY <1>1, <1>2, FinalizeEnds DEF Interrupt
<1> QED
  BY <1>1, <1>3, EndDurable

LEMMA CrashDurable == ASSUME Inv, DurableInv, Crash PROVE DurableInv'
<1>1. /\ timers' = {} /\ queued' = [t \in Turns |-> None]
      /\ phase' = [t \in Turns |-> IF phase[t] \in Ended THEN phase[t] ELSE "crashed"]
      /\ UNCHANGED <<steps, sealed>>
  BY DEF Crash, turnVars
<1>2. \A u \in Turns : phase'[u] \in Ended /\ (phase'[u] # "crashed" => phase'[u] = phase[u])
  BY <1>1 DEF Ended
<1>3. \A u \in Turns : queued'[u] = None /\ u \notin timers'
  BY <1>1
<1>4. Fresh'
  BY <1>1, <1>2 DEF DurableInv, Fresh, Ended
<1> QED
  BY <1>2, <1>3, <1>4, NobodyAtWork

LEMMA DiskStepDurable == ASSUME Inv, DurableInv, DiskStep PROVE DurableInv'
<1> DEFINE h == Head(script)
<1>1. /\ UNCHANGED <<draftId, sealed, steps, queued, timers>>
      /\ Perform(h) /\ ~Settled /\ script' = Tail(script)
      /\ h \in Ops /\ Len(script) \in Nat \ {0} /\ h = script[1]
      /\ Len(script') = Len(script) - 1 /\ script' \in Seq(Ops)
      /\ script # <<>>
  BY ScriptHead DEF DiskStep, turnVars, coordinator, Inv, Settled
<1>2. \A t \in Turns : phase'[t] = phase[t] \/ (phase[t] = "ending" /\ phase'[t] = "done")
  BY DEF DiskStep, Inv, TypeOK
<1> HIDE DEF h
<1>3. QueueIsLive'
  BY <1>1, <1>2 DEF DurableInv, QueueIsLive
<1>4. Fresh'
  BY <1>1, <1>2 DEF DurableInv, Fresh
<1>5. ASSUME NEW t \in Turns, phase'[t] \in Live PROVE DraftHeld(t)' /\ SealHeld(t)'
  <2>1. phase[t] \in Live /\ DraftHeld(t) /\ SealHeld(t)
    BY <1>2, <1>5 DEF DurableInv, Live
  <2>2. DraftOf(t)' = DraftOf(t)
    BY <1>1 DEF DraftOf
  <2>3. Len(script) = 1
    BY <1>1, <2>1 DEF DraftHeld
  <2>4. script' = <<>>
    BY <1>1, <2>3, EmptySeq
  <2>5. CASE h.op = "draft"
    <3>1. h.draft = DraftOf(t) /\ sealed[t] = 0 /\ queued[t] = None
      BY <1>1, <2>1, <2>5 DEF DraftHeld, h
    <3>2. draft' = DraftOf(t)
      BY <1>1, <2>5, <3>1 DEF Perform
    <3> QED
      BY <1>1, <2>2, <2>4, <3>1, <3>2 DEF DraftHeld, SealHeld, Writing
  <2>6. CASE h.op = "checkpoint"
    <3>1. draft = DraftOf(t) /\ draft' = draft
      BY <1>1, <2>1, <2>6 DEF DraftHeld, Perform, h
    <3>2. /\ h.checkpoint \in Checkpoints /\ checkpoints \in Seq(Checkpoints)
          /\ checkpoints' = Append(checkpoints, h.checkpoint)
          /\ Newest(h.checkpoint, t)
      BY <1>1, <2>1, <2>6, OpFacts DEF Perform, SealHeld, Writing, h, Inv, TypeOK
    <3>3. h.checkpoint.id = draft.id /\ h.checkpoint.turn = draft.turn
      BY <3>1, <3>2 DEF Newest, DraftOf
    <3>4. LatestCheckpoint' = h.checkpoint /\ h.checkpoint # None
      BY <3>1, <3>2, <3>3, LatestAppended, NoneAssumption
    <3>5. DraftHeld(t)'
      BY <2>2, <2>4, <3>1 DEF DraftHeld
    <3> QED
      BY <1>1, <2>1, <2>4, <3>2, <3>4, <3>5 DEF SealHeld, Writing, Newest
  <2>7. CASE h.op \notin {"draft", "checkpoint"}
    <3>1. draft = DraftOf(t) /\ h.op = "append" /\ ~Writing("checkpoint")
      BY <1>1, <2>1, <2>7 DEF DraftHeld, Writing, h
    <3>2. draft' = draft /\ checkpoints' = checkpoints
      BY <1>1, <3>1 DEF Perform
    <3>3. LatestCheckpoint' = LatestCheckpoint
      BY <3>2, LatestFrame
    <3>4. DraftHeld(t)'
      BY <2>2, <2>4, <3>1, <3>2 DEF DraftHeld
    <3> QED
      BY <1>1, <2>1, <2>4, <3>1, <3>3, <3>4 DEF SealHeld, Writing, Newest
  <2> QED
    BY <2>5, <2>6, <2>7
<1> QED
  BY <1>3, <1>4, <1>5 DEF DurableInv

LEMMA InitDurable == Init => DurableInv
BY DEF Init, DurableInv, QueueIsLive, Fresh, Live

LEMMA NextDurable == ASSUME Inv, DurableInv, [Next]_vars PROVE DurableInv'
<1>1. ASSUME UNCHANGED vars PROVE DurableInv'
  BY <1>1, SameDurable DEF vars, disk, turnVars, coordinator
<1>2. ASSUME NEW t \in Turns, Start(t) \/ AssemblyFails(t) \/ BeginTurn(t) PROVE DurableInv'
  BY <1>2, StartDurable, AssemblyFailsDurable, BeginTurnDurable
<1>3. ASSUME NEW t \in Turns, RecordPatch(t) \/ ToolDone(t) \/ EndBatch(t) PROVE DurableInv'
  BY <1>3, RecordPatchDurable, ToolDoneDurable, EndBatchDurable
<1>4. ASSUME NEW t \in Turns, BeforeTool(t) \/ TimerFires(t) PROVE DurableInv'
  BY <1>4, BeforeToolDurable, TimerFiresDurable
<1>5. ASSUME NEW t \in Turns, Complete(t) \/ Interrupt(t) PROVE DurableInv'
  BY <1>5, CompleteDurable, InterruptDurable
<1>6. ASSUME DiskStep \/ LateWrite \/ Crash PROVE DurableInv'
  BY <1>6, DiskStepDurable, LateWriteDurable, CrashDurable
<1> QED
  BY <1>1, <1>2, <1>3, <1>4, <1>5, <1>6 DEF Next

\* While a tool runs, the checkpoint of the newest sealed batch is on disk,
\* under the draft of this turn, where finalizeInterruptedTurn would find it,
\* whatever timers, writes from outside and older crashes came before
\* (onBeforeToolExecution flushes the coordinator).
THEOREM DurableBeforeEveryTool == Spec => []DurableBeforeTools
<1>1. DurableInv /\ Inv => DurableBeforeTools
  <2> SUFFICES ASSUME DurableInv, Inv, NEW t \in Turns,
                      Settled, phase[t] = "tool", sealed[t] > 0
               PROVE  /\ draft # None /\ draft.turn = t
                      /\ LatestCheckpoint # None /\ LatestCheckpoint.upto = sealed[t]
    BY DEF DurableBeforeTools
  <2>1. draft = DraftOf(t) /\ draft # None
    BY LiveFlushable DEF Live
  <2>2. queued[t] = None /\ ~Writing("checkpoint") /\ SealHeld(t)
    BY DEF DurableInv, QueueIsLive, Writing, Settled, Live
  <2> QED
    BY <2>1, <2>2 DEF SealHeld, DraftOf
<1>2. Inv /\ DurableInv /\ [Next]_vars => DurableInv'
  BY NextDurable
<1> QED
  BY <1>1, <1>2, InitDurable, Invariance, PTL DEF Spec

\* flushTurn never meets a draft that is not the turn's: no order of turns,
\* crashes and writes makes a flush fail, so its refusal only answers a hand
\* that touches the files from outside.
THEOREM FlushIsNeverRefused ==
  Spec => [](Settled => \A t \in Turns : phase[t] \in Live => Flushable(t))
<1>1. Inv /\ DurableInv => (Settled => \A t \in Turns : phase[t] \in Live => Flushable(t))
  BY LiveFlushable
<1>2. Inv /\ DurableInv /\ [Next]_vars => DurableInv'
  BY NextDurable
<1> QED
  BY <1>1, <1>2, InitDurable, Invariance, PTL DEF Spec

-----------------------------------------------------------------------------
(* Every tool result of a turn that ended is accounted for. *)

\* The file operation will tell of the n-th step of turn t.
Tells(o, t, n) ==
  \/ o.op = "append" /\ o.group.turn = t /\ n <= o.group.upto
  \/ o.op = "ledger" /\ <<t, n>> \in o.effects

ScriptTells(s, t, n) == \E i \in 1..Len(s) : Tells(s[i], t, n)

EffectsInv ==
  \A t \in Turns \ refused : \A n \in 1..steps[t] :
    /\ phase[t] = "done" => Explicit(t, n)
    /\ phase[t] = "ending" => Explicit(t, n) \/ ScriptTells(script, t, n)

\* What is on record stays on record.
LEMMA ExplicitStays ==
  ASSUME log \in Seq(Groups), NEW g \in Groups, log' = log \/ log' = Append(log, g),
         ledger \cup excused \subseteq ledger' \cup excused',
         NEW t, NEW n, Explicit(t, n)
  PROVE  Explicit(t, n)'
<1>1. CASE <<t, n>> \in ledger \cup excused
  BY <1>1 DEF Explicit
<1>2. CASE Committed(t, n) /\ log' = log
  BY <1>2 DEF Committed, Explicit
<1>3. CASE Committed(t, n) /\ log' = Append(log, g)
  <2>1. PICK i \in 1..Len(log) : log[i].turn = t /\ n <= log[i].upto
    BY <1>3, LenProperties DEF Committed
  <2>2. i \in DOMAIN log' /\ log'[i] = log[i]
    BY <1>3, <2>1, LogGrows, LenProperties
  <2> QED
    BY <2>1, <2>2 DEF Committed, Explicit
<1> QED
  BY <1>1, <1>2, <1>3 DEF Explicit

LEMMA ExplicitFrame ==
  ASSUME UNCHANGED <<log, ledger, excused>>, NEW t, NEW n
  PROVE  Explicit(t, n)' <=> Explicit(t, n)
BY DEF Explicit, Committed

\* A script tells what one of its parts tells.
LEMMA ConcatTells ==
  ASSUME NEW s \in Seq(Ops), NEW r \in Seq(Ops), NEW t, NEW n,
         ScriptTells(s, t, n) \/ ScriptTells(r, t, n)
  PROVE  s \o r \in Seq(Ops) /\ ScriptTells(s \o r, t, n)
<1>1. Len(s) \in Nat /\ Len(r) \in Nat
  BY LenProperties
<1>2. /\ s \o r \in Seq(Ops)
      /\ Len(s \o r) = Len(s) + Len(r)
      /\ \A i \in 1..Len(s) + Len(r) :
           (s \o r)[i] = IF i <= Len(s) THEN s[i] ELSE r[i - Len(s)]
  BY ConcatProperties
<1>3. CASE ScriptTells(s, t, n)
  <2>1. PICK i \in 1..Len(s) : Tells(s[i], t, n)
    BY <1>3 DEF ScriptTells
  <2>2. i \in 1..Len(s \o r) /\ (s \o r)[i] = s[i]
    BY <1>1, <1>2, <2>1
  <2> QED
    BY <1>2, <2>1, <2>2 DEF ScriptTells
<1>4. CASE ScriptTells(r, t, n)
  <2>1. PICK i \in 1..Len(r) : Tells(r[i], t, n)
    BY <1>4 DEF ScriptTells
  <2>2. /\ Len(s) + i \in 1..Len(s) + Len(r) /\ ~(Len(s) + i <= Len(s))
        /\ (Len(s) + i) - Len(s) = i
    BY <1>1, <2>1
  <2>3. (s \o r)[Len(s) + i] = r[i]
    BY <1>2, <2>2
  <2> QED
    BY <1>2, <2>1, <2>2, <2>3 DEF ScriptTells
<1> QED
  BY <1>2, <1>3, <1>4

\* The remainder of InterruptOps writes the ledger.
LEMMA RemainderTells ==
  ASSUME NEW t \in Turns, draftId[t] \in Turns, NEW kept, NEW e \in SUBSET Effects,
         NEW n, <<t, n>> \in e
  PROVE  ScriptTells(Remainder(t, kept, e), t, n)
<1> DEFINE A == <<[op |-> "artifact",
                  artifact |-> [turn |-> t, id |-> draftId[t], committed |-> kept # None]]>>
           L == <<[op |-> "ledger", effects |-> e]>>
           C == ClearDraft
<1>1. A \in Seq(Ops) /\ L \in Seq(Ops) /\ C \in Seq(Ops)
  <2>1. A \in Seq(Ops)
    <3>1. [turn |-> t, id |-> draftId[t], committed |-> kept # None] \in Artifacts
      BY DEF Artifacts
    <3> QED
      BY <3>1, OpIntro
  <2>2. L \in Seq(Ops)
    BY OpIntro
  <2>3. C \in Seq(Ops)
    BY QuietFacts, ClearDraftOK, SeqMonotonic
  <2> QED
    BY <2>1, <2>2, <2>3
<1>2. Remainder(t, kept, e) = ((C \o A) \o L) \o C
  <2>1. e # {}
    OBVIOUS
  <2> QED
    BY <2>1 DEF Remainder
<1>3. ScriptTells(L, t, n)
  <2>1. Len(L) = 1 /\ L[1].op = "ledger" /\ L[1].effects = e
    OBVIOUS
  <2> HIDE DEF L
  <2> QED
    BY <2>1 DEF ScriptTells, Tells
<1> HIDE DEF A, L, C
<1>4. C \o A \in Seq(Ops)
  BY <1>1, ConcatProperties
<1>5. (C \o A) \o L \in Seq(Ops) /\ ScriptTells((C \o A) \o L, t, n)
  BY <1>1, <1>3, <1>4, ConcatTells
<1>6. ScriptTells(((C \o A) \o L) \o C, t, n)
  BY <1>1, <1>5, ConcatTells
<1> QED
  BY <1>2, <1>6

LEMMA EntryTells ==
  ASSUME NEW t \in Turns, NEW kind, NEW m, NEW n, n <= m
  PROVE  ScriptTells(<<Entry(t, kind, m)>>, t, n)
<1>1. /\ Entry(t, kind, m).op = "append" /\ Entry(t, kind, m).group.turn = t
      /\ Entry(t, kind, m).group.upto = m
  BY DEF Entry
<1>2. Len(<<Entry(t, kind, m)>>) = 1 /\ <<Entry(t, kind, m)>>[1] = Entry(t, kind, m)
  OBVIOUS
<1> QED
  BY <1>1, <1>2 DEF ScriptTells, Tells

\* A step of memory after which no turn has newly ended.
LEMMA NobodyEnds ==
  ASSUME TypeOK, EffectsInv, UNCHANGED <<log, ledger, excused>>, refused \subseteq refused',
         \A u \in Turns : phase'[u] # "ending",
         \A u \in Turns : phase'[u] = "done" => phase[u] = "done" /\ steps'[u] = steps[u]
  PROVE  EffectsInv'
BY ExplicitFrame DEF EffectsInv

\* A turn ends with a script that tells of all its steps.
LEMMA EndEffects ==
  ASSUME Inv, EffectsInv, Settled, NEW t \in Turns,
         UNCHANGED <<disk, steps, excused>>, refused \subseteq refused',
         Ends(t, script'),
         t \notin refused' => \A n \in 1..steps[t] : ScriptTells(script', t, n)
  PROVE  EffectsInv'
<1>1. /\ phase' = [phase EXCEPT ![t] = IF script' = <<>> THEN "done" ELSE "ending"]
      /\ UNCHANGED <<log, ledger, excused>> /\ phase \in [Turns -> Phases]
      /\ \A u \in Turns : phase[u] # "ending"
  BY Idle DEF Ends, disk, Inv, TypeOK
<1>2. SUFFICES ASSUME NEW u \in Turns \ refused', NEW n \in 1..steps[u]
               PROVE  /\ phase'[u] = "done" => Explicit(u, n)'
                      /\ phase'[u] = "ending" => Explicit(u, n)' \/ ScriptTells(script', u, n)
  BY DEF EffectsInv, ScriptTells, Tells
<1>3. CASE u # t
  <2>1. phase'[u] = phase[u] /\ u \in Turns \ refused
    BY <1>1, <1>3
  <2> QED
    BY <1>1, <2>1, ExplicitFrame DEF EffectsInv
<1>4. CASE u = t
  <2>1. ScriptTells(script', t, n)
    BY <1>2, <1>4
  <2>2. script' # <<>>
    BY <2>1 DEF ScriptTells
  <2> QED
    BY <1>1, <1>4, <2>1, <2>2
<1> QED
  BY <1>3, <1>4

LEMMA AssemblyFailsEffects ==
  ASSUME Inv, DurableInv, EffectsInv, NEW t \in Turns, AssemblyFails(t) PROVE EffectsInv'
<1>1. /\ Settled /\ phase[t] = "assembling" /\ phase' = [phase EXCEPT ![t] = "done"]
      /\ UNCHANGED <<log, ledger, excused, steps, refused>> /\ phase \in [Turns -> Phases]
      /\ steps[t] = 0 /\ \A u \in Turns : phase[u] # "ending"
  BY Idle DEF AssemblyFails, disk, turnVars, Inv, TypeOK, DurableInv, Fresh
<1>2. 1..steps'[t] = {}
  BY <1>1
<1>3. \A u \in Turns \ {t} : phase'[u] = phase[u]
  BY <1>1
<1> QED
  BY <1>1, <1>2, <1>3, ExplicitFrame DEF EffectsInv

LEMMA GivesUpEffects ==
  ASSUME Inv, EffectsInv, Settled, NEW t \in Turns, GivesUp(t),
         UNCHANGED <<disk, steps, excused>>, refused' = refused \cup {t}
  PROVE  EffectsInv'
<1>1. Ends(t, script')
  BY DEF GivesUp, Ends
<1> QED
  BY <1>1, EndEffects

LEMMA FinalizeEffects ==
  ASSUME Inv, EffectsInv, Settled, NEW t \in Turns, Finalize(t),
         UNCHANGED <<disk, steps, excused>>
  PROVE  EffectsInv'
<1>1. TypeOK /\ ClaimsOK /\ QueueOwn
  BY DEF Inv, ClaimsOK
<1> DEFINE kept == SafePoint(t)
           commits == kept # None \/ patches[t] > 0
           n == IF kept = None THEN 0 ELSE kept.upto
           e == {t} \X ((n + 1)..steps[t])
           entry == IF commits THEN <<Entry(t, "interrupted", n)>> ELSE <<>>
           F == FlushOps(t)
           R == Remainder(t, kept, e)
<1>2. n \in 0..MaxSteps /\ n <= steps[t] /\ steps[t] \in 0..MaxSteps
  BY <1>1, SafePointOwn, BoundsAssumption DEF TypeOK
<1>3. e \in SUBSET Effects
  <2>1. (n + 1)..steps[t] \subseteq Steps
    BY <1>2, BoundsAssumption DEF Steps
  <2> HIDE DEF n
  <2> QED
    BY <2>1 DEF Effects
<1>4. draftId[t] \in Turns
  BY <1>1 DEF TypeOK
<1>5. CASE commits /\ Conflict(t)
  <2>1. GivesUp(t) /\ refused' = refused \cup {t}
    BY <1>5 DEF Finalize
  <2> QED
    BY <2>1, GivesUpEffects
<1>6. CASE ~(commits /\ Conflict(t))
  <2>1. /\ refused' = refused
        /\ Ends(t, F \o InterruptOps(t, kept, entry, e))
    BY <1>6 DEF Finalize
  <2>2. script' = F \o InterruptOps(t, kept, entry, e) /\ Ends(t, script')
    BY <2>1 DEF Ends
  <2>3. F \in Seq(Ops)
    BY <1>1, FlushScript
  <2>4. entry \in Seq(Ops)
    <3>1. PICK g \in OwnGroups : Entry(t, "interrupted", n) = [op |-> "append", group |-> g]
      BY <1>1, <1>2, EntryOK
    <3>2. Entry(t, "interrupted", n) \in Ops
      BY <3>1, OpIntro DEF OwnGroups
    <3> QED
      BY <3>2
  <2>5. InterruptOps(t, kept, entry, e) = entry \o R /\ R \in Seq(Ops)
    <3> HIDE DEF kept, entry, e
    <3> QED
      BY <1>3, <1>4, <2>4, InterruptSplit
  <2>6. ASSUME NEW k \in 1..steps[t] PROVE ScriptTells(script', t, k)
    <3>1. ScriptTells(entry, t, k) \/ ScriptTells(R, t, k)
      <4>1. CASE k <= n
        <5>1. kept # None
          BY <1>2, <4>1
        <5>2. entry = <<Entry(t, "interrupted", n)>>
          BY <5>1
        <5> HIDE DEF n, entry
        <5> QED
          BY <4>1, <5>2, EntryTells
      <4>2. CASE ~(k <= n)
        <5>1. k \in (n + 1)..steps[t]
          BY <1>2, <4>2
        <5>2. <<t, k>> \in e
          BY <5>1
        <5> HIDE DEF e, kept
        <5> QED
          BY <1>3, <1>4, <5>2, RemainderTells
      <4> QED
        BY <4>1, <4>2
    <3> HIDE DEF entry, R, F
    <3>2. entry \o R \in Seq(Ops) /\ ScriptTells(entry \o R, t, k)
      BY <2>4, <2>5, <3>1, ConcatTells
    <3>3. ScriptTells(F \o (entry \o R), t, k)
      BY <2>3, <3>2, ConcatTells
    <3> QED
      BY <2>2, <2>5, <3>3
  <2> QED
    BY <2>1, <2>2, <2>6, EndEffects
<1> QED
  BY <1>5, <1>6

LEMMA CompleteTells ==
  ASSUME Inv, NEW t \in Turns, NEW n \in 1..steps[t]
  PROVE  ScriptTells(FlushOps(t) \o <<Entry(t, "complete", steps[t])>>
                       \o ClearDraft \o RecoveryCleared(t), t, n)
<1> DEFINE F == FlushOps(t)
           E == <<Entry(t, "complete", steps[t])>>
           C == ClearDraft
           R == RecoveryCleared(t)
<1>1. TypeOK /\ QueueOwn /\ steps[t] \in 0..MaxSteps /\ steps[t] <= steps[t]
  BY BoundsAssumption DEF Inv, ClaimsOK, TypeOK
<1>2. F \in Seq(Ops) /\ E \in Seq(Ops) /\ C \in Seq(Ops) /\ R \in Seq(Ops)
  <2>1. F \in Seq(Ops)
    BY <1>1, FlushScript
  <2>2. E \in Seq(Ops)
    <3>1. PICK g \in OwnGroups : Entry(t, "complete", steps[t]) = [op |-> "append", group |-> g]
      BY <1>1, EntryOK
    <3>2. Entry(t, "complete", steps[t]) \in Ops
      BY <3>1, OpIntro DEF OwnGroups
    <3> QED
      BY <3>2
  <2>3. PlainOps \subseteq Ops
    BY QuietFacts
  <2> HIDE DEF F, E, C, R
  <2>4. C \in Seq(PlainOps) /\ R \in Seq(PlainOps)
    BY ClearDraftOK, RecoveryClearedOK DEF C, R
  <2> QED
    BY <2>1, <2>2, <2>3, <2>4, SeqMonotonic
<1>3. ScriptTells(E, t, n)
  <2>1. n <= steps[t]
    BY <1>1
  <2> QED
    BY <2>1, EntryTells
<1> HIDE DEF F, E, C, R
<1>4. F \o E \in Seq(Ops) /\ ScriptTells(F \o E, t, n)
  BY <1>2, <1>3, ConcatTells
<1>5. (F \o E) \o C \in Seq(Ops) /\ ScriptTells((F \o E) \o C, t, n)
  BY <1>2, <1>4, ConcatTells
<1>6. ScriptTells(((F \o E) \o C) \o R, t, n)
  BY <1>2, <1>5, ConcatTells
<1> QED
  BY <1>6 DEF F, E, C, R

LEMMA CompleteEffects ==
  ASSUME Inv, DurableInv, EffectsInv, NEW t \in Turns, Complete(t) PROVE EffectsInv'
<1>1. Settled /\ phase[t] \in Live /\ UNCHANGED <<disk, steps, excused>>
  BY DEF Complete, Live, turnVars
<1>2. Flushable(t)
  BY <1>1, LiveFlushable
<1>3. CASE Conflict(t)
  BY <1>1, <1>2, <1>3, FinalizeEffects DEF Complete
<1>4. CASE ~Conflict(t)
  <2>1. /\ refused' = refused
        /\ Ends(t, FlushOps(t) \o <<Entry(t, "complete", steps[t])>>
                     \o ClearDraft \o RecoveryCleared(t))
    BY <1>2, <1>4 DEF Complete
  <2>2. Ends(t, script') /\ \A n \in 1..steps[t] : ScriptTells(script', t, n)
    BY <2>1, CompleteTells DEF Ends
  <2> QED
    BY <1>1, <2>1, <2>2, EndEffects
<1> QED
  BY <1>3, <1>4

LEMMA InterruptEffects ==
  ASSUME Inv, DurableInv, EffectsInv, NEW t \in Turns, Interrupt(t) PROVE EffectsInv'
<1>1. Settled /\ phase[t] \in Live /\ UNCHANGED <<disk, steps, excused>>
  BY DEF Interrupt, turnVars
<1>2. Flushable(t)
  BY <1>1, LiveFlushable
<1> QED
  BY <1>1, <1>2, FinalizeEffects DEF Interrupt

\* Steps that end no turn.
LEMMA QuietEffects ==
  ASSUME Inv, DurableInv, EffectsInv, NEW t \in Turns,
         \/ Start(t) \/ BeginTurn(t) \/ RecordPatch(t) \/ BeforeTool(t)
         \/ ToolDone(t) \/ EndBatch(t) \/ TimerFires(t)
  PROVE  EffectsInv'
<1>1. /\ TypeOK /\ Settled /\ \A u \in Turns : phase[u] # "ending"
      /\ phase \in [Turns -> Phases] /\ steps \in [Turns -> 0..MaxSteps]
  BY Idle DEF Inv, TypeOK, Start, BeginTurn, RecordPatch, BeforeTool, ToolDone, EndBatch,
              TimerFires
<1>2. UNCHANGED <<log, ledger, excused, refused>>
  BY DEF Start, BeginTurn, RecordPatch, BeforeTool, ToolDone, EndBatch, TimerFires, disk
<1>3. CASE UNCHANGED <<phase, steps>>
  BY <1>1, <1>2, <1>3, NobodyEnds
<1>4. CASE /\ \E p \in {"assembling", "thinking", "tool", "batch"} :
                phase' = [phase EXCEPT ![t] = p]
           /\ \A u \in Turns \ {t} : steps'[u] = steps[u]
  <2>1. \A u \in Turns : phase'[u] = "done" => u # t /\ phase[u] = "done"
    BY <1>1, <1>4
  <2>2. \A u \in Turns : phase'[u] # "ending"
    BY <1>1, <1>4
  <2> QED
    BY <1>1, <1>2, <1>4, <2>1, <2>2, NobodyEnds
<1>5. CASE Start(t) \/ BeginTurn(t) \/ EndBatch(t)
  BY <1>4, <1>5 DEF Start, BeginTurn, EndBatch
<1>6. CASE ToolDone(t)
  BY <1>1, <1>4, <1>6 DEF ToolDone
<1>7. CASE RecordPatch(t) \/ TimerFires(t)
  BY <1>3, <1>7 DEF RecordPatch, TimerFires, turnVars
<1>8. CASE BeforeTool(t)
  <2>1. phase[t] \in Live
    BY <1>8 DEF BeforeTool, Live
  <2>2. Flushable(t)
    BY <1>1, <2>1, LiveFlushable
  <2> QED
    BY <1>4, <1>8, <2>2 DEF BeforeTool, turnVars
<1> QED
  BY <1>5, <1>6, <1>7, <1>8

LEMMA LateWriteEffects == ASSUME Inv, EffectsInv, LateWrite PROVE EffectsInv'
<1>1. /\ TypeOK /\ \A u \in Turns : phase[u] # "ending"
      /\ UNCHANGED <<log, ledger, excused, refused, phase, steps>>
  BY Idle DEF LateWrite, Inv, disk, turnVars
<1> QED
  BY <1>1, NobodyEnds

LEMMA DiskStepEffects == ASSUME Inv, EffectsInv, DiskStep PROVE EffectsInv'
<1> DEFINE h == Head(script)
<1>1. /\ UNCHANGED <<steps, refused>> /\ Perform(h) /\ script' = Tail(script)
      /\ h \in Ops /\ h = script[1] /\ Len(script) \in Nat \ {0}
      /\ Len(script') = Len(script) - 1
      /\ \A i \in 1..Len(script') : script'[i] = script[i + 1]
      /\ log \in Seq(Groups) /\ phase \in [Turns -> Phases]
      /\ excused' = IF h.op = "rmLedger" THEN excused \cup ledger ELSE excused
      /\ phase' = [t \in Turns |->
                     IF phase[t] = "ending" /\ Len(script) = 1 THEN "done" ELSE phase[t]]
  BY ScriptHead DEF DiskStep, turnVars, Inv, TypeOK
<1> HIDE DEF h
<1>2. ledger \cup excused \subseteq ledger' \cup excused'
  BY <1>1 DEF Perform, LedgerMerged
<1>3. log' = log \/ (h.op = "append" /\ h.group \in Groups /\ log' = Append(log, h.group))
  BY <1>1, OpFacts DEF Perform
<1>4. ASSUME NEW t, NEW n, Explicit(t, n) PROVE Explicit(t, n)'
  <2>1. CASE log' = log
    <3>1. \E g \in Groups : TRUE
      <4>1. [turn |-> None, kind |-> "write", upto |-> 0,
             patches |-> 0, end |-> "whole"] \in Groups
        BY BoundsAssumption DEF Groups
      <4> QED
        BY <4>1
    <3>2. PICK g \in Groups : TRUE
      BY <3>1
    <3> QED
      BY <1>1, <1>2, <1>4, <2>1, ExplicitStays
  <2>2. CASE h.group \in Groups /\ log' = Append(log, h.group)
    BY <1>1, <1>2, <1>4, <2>2, ExplicitStays
  <2> QED
    BY <1>3, <2>1, <2>2
<1>5. ASSUME NEW t, NEW n, Tells(h, t, n) PROVE Explicit(t, n)'
  <2>1. CASE h.op = "append" /\ h.group.turn = t /\ n <= h.group.upto
    <3>1. h.group \in Groups /\ log' = Append(log, h.group)
      BY <1>1, <2>1, OpFacts DEF Perform
    <3>2. /\ Len(log) + 1 \in 1..Len(log') /\ log'[Len(log) + 1] = h.group
          /\ log' \in Seq(Groups)
      BY <1>1, <3>1, LogGrows
    <3>3. Len(log) + 1 \in DOMAIN log'
      BY <3>2, LenProperties
    <3> QED
      BY <2>1, <3>2, <3>3 DEF Explicit, Committed
  <2>2. CASE h.op = "ledger" /\ <<t, n>> \in h.effects
    BY <1>1, <2>2 DEF Perform, LedgerMerged, Explicit
  <2> QED
    BY <1>5, <2>1, <2>2 DEF Tells
<1>6. ASSUME NEW t, NEW n, ScriptTells(script, t, n)
      PROVE  Explicit(t, n)' \/ ScriptTells(script', t, n)
  <2>1. PICK i \in 1..Len(script) : Tells(script[i], t, n)
    BY <1>6 DEF ScriptTells
  <2>2. CASE i = 1
    BY <1>1, <1>5, <2>1, <2>2
  <2>3. CASE i # 1
    <3>1. i - 1 \in 1..Len(script') /\ (i - 1) + 1 = i
      BY <1>1, <2>1, <2>3
    <3>2. script'[i - 1] = script[i]
      BY <1>1, <3>1
    <3> QED
      BY <2>1, <3>1, <3>2 DEF ScriptTells
  <2> QED
    BY <2>2, <2>3
<1>7. SUFFICES ASSUME NEW t \in Turns \ refused, NEW n \in 1..steps[t]
               PROVE  /\ phase'[t] = "done" => Explicit(t, n)'
                      /\ phase'[t] = "ending" => Explicit(t, n)' \/ ScriptTells(script', t, n)
  BY <1>1 DEF EffectsInv, ScriptTells, Tells
<1>8. CASE phase[t] = "done"
  BY <1>1, <1>4, <1>8 DEF EffectsInv
<1>9. CASE phase[t] = "ending"
  <2>1. Explicit(t, n)' \/ ScriptTells(script', t, n)
    BY <1>4, <1>6, <1>9 DEF EffectsInv
  <2>2. CASE Len(script) = 1
    <3>1. Len(script') = 0
      BY <1>1, <2>2
    <3>2. 1..Len(script') = {}
      BY <3>1
    <3> QED
      BY <2>1, <3>2 DEF ScriptTells
  <2>3. CASE Len(script) # 1
    BY <1>1, <1>9, <2>1, <2>3
  <2> QED
    BY <2>2, <2>3
<1>10. CASE phase[t] \notin {"done", "ending"}
  BY <1>1, <1>10
<1> QED
  BY <1>8, <1>9, <1>10

LEMMA CrashEffects == ASSUME Inv, EffectsInv, Crash PROVE EffectsInv'
<1>1. /\ phase' = [t \in Turns |-> IF phase[t] \in Ended THEN phase[t] ELSE "crashed"]
      /\ UNCHANGED <<steps, refused>> /\ log \in Seq(Groups) /\ TypeOK
  BY DEF Crash, turnVars, Inv, TypeOK
<1>2. \A t \in Turns : phase'[t] # "ending" /\ (phase'[t] = "done" => phase[t] = "done")
  BY <1>1 DEF Ended
<1>3. ASSUME NEW t, NEW n, Explicit(t, n) PROVE Explicit(t, n)'
  <2>1. CASE UNCHANGED <<disk, excused>>
    BY <1>3, <2>1, ExplicitFrame DEF disk
  <2>2. CASE ~Settled /\ CutShort(Head(script))
    <3>1. Head(script) \in Ops
      BY <1>1, <2>2, ScriptHead
    <3>2. ledger \cup excused \subseteq ledger' \cup excused'
      BY <2>2 DEF CutShort
    <3>3. \E g \in Groups : log' = log \/ log' = Append(log, g)
      <4>1. CASE Head(script).op = "append"
        <5>1. PICK end \in {"cut", "torn"} :
                log' = Append(log, [Head(script).group EXCEPT !.end = end])
          BY <2>2, <4>1 DEF CutShort
        <5>2. Head(script).group \in Groups
          BY <3>1, <4>1, OpFacts
        <5>3. [Head(script).group EXCEPT !.end = end] \in Groups
          BY <5>2 DEF Groups
        <5> QED
          BY <5>1, <5>3
      <4>2. CASE Head(script).op # "append"
        <5>1. log' = log
          BY <2>2, <4>2 DEF CutShort
        <5>2. [turn |-> None, kind |-> "write", upto |-> 0,
               patches |-> 0, end |-> "whole"] \in Groups
          BY BoundsAssumption DEF Groups
        <5> QED
          BY <5>1, <5>2
      <4> QED
        BY <4>1, <4>2
    <3> QED
      BY <1>1, <1>3, <3>2, <3>3, ExplicitStays
  <2> QED
    BY <2>1, <2>2 DEF Crash
<1> QED
  BY <1>1, <1>2, <1>3 DEF EffectsInv

LEMMA InitEffects == Init => EffectsInv
BY DEF Init, EffectsInv

LEMMA NextEffects ==
  ASSUME Inv, DurableInv, EffectsInv, [Next]_vars PROVE EffectsInv'
<1>1. ASSUME UNCHANGED vars PROVE EffectsInv'
  <2>1. UNCHANGED <<log, ledger, excused, refused, steps, phase, script>>
    BY <1>1 DEF vars, disk, turnVars
  <2> QED
    BY <2>1, ExplicitFrame DEF EffectsInv, ScriptTells, Tells
<1>2. ASSUME NEW t \in Turns,
             \/ Start(t) \/ BeginTurn(t) \/ RecordPatch(t) \/ BeforeTool(t)
             \/ ToolDone(t) \/ EndBatch(t) \/ TimerFires(t)
      PROVE  EffectsInv'
  BY <1>2, QuietEffects
<1>3. ASSUME NEW t \in Turns, AssemblyFails(t) \/ Complete(t) \/ Interrupt(t)
      PROVE  EffectsInv'
  BY <1>3, AssemblyFailsEffects, CompleteEffects, InterruptEffects
<1>4. ASSUME DiskStep \/ LateWrite \/ Crash PROVE EffectsInv'
  BY <1>4, DiskStepEffects, LateWriteEffects, CrashEffects
<1> QED
  BY <1>1, <1>2, <1>3, <1>4 DEF Next

\* Every tool result of a turn that ended in a live process, and whose commit
\* met no conflict, is in the history or in the ledger of side effects, until
\* a completed turn clears the ledger or a crash cuts its file: whatever was
\* not sealed is told by the interrupted artifact's ledger
\* (finalizeInterruptedTurn), in every order of timers, writes and crashes.
THEOREM EffectsAreAccounted == Spec => []SideEffectsRecorded
<1>1. EffectsInv => SideEffectsRecorded
  BY DEF EffectsInv, SideEffectsRecorded
<1>2. Inv /\ DurableInv /\ [Next]_vars => DurableInv'
  BY NextDurable
<1>3. Inv /\ DurableInv /\ EffectsInv /\ [Next]_vars => EffectsInv'
  BY NextEffects
<1> QED
  BY <1>1, <1>2, <1>3, InitDurable, InitEffects, Invariance, PTL DEF Spec
=============================================================================
