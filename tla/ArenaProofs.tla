----------------------------- MODULE ArenaProofs -----------------------------
(***************************************************************************)
(* What holds of every arena, for any number of arenas, contestants, files *)
(* and steps.  The invariant ties the record of an arena together: the lock*)
(* and the status, the submissions and the winner, the winner and the      *)
(* proposal, the judge and the branches.                                   *)
(***************************************************************************)
EXTENDS Arena, TLAPS

\* A branch that can win has submitted.
EligibleSubmitted ==
    \A a \in Arenas, b \in Branches : branch[a][b] \in WinnerEligible => sub[a][b] > 0

WinnerSubmitted ==
    \A a \in Arenas : winner[a] # None => sub[a][winner[a]] > 0

\* After the proposal the winner stays, and the arena goes neither back to its
\* branches nor to the judge.
ProposalIsWinners ==
    \A a \in Arenas : proposal[a] # None =>
        /\ winner[a] # None /\ proposal[a].of = winner[a]
        /\ status[a] \in {"proposal_ready", "applied", "closed"}

JudgedIsReady ==
    \A a \in Arenas : judge[a] # "none" =>
        /\ status[a] \in {"judging", "proposal_ready", "applied", "closed"}
        /\ \A b \in Branches : branch[a][b] \in JudgeReady \cup {"absent"}

JudgesWereAsked == \A a \in judges : judge[a] # "none"

ArenaInv ==
    /\ ArenaTypeOK
    /\ LockFollowsArena
    /\ EligibleSubmitted
    /\ WinnerSubmitted
    /\ ProposalIsWinners
    /\ JudgedIsReady
    /\ JudgesWereAsked

------------------------------------------------------------------------------
(* What the tables of transitions allow. *)

\* Nothing leads out of an ended arena, back to a draft, or from a judged arena
\* to work.
LEMMA RunTable ==
  ASSUME NEW s \in RunStatus, NEW t, t \in RunNext[s]
  PROVE  /\ s \notin {"none", "applied", "closed"}
         /\ t = "preparing" => s = "draft"
         /\ t = "running" => s \in {"preparing", "paused"}
         /\ t = "paused" => s \in {"preparing", "running"}
         /\ t = "judging" => s \in {"running", "paused"}
  BY DEF RunNext, RunStatus

\* Only a branch that has submitted is promoted; one that is ready for the
\* judge fails no more.
LEMMA BranchTable ==
  ASSUME NEW s \in BranchStatus, NEW t, t \in BranchNext[s]
  PROVE  /\ t = "promoted" => s \in {"submitted", "blocked", "frozen"}
         /\ t = "failed" => s \in {"preparing", "running", "reopened"}
         /\ s # "absent"
  BY DEF BranchNext, BranchStatus, JudgeReady, StoppedByClose

------------------------------------------------------------------------------
(* Type correctness. *)

\* Changing one entry of a table of branches.
LEMMA EntryChanged ==
  ASSUME NEW V, NEW g \in [Arenas -> [Branches -> V]],
         NEW a \in Arenas, NEW b \in Branches, NEW v \in V
  PROVE  /\ [g EXCEPT ![a][b] = v] \in [Arenas -> [Branches -> V]]
         /\ \A c \in Arenas, d \in Branches :
               [g EXCEPT ![a][b] = v][c][d] = IF c = a /\ d = b THEN v ELSE g[c][d]
<1>1. g[a] \in [Branches -> V]
  OBVIOUS
<1>2. [g[a] EXCEPT ![b] = v] \in [Branches -> V]
  BY <1>1
<1> QED  BY <1>1, <1>2

AgentStates == {"none", "starting", "working", "stopping"}

LEMMA BranchEntry ==
  ASSUME ArenaTypeOK, NEW a \in Arenas, NEW b \in Branches, NEW s \in BranchStatus,
         branch' = [branch EXCEPT ![a][b] = s]
  PROVE  /\ branch' \in [Arenas -> [Branches -> BranchStatus]]
         /\ \A c \in Arenas, d \in Branches :
               branch'[c][d] = IF c = a /\ d = b THEN s ELSE branch[c][d]
<1>1. branch \in [Arenas -> [Branches -> BranchStatus]]
  BY DEF ArenaTypeOK
<1> QED  BY <1>1, EntryChanged

LEMMA SubEntry ==
  ASSUME ArenaTypeOK, NEW a \in Arenas, NEW b \in Branches,
         sub' = [sub EXCEPT ![a][b] = @ + 1]
  PROVE  /\ sub' \in [Arenas -> [Branches -> Nat]]
         /\ sub'[a][b] > 0
         /\ \A c \in Arenas, d \in Branches : c # a \/ d # b => sub'[c][d] = sub[c][d]
<1>1. sub \in [Arenas -> [Branches -> Nat]] /\ sub[a][b] \in Nat
  BY DEF ArenaTypeOK
<1> DEFINE n == sub[a][b] + 1
<1>2. n \in Nat /\ n > 0 /\ sub' = [sub EXCEPT ![a][b] = n]
  BY <1>1
<1> HIDE DEF n
<1> QED  BY <1>1, <1>2, EntryChanged

LEMMA AgentEntry ==
  ASSUME ArenaTypeOK, NEW a \in Arenas, NEW b \in Branches, NEW s \in AgentStates,
         agent' = [agent EXCEPT ![a][b] = s]
  PROVE  agent' \in [Arenas -> [Branches -> AgentStates]]
<1>1. agent \in [Arenas -> [Branches -> AgentStates]]
  BY DEF ArenaTypeOK, AgentStates
<1> QED  BY <1>1, EntryChanged

LEMMA MarkedType ==
  ASSUME ArenaTypeOK, NEW a \in Arenas, NEW bs, NEW t \in BranchStatus
  PROVE  Marked(a, bs, t) \in [Arenas -> [Branches -> BranchStatus]]
  BY DEF Marked, ArenaTypeOK

LEMMA RunsType ==
  ASSUME ArenaTypeOK, NEW a \in Arenas, NEW bs \in SUBSET Branches,
         StopRuns(a, bs) \/ StartRuns(a, bs)
  PROVE  agent' \in [Arenas -> [Branches -> {"none", "starting", "working", "stopping"}]]
<1>1. agent[a] \in [Branches -> {"none", "starting", "working", "stopping"}]
  BY DEF ArenaTypeOK
<1>2. ASSUME NEW g \in [Branches -> {"none", "starting", "working", "stopping"}]
      PROVE  [agent EXCEPT ![a] = g]
                \in [Arenas -> [Branches -> {"none", "starting", "working", "stopping"}]]
  BY DEF ArenaTypeOK
<1>3. [b \in Branches |-> IF b \in bs /\ agent[a][b] = "working"
                           THEN "stopping" ELSE agent[a][b]]
        \in [Branches -> {"none", "starting", "working", "stopping"}]
  BY <1>1
<1>4. [b \in Branches |-> IF b \in bs /\ agent[a][b] = "none"
                           THEN "starting" ELSE agent[a][b]]
        \in [Branches -> {"none", "starting", "working", "stopping"}]
  BY <1>1
<1> QED  BY <1>2, <1>3, <1>4 DEF StopRuns, StartRuns

LEMMA PreparedType ==
  ASSUME ArenaTypeOK, NEW a \in Arenas, NEW bs, Prepared(a, bs)
  PROVE  work' \in [Arenas -> [Branches -> Contents \cup {None}]]
  BY DEF Prepared, ArenaTypeOK

LEMMA HandlerType ==
  ASSUME ArenaTypeOK, NEW a \in Arenas, Handler(a)
  PROVE  ArenaTypeOK'
<1> USE DEF stored, files, process, BranchStatus, JudgeReady, StoppedByClose, RunStatus
<1>1. CASE CreateArena(a)
  BY <1>1 DEF CreateArena, Drafted, ArenaTypeOK
<1>2. CASE UpdateConfig(a)
  BY <1>2 DEF UpdateConfig, Drafted, ArenaTypeOK
<1>3. CASE Start(a)
  <2>1. work' \in [Arenas -> [Branches -> Contents \cup {None}]]
    BY <1>3, PreparedType DEF Start
  <2>2. branch' \in [Arenas -> [Branches -> BranchStatus]]
    BY <1>3, MarkedType DEF Start
  <2>3. /\ agent' \in [Arenas -> [Branches -> {"none", "starting", "working", "stopping"}]]
        /\ refused' \subseteq Arenas \X Branches
    <3>1. InDraft(a) \in SUBSET Branches
      BY DEF InDraft
    <3> QED  BY <1>3, <3>1, RunsType DEF Start, StartRuns, ArenaTypeOK
  <2> QED  BY <1>3, <2>1, <2>2, <2>3 DEF Start, ArenaTypeOK
<1>4. CASE StartFails(a)
  <2>1. PICK bs \in SUBSET InDraft(a) : Prepared(a, bs) /\ branch' = Marked(a, bs, "preparing")
    BY <1>4 DEF StartFails
  <2>2. work' \in [Arenas -> [Branches -> Contents \cup {None}]]
    BY <2>1, PreparedType
  <2>3. branch' \in [Arenas -> [Branches -> BranchStatus]]
    BY <2>1, MarkedType
  <2> QED  BY <1>4, <2>2, <2>3 DEF StartFails, ArenaTypeOK
<1>5. CASE Pause(a)
  <2> DEFINE bs == {b \in Branches : branch[a][b] \in {"running", "preparing"}}
  <2>1. branch' \in [Arenas -> [Branches -> BranchStatus]]
    BY <1>5, MarkedType DEF Pause
  <2>2. StopRuns(a, bs)
    BY <1>5 DEF Pause
  <2>3. agent' \in [Arenas -> [Branches -> {"none", "starting", "working", "stopping"}]]
    BY <2>2, RunsType
  <2> QED  BY <1>5, <2>1, <2>3 DEF Pause, ArenaTypeOK
<1>6. CASE Resume(a)
  <2> DEFINE bs == {b \in Branches : branch[a][b] = "paused"}
  <2>1. branch' \in [Arenas -> [Branches -> BranchStatus]]
    BY <1>6, MarkedType DEF Resume
  <2>2. StartRuns(a, bs)
    BY <1>6 DEF Resume
  <2>3. agent' \in [Arenas -> [Branches -> {"none", "starting", "working", "stopping"}]]
    BY <2>2, RunsType
  <2>4. refused' \subseteq Arenas \X Branches
    BY <2>2 DEF StartRuns, ArenaTypeOK
  <2> QED  BY <1>6, <2>1, <2>3, <2>4 DEF Resume, ArenaTypeOK
<1>7. CASE Close(a)
  <2> DEFINE bs == {b \in Branches : branch[a][b] \in StoppedByClose}
  <2>1. branch' \in [Arenas -> [Branches -> BranchStatus]]
    BY <1>7, MarkedType DEF Close
  <2>2. StopRuns(a, bs)
    BY <1>7 DEF Close
  <2>3. agent' \in [Arenas -> [Branches -> {"none", "starting", "working", "stopping"}]]
    BY <2>2, RunsType
  <2> QED  BY <1>7, <2>1, <2>3 DEF Close, ArenaTypeOK
<1>8. CASE Judge(a)
  BY <1>8 DEF Judge, ArenaTypeOK
<1>9. CASE CreateProposal(a)
  <2>1. [of |-> winner[a], source |-> source, work |-> work[a][winner[a]],
         status |-> "ready"] \in Proposals
    BY <1>9 DEF CreateProposal, Proposals, ArenaTypeOK
  <2> QED  BY <1>9, <2>1 DEF CreateProposal, ArenaTypeOK
<1>10. CASE Apply(a)
  <2>1. CASE proposal[a] = None /\ UNCHANGED <<source, proposal>>
    BY <1>10, <2>1 DEF Apply, ArenaTypeOK
  <2>2. CASE /\ proposal[a] # None
             /\ source' = proposal[a].work
             /\ proposal' = [proposal EXCEPT ![a].status = "applied"]
    <3>1. proposal[a] \in Proposals
      BY <2>2 DEF ArenaTypeOK
    <3>2. source' \in Contents
      BY <2>2, <3>1 DEF Proposals
    <3>3. proposal' \in [Arenas -> Proposals \cup {None}]
      BY <2>2, <3>1 DEF Proposals, ArenaTypeOK
    <3> QED  BY <1>10, <3>2, <3>3 DEF Apply, ArenaTypeOK
  <2> QED  BY <1>10, <2>1, <2>2 DEF Apply
<1>11. ASSUME NEW b \in Branches, SelectWinner(a, b)
       PROVE  ArenaTypeOK'
  BY <1>11 DEF SelectWinner, ArenaTypeOK
<1>12. ASSUME NEW b \in Branches, Reopen(a, b) \/ Promote(a, b)
       PROVE  ArenaTypeOK'
  <2>1. /\ {"reopened", "promoted"} \subseteq BranchStatus
        /\ \E t \in {"reopened", "promoted"} : branch' = [branch EXCEPT ![a][b] = t]
    BY <1>12 DEF Reopen, Promote
  <2> HIDE DEF BranchStatus
  <2>2. branch' \in [Arenas -> [Branches -> BranchStatus]]
    BY <2>1, BranchEntry
  <2> QED  BY <1>12, <2>2 DEF Reopen, Promote, ArenaTypeOK
<1> QED  BY <1>1, <1>2, <1>3, <1>4, <1>5, <1>6, <1>7, <1>8, <1>9, <1>10, <1>11, <1>12 DEF Handler

LEMMA AgentType ==
  ASSUME ArenaTypeOK, NEW a \in Arenas, AgentStep(a)
  PROVE  ArenaTypeOK'
<1> USE DEF stored, files, process
<1>1. CASE JudgeEnds(a)
  BY <1>1 DEF JudgeEnds, ArenaTypeOK
<1>2. ASSUME NEW b \in Branches, RunRegisters(a, b) \/ RunEnds(a, b)
      PROVE  ArenaTypeOK'
  <2>1. \E s \in AgentStates : agent' = [agent EXCEPT ![a][b] = s]
    BY <1>2 DEF RunRegisters, RunEnds, AgentStates
  <2>2. agent' \in [Arenas -> [Branches -> AgentStates]]
    BY <2>1, AgentEntry
  <2> QED  BY <1>2, <2>2 DEF RunRegisters, RunEnds, ArenaTypeOK, AgentStates
<1>3. ASSUME NEW b \in Branches, Submit(a, b)
      PROVE  ArenaTypeOK'
  <2>1. \E s \in BranchStatus : branch' = [branch EXCEPT ![a][b] = s]
    BY <1>3 DEF Submit, BranchStatus, JudgeReady
  <2>2. branch' \in [Arenas -> [Branches -> BranchStatus]]
    BY <2>1, BranchEntry
  <2>3. sub' \in [Arenas -> [Branches -> Nat]]
    BY <1>3, SubEntry DEF Submit
  <2> QED  BY <1>3, <2>2, <2>3 DEF Submit, ArenaTypeOK
<1>4. ASSUME NEW b \in Branches, RunRejects(a, b) \/ RefusedRejects(a, b)
      PROVE  ArenaTypeOK'
  <2>1. CASE ProcessEnds
    BY <2>1 DEF ProcessEnds, ArenaTypeOK
  <2>2. CASE branch' = [branch EXCEPT ![a][b] = "failed"]
    <3>1. branch' \in [Arenas -> [Branches -> BranchStatus]]
      BY <2>2, BranchEntry DEF BranchStatus, JudgeReady
    <3>2. \/ agent' = [agent EXCEPT ![a][b] = "none"]
          \/ agent' = agent
          \/ agent' = [c \in Arenas |-> [d \in Branches |-> "none"]]
      BY <1>4 DEF RunRejects, RefusedRejects, ProcessEnds
    <3>3. "none" \in AgentStates /\ agent \in [Arenas -> [Branches -> AgentStates]]
      BY DEF ArenaTypeOK, AgentStates
    <3>4. agent' \in [Arenas -> [Branches -> AgentStates]]
      BY <3>2, <3>3, AgentEntry
    <3> QED  BY <1>4, <3>1, <3>4 DEF RunRejects, RefusedRejects, ProcessEnds, ArenaTypeOK, AgentStates
  <2> QED  BY <1>4, <2>1, <2>2 DEF RunRejects, RefusedRejects
<1>5. ASSUME NEW b \in Branches, NEW f \in Files, BranchEdits(a, b, f)
      PROVE  ArenaTypeOK'
  <2>1. work[a][b] \in Contents /\ edits + 1 \in Nat
    BY <1>5 DEF BranchEdits, ArenaTypeOK
  <2>2. [work[a][b] EXCEPT ![f] = edits + 1] \in Contents
    BY <2>1 DEF Contents
  <2> QED  BY <1>5, <2>1, <2>2 DEF BranchEdits, ArenaTypeOK
<1> QED  BY <1>1, <1>2, <1>3, <1>4, <1>5 DEF AgentStep

LEMMA Typing == ArenaTypeOK /\ [Next]_vars => ArenaTypeOK'
<1> SUFFICES ASSUME ArenaTypeOK, [Next]_vars PROVE ArenaTypeOK'
  OBVIOUS
<1>1. ASSUME NEW f \in Files, SourceEdited(f) PROVE ArenaTypeOK'
  BY <1>1 DEF SourceEdited, ArenaTypeOK, Contents, stored, process
<1>2. CASE ProcessEnds
  BY <1>2 DEF ProcessEnds, ArenaTypeOK, stored, files
<1>3. CASE UNCHANGED vars
  BY <1>3 DEF vars, stored, files, process, ArenaTypeOK
<1> QED  BY <1>1, <1>2, <1>3, HandlerType, AgentType DEF Next

LEMMA InitType == Init => ArenaTypeOK
  BY DEF Init, ArenaTypeOK, RunStatus, BranchStatus, Contents

\* The record of every arena is well formed.
THEOREM TypeCorrect == ArenaSpec => []ArenaTypeOK
  BY InitType, Typing, PTL DEF ArenaSpec

------------------------------------------------------------------------------
(* What one step does to the record of an arena.                           *)

Judged == {"judging", "proposal_ready", "applied", "closed"}
Reviewed == {"proposal_ready", "applied", "closed"}

\* To one of its branches.
BranchStep(c, d) ==
    \/ branch'[c][d] = branch[c][d] /\ sub'[c][d] = sub[c][d]
    \/ /\ sub'[c][d] = sub[c][d]
       /\ \/ /\ status[c] \notin Judged
             /\ branch'[c][d] \in StoppedByClose \cup {"absent", "draft"}
          \/ branch'[c][d] \in {"cancelled", "failed"}
          \/ branch'[c][d] = "promoted" /\ branch[c][d] \in WinnerEligible
    \/ /\ branch[c][d] \in {"running", "reopened"}
       /\ branch'[c][d] \in {"submitted", "blocked"}
       /\ sub'[c][d] > 0

\* To the rest of it.
RecordStep(c) ==
    /\ status[c] \in Judged => status'[c] \in Judged
    /\ status[c] \in Reviewed => status'[c] \in Reviewed
    /\ \/ winner'[c] = winner[c]
       \/ /\ proposal[c] = None /\ proposal'[c] = None
          /\ winner'[c] \in Branches /\ branch[c][winner'[c]] \in WinnerEligible
          /\ \A d \in Branches : branch'[c][d] = branch[c][d] /\ sub'[c][d] = sub[c][d]
    /\ \/ proposal'[c] = proposal[c]
       \/ /\ winner[c] # None /\ winner'[c] = winner[c]
          /\ proposal'[c].of = winner[c] /\ status'[c] \in Reviewed
    /\ \/ judge'[c] = "none"
       \/ judge[c] # "none"
       \/ /\ status'[c] \in Judged
          /\ \A d \in Branches : branch'[c][d] \in JudgeReady \cup {"absent"}
    /\ c \in judges' => judge'[c] # "none"

LEMMA MarkedEntry ==
  ASSUME ArenaTypeOK, NEW a \in Arenas, NEW bs, NEW t
  PROVE  \A c \in Arenas, d \in Branches :
            Marked(a, bs, t)[c][d] = IF c = a /\ d \in bs THEN t ELSE branch[c][d]
  BY DEF Marked, ArenaTypeOK

LEMMA DraftedEntry ==
  ASSUME ArenaTypeOK, NEW a \in Arenas, NEW bs
  PROVE  \A c \in Arenas, d \in Branches :
            /\ Drafted(a, bs)[c][d] \in StoppedByClose \cup {"absent", "draft"} \/ c # a
            /\ c # a => Drafted(a, bs)[c][d] = branch[c][d]
  BY DEF Drafted, ArenaTypeOK

\* A step that leaves the branches of c alone.
LEMMA BranchesKept ==
  ASSUME NEW c \in Arenas, UNCHANGED <<branch, sub>>
  PROVE  \A d \in Branches : BranchStep(c, d)
  BY DEF BranchStep

\* A step of the branches or of the status alone, that judges nobody.
LEMMA RecordKept ==
  ASSUME ArenaInv, NEW c \in Arenas, UNCHANGED <<winner, proposal, judge, judges>>,
         status[c] \in Judged => status'[c] \in Judged,
         status[c] \in Reviewed => status'[c] \in Reviewed
  PROVE  RecordStep(c)
  BY DEF RecordStep, ArenaInv, JudgesWereAsked

LEMMA HandlerStep ==
  ASSUME ArenaInv, NEW a \in Arenas, Handler(a), NEW c \in Arenas
  PROVE  RecordStep(c) /\ \A d \in Branches : BranchStep(c, d)
<1> USE DEF stored, files, process
<1>0. ArenaTypeOK
  BY DEF ArenaInv
<1>1. status[a] \in RunStatus /\ status[c] \in RunStatus
  BY <1>0 DEF ArenaTypeOK
<1>2. ASSUME NEW s, status' = [status EXCEPT ![a] = s]
      PROVE  status'[c] = IF c = a THEN s ELSE status[c]
  BY <1>0, <1>2 DEF ArenaTypeOK
<1>3. CASE CreateArena(a)
  <2>1. status[a] = "none" /\ status' = [status EXCEPT ![a] = "draft"]
    BY <1>3 DEF CreateArena
  <2>2. RecordStep(c)
    BY <1>2, <1>3, <2>1, RecordKept DEF CreateArena, Judged, Reviewed
  <2>3. \A d \in Branches : BranchStep(c, d)
    BY <1>0, <1>3, <2>1, DraftedEntry DEF CreateArena, BranchStep, Judged
  <2> QED  BY <2>2, <2>3
<1>4. CASE UpdateConfig(a)
  <2>1. RecordStep(c)
    BY <1>4, RecordKept DEF UpdateConfig
  <2>2. \A d \in Branches : BranchStep(c, d)
    BY <1>0, <1>4, DraftedEntry DEF UpdateConfig, BranchStep, Judged
  <2> QED  BY <2>1, <2>2
<1>5. CASE Start(a) \/ StartFails(a)
  <2>1. status[a] = "draft"
    BY <1>1, <1>5, RunTable DEF Start, StartFails, CanSet
  <2>2. RecordStep(c)
    BY <1>2, <1>5, <2>1, RecordKept DEF Start, StartFails, Judged, Reviewed
  <2>3. \E bs, t : t \in StoppedByClose /\ branch' = Marked(a, bs, t)
    BY <1>5 DEF Start, StartFails, StoppedByClose
  <2>4. \A d \in Branches : BranchStep(c, d)
    BY <1>0, <1>5, <2>1, <2>3, MarkedEntry DEF Start, StartFails, BranchStep, Judged
  <2> QED  BY <2>2, <2>4
<1>6. CASE Pause(a) \/ Resume(a)
  <2>1. status[a] \in {"preparing", "running", "paused"}
    BY <1>1, <1>6, RunTable DEF Pause, Resume, CanSet
  <2>2. RecordStep(c)
    BY <1>2, <1>6, <2>1, RecordKept DEF Pause, Resume, Judged, Reviewed
  <2>3. \E bs, t : t \in StoppedByClose /\ branch' = Marked(a, bs, t)
    BY <1>6 DEF Pause, Resume, StoppedByClose
  <2>4. \A d \in Branches : BranchStep(c, d)
    BY <1>0, <1>6, <2>1, <2>3, MarkedEntry DEF Pause, Resume, BranchStep, Judged
  <2> QED  BY <2>2, <2>4
<1>7. CASE Close(a)
  <2>1. RecordStep(c)
    BY <1>2, <1>7, RecordKept DEF Close, Judged, Reviewed
  <2>2. \E bs : branch' = Marked(a, bs, "cancelled")
    BY <1>7 DEF Close
  <2>3. \A d \in Branches : BranchStep(c, d)
    BY <1>0, <1>7, <2>2, MarkedEntry DEF Close, BranchStep
  <2> QED  BY <2>1, <2>3
<1>8. CASE Judge(a)
  <2>1. status[a] \in {"judging", "running", "paused"} /\ status'[c] = IF c = a THEN "judging" ELSE status[c]
    BY <1>1, <1>2, <1>8, RunTable DEF Judge, CanSet
  <2>2. c # a => judge'[c] = judge[c]
    BY <1>0, <1>8 DEF Judge, ArenaTypeOK
  <2>3. c = a /\ judge' # judge => judge'[c] = "asked"
    BY <1>0, <1>8 DEF Judge, ArenaTypeOK
  <2>4. c \in judges' => judge'[c] # "none"
    BY <1>0, <1>8, <2>2 DEF Judge, ArenaInv, JudgesWereAsked, ArenaTypeOK
  <2>5. RecordStep(c)
    BY <1>8, <2>1, <2>2, <2>4 DEF Judge, RecordStep, Judged, Reviewed
  <2> QED  BY <1>8, <2>5, BranchesKept DEF Judge
<1>9. CASE CreateProposal(a)
  <2>1. /\ winner[a] # None /\ status'[c] = IF c = a THEN "proposal_ready" ELSE status[c]
        /\ status[a] \in {"running", "paused", "judging"}
    BY <1>2, <1>9 DEF CreateProposal
  <2>2. IF c = a THEN proposal'[c].of = winner[a] ELSE proposal'[c] = proposal[c]
    BY <1>0, <1>9 DEF CreateProposal, ArenaTypeOK
  <2>3. RecordStep(c)
    BY <1>9, <2>1, <2>2 DEF CreateProposal, RecordStep, Judged, Reviewed, ArenaInv, JudgesWereAsked
  <2> QED  BY <1>9, <2>3, BranchesKept DEF CreateProposal
<1>10. CASE Apply(a)
  <2>1. status'[c] = IF c = a THEN "applied" ELSE status[c]
    BY <1>2, <1>10 DEF Apply
  <2>2. \/ proposal' = proposal
        \/ proposal[a] # None /\ proposal' = [proposal EXCEPT ![a].status = "applied"]
    BY <1>10 DEF Apply
  <2>3. \/ proposal'[c] = proposal[c]
        \/ c = a /\ proposal[a] # None /\ proposal'[c].of = proposal[c].of
    <3>1. CASE proposal[a] # None /\ proposal' = [proposal EXCEPT ![a].status = "applied"]
      <4>1. proposal[a] \in Proposals /\ DOMAIN proposal = Arenas
        BY <1>0, <3>1 DEF ArenaTypeOK
      <4>2. proposal' = [proposal EXCEPT ![a] = [proposal[a] EXCEPT !.status = "applied"]]
        BY <3>1
      <4>3. [proposal[a] EXCEPT !.status = "applied"].of = proposal[a].of
        BY <4>1 DEF Proposals
      <4> QED  BY <3>1, <4>1, <4>2, <4>3
    <3> QED  BY <2>2, <3>1
  <2>4. RecordStep(c)
    BY <1>10, <2>1, <2>3 DEF Apply, RecordStep, Judged, Reviewed, ArenaInv, ProposalIsWinners, JudgesWereAsked
  <2> QED  BY <1>10, <2>4, BranchesKept DEF Apply
<1>11. ASSUME NEW b \in Branches, SelectWinner(a, b)
       PROVE  RecordStep(c) /\ \A d \in Branches : BranchStep(c, d)
  <2>1. winner'[c] = IF c = a THEN b ELSE winner[c]
    BY <1>0, <1>11 DEF SelectWinner, ArenaTypeOK
  <2>2. RecordStep(c)
    BY <1>11, <2>1 DEF SelectWinner, RecordStep, ArenaInv, JudgesWereAsked
  <2> QED  BY <1>11, <2>2, BranchesKept DEF SelectWinner
<1>12. ASSUME NEW b \in Branches, Reopen(a, b) \/ Promote(a, b)
       PROVE  RecordStep(c) /\ \A d \in Branches : BranchStep(c, d)
  <2>1. RecordStep(c)
    BY <1>12, RecordKept DEF Reopen, Promote
  <2>2. CASE Reopen(a, b)
    <3>1. \A d \in Branches : branch'[c][d] = IF c = a /\ d = b THEN "reopened" ELSE branch[c][d]
      BY <1>0, <2>2, BranchEntry DEF Reopen, BranchStatus, StoppedByClose
    <3> QED  BY <2>1, <2>2, <3>1 DEF Reopen, BranchStep, Judged, StoppedByClose
  <2>3. CASE Promote(a, b)
    <3>1. \A d \in Branches : branch'[c][d] = IF c = a /\ d = b THEN "promoted" ELSE branch[c][d]
      BY <1>0, <2>3, BranchEntry DEF Promote, BranchStatus, JudgeReady
    <3>2. branch[a][b] \in WinnerEligible
      BY <1>0, <2>3, BranchTable DEF Promote, CanMark, WinnerEligible, ArenaTypeOK
    <3> QED  BY <2>1, <2>3, <3>1, <3>2 DEF Promote, BranchStep
  <2> QED  BY <1>12, <2>2, <2>3
<1> QED  BY <1>3, <1>4, <1>5, <1>6, <1>7, <1>8, <1>9, <1>10, <1>11, <1>12 DEF Handler

LEMMA AgentStepRecord ==
  ASSUME ArenaInv, NEW a \in Arenas, AgentStep(a), NEW c \in Arenas
  PROVE  RecordStep(c) /\ \A d \in Branches : BranchStep(c, d)
<1> USE DEF stored, files, process
<1>0. ArenaTypeOK
  BY DEF ArenaInv
<1>1. CASE JudgeEnds(a)
  <2>1. judge[a] # "none" /\ judge'[c] = IF c = a THEN "ranked" ELSE judge[c]
    BY <1>0, <1>1 DEF JudgeEnds, ArenaInv, JudgesWereAsked, ArenaTypeOK
  <2>2. RecordStep(c)
    BY <1>1, <2>1 DEF JudgeEnds, RecordStep, ArenaInv, JudgesWereAsked
  <2> QED  BY <1>1, <2>2, BranchesKept DEF JudgeEnds
<1>2. ASSUME NEW b \in Branches, RunRegisters(a, b) \/ RunEnds(a, b)
      PROVE  RecordStep(c) /\ \A d \in Branches : BranchStep(c, d)
  BY <1>2, RecordKept, BranchesKept DEF RunRegisters, RunEnds
<1>3. ASSUME NEW b \in Branches, Submit(a, b)
      PROVE  RecordStep(c) /\ \A d \in Branches : BranchStep(c, d)
  <2>1. RecordStep(c)
    BY <1>3, RecordKept DEF Submit
  <2>2. PICK t \in {"submitted", "blocked"} : branch' = [branch EXCEPT ![a][b] = t]
    BY <1>3 DEF Submit
  <2>3. t \in BranchStatus
    BY DEF BranchStatus, JudgeReady
  <2>4. \A d \in Branches : branch'[c][d] = IF c = a /\ d = b THEN t ELSE branch[c][d]
    BY <1>0, <2>2, <2>3, BranchEntry
  <2>5. sub'[a][b] > 0 /\ \A d \in Branches : c # a \/ d # b => sub'[c][d] = sub[c][d]
    BY <1>0, <1>3, SubEntry DEF Submit
  <2>6. branch[a][b] \in {"running", "reopened"}
    BY <1>3 DEF Submit
  <2>7. \A d \in Branches : BranchStep(c, d)
    BY <2>4, <2>5, <2>6 DEF BranchStep
  <2> QED  BY <2>1, <2>7
<1>4. ASSUME NEW b \in Branches, RunRejects(a, b) \/ RefusedRejects(a, b)
      PROVE  RecordStep(c) /\ \A d \in Branches : BranchStep(c, d)
  <2>1. RecordStep(c)
    <3>1. UNCHANGED <<status, winner, proposal, judge>> /\ judges' \subseteq judges
      BY <1>4 DEF RunRejects, RefusedRejects, ProcessEnds
    <3> QED  BY <3>1 DEF RecordStep, ArenaInv, JudgesWereAsked
  <2>2. \A d \in Branches : BranchStep(c, d)
    <3>1. CASE UNCHANGED <<branch, sub>>
      BY <3>1, BranchesKept
    <3>2. CASE branch' = [branch EXCEPT ![a][b] = "failed"] /\ sub' = sub
      <4>1. \A d \in Branches : branch'[c][d] = IF c = a /\ d = b THEN "failed" ELSE branch[c][d]
        BY <1>0, <3>2, BranchEntry DEF BranchStatus, JudgeReady
      <4> QED  BY <3>2, <4>1 DEF BranchStep
    <3> QED  BY <1>4, <3>1, <3>2 DEF RunRejects, RefusedRejects, ProcessEnds
  <2> QED  BY <2>1, <2>2
<1>5. ASSUME NEW b \in Branches, NEW f \in Files, BranchEdits(a, b, f)
      PROVE  RecordStep(c) /\ \A d \in Branches : BranchStep(c, d)
  BY <1>5, RecordKept, BranchesKept DEF BranchEdits
<1> QED  BY <1>1, <1>2, <1>3, <1>4, <1>5 DEF AgentStep

LEMMA StepOfRecord ==
  ASSUME ArenaInv, [Next]_vars, NEW c \in Arenas
  PROVE  RecordStep(c) /\ \A d \in Branches : BranchStep(c, d)
<1>1. CASE \E a \in Arenas : Handler(a) \/ AgentStep(a)
  BY <1>1, HandlerStep, AgentStepRecord
<1>2. CASE (\E f \in Files : SourceEdited(f)) \/ ProcessEnds \/ UNCHANGED vars
  <2>1. UNCHANGED <<status, branch, sub, winner, proposal, judge>> /\ judges' \subseteq judges
    BY <1>2 DEF SourceEdited, ProcessEnds, vars, stored, process
  <2>2. RecordStep(c)
    BY <2>1 DEF RecordStep, ArenaInv, JudgesWereAsked
  <2> QED  BY <2>1, <2>2, BranchesKept
<1> QED  BY <1>1, <1>2 DEF Next

------------------------------------------------------------------------------
(* The lock.                                                               *)

LEMMA LockStep ==
  ASSUME ArenaInv, [Next]_vars
  PROVE  LockFollowsArena'
<1> USE DEF stored, files, process
<1>0. ArenaTypeOK /\ LockFollowsArena
  BY DEF ArenaInv
<1>1. None \notin Arenas
  BY ArenaAssumption
<1>2. CASE UNCHANGED <<status, lock>>
  BY <1>0, <1>2 DEF LockFollowsArena, Active
<1>3. ASSUME NEW a \in Arenas, Active(a), UNCHANGED lock,
             NEW s \in RunStatus \ {"none", "applied", "closed"},
             status' = [status EXCEPT ![a] = s]
      PROVE  LockFollowsArena'
  BY <1>0, <1>3 DEF LockFollowsArena, Active, ArenaTypeOK
<1>4. ASSUME NEW a \in Arenas, Active(a), lock' = None, NEW s \in {"applied", "closed"},
             status' = [status EXCEPT ![a] = s]
      PROVE  LockFollowsArena'
  BY <1>0, <1>1, <1>4 DEF LockFollowsArena, Active, ArenaTypeOK
<1>5. ASSUME NEW a \in Arenas, Handler(a)
      PROVE  LockFollowsArena'
  <2>1. ASSUME NEW s, CanSet(a, s) PROVE Active(a)
    BY <1>0, <2>1, RunTable DEF CanSet, Active, ArenaTypeOK
  <2>2. CASE CreateArena(a)
    BY <1>0, <2>2 DEF CreateArena, LockFollowsArena, Active, ArenaTypeOK
  <2>3. CASE Start(a) \/ StartFails(a) \/ Pause(a) \/ Resume(a)
    BY <1>3, <2>1, <2>3 DEF Start, StartFails, Pause, Resume, RunStatus
  <2>4. CASE Close(a)
    BY <1>2, <1>4, <2>1, <2>4 DEF Close
  <2>5. CASE Judge(a)
    <3>1. Active(a)
      BY <2>1, <2>5 DEF Judge, Active
    <3> QED  BY <1>3, <2>5, <3>1 DEF Judge, RunStatus
  <2>6. CASE CreateProposal(a)
    <3>1. Active(a)
      BY <2>6 DEF CreateProposal, Active
    <3> QED  BY <1>3, <2>6, <3>1 DEF CreateProposal, RunStatus
  <2>7. CASE Apply(a)
    BY <1>4, <2>7 DEF Apply
  <2>8. CASE UpdateConfig(a) \/ \E b \in Branches : SelectWinner(a, b) \/ Reopen(a, b) \/ Promote(a, b)
    BY <1>2, <2>8 DEF UpdateConfig, SelectWinner, Reopen, Promote
  <2> QED  BY <1>5, <2>2, <2>3, <2>4, <2>5, <2>6, <2>7, <2>8 DEF Handler
<1>6. ASSUME NEW a \in Arenas, AgentStep(a)
      PROVE  UNCHANGED <<status, lock>>
  BY <1>6 DEF AgentStep, JudgeEnds, RunRegisters, Submit, RunEnds, RunRejects, RefusedRejects,
              ProcessEnds, BranchEdits
<1>7. (\E f \in Files : SourceEdited(f)) \/ ProcessEnds \/ UNCHANGED vars => UNCHANGED <<status, lock>>
  BY DEF SourceEdited, ProcessEnds, vars
<1> QED  BY <1>2, <1>5, <1>6, <1>7 DEF Next

------------------------------------------------------------------------------
(* The invariant. *)

LEMMA Initially == Init => ArenaInv
<1> SUFFICES ASSUME Init PROVE ArenaInv
  OBVIOUS
<1>1. ArenaTypeOK
  BY InitType
<1>2. LockFollowsArena
  BY ArenaAssumption DEF Init, LockFollowsArena, Active
<1>3. EligibleSubmitted
  BY DEF Init, EligibleSubmitted, WinnerEligible
<1>4. WinnerSubmitted /\ ProposalIsWinners /\ JudgedIsReady /\ JudgesWereAsked
  BY DEF Init, WinnerSubmitted, ProposalIsWinners, JudgedIsReady, JudgesWereAsked
<1> QED  BY <1>1, <1>2, <1>3, <1>4 DEF ArenaInv

LEMMA Inductive == ArenaInv /\ [Next]_vars => ArenaInv'
<1> SUFFICES ASSUME ArenaInv, [Next]_vars PROVE ArenaInv'
  OBVIOUS
<1>1. ArenaTypeOK /\ ArenaTypeOK'
  BY Typing DEF ArenaInv
<1>2. LockFollowsArena'
  BY LockStep
<1>3. EligibleSubmitted'
  <2> SUFFICES ASSUME NEW c \in Arenas, NEW d \in Branches, branch'[c][d] \in WinnerEligible
               PROVE  sub'[c][d] > 0
    BY DEF EligibleSubmitted
  <2>1. BranchStep(c, d)
    BY StepOfRecord
  <2>2. branch[c][d] \in WinnerEligible => sub[c][d] > 0
    BY DEF ArenaInv, EligibleSubmitted
  <2> QED  BY <2>1, <2>2 DEF BranchStep, WinnerEligible, StoppedByClose
<1>4. ASSUME NEW c \in Arenas, NEW d \in Branches, sub[c][d] > 0
      PROVE  sub'[c][d] > 0
  <2>1. BranchStep(c, d)
    BY StepOfRecord
  <2> QED  BY <1>4, <2>1 DEF BranchStep
<1>5. WinnerSubmitted'
  <2> SUFFICES ASSUME NEW c \in Arenas, winner'[c] # None
               PROVE  sub'[c][winner'[c]] > 0
    BY DEF WinnerSubmitted
  <2>1. RecordStep(c) /\ winner'[c] \in Branches
    BY <1>1, StepOfRecord DEF ArenaTypeOK
  <2>2. CASE winner'[c] = winner[c]
    BY <1>4, <2>1, <2>2 DEF ArenaInv, WinnerSubmitted
  <2>3. CASE branch[c][winner'[c]] \in WinnerEligible
    BY <1>4, <2>1, <2>3 DEF ArenaInv, EligibleSubmitted
  <2> QED  BY <2>1, <2>2, <2>3 DEF RecordStep
<1>6. ProposalIsWinners'
  <2> SUFFICES ASSUME NEW c \in Arenas, proposal'[c] # None
               PROVE  /\ winner'[c] # None /\ proposal'[c].of = winner'[c]
                      /\ status'[c] \in Reviewed
    BY DEF ProposalIsWinners, Reviewed
  <2>1. RecordStep(c)
    BY StepOfRecord
  <2>2. proposal[c] # None => /\ winner[c] # None /\ proposal[c].of = winner[c]
                              /\ status[c] \in Reviewed
    BY DEF ArenaInv, ProposalIsWinners, Reviewed
  <2> QED  BY <2>1, <2>2 DEF RecordStep
<1>7. JudgedIsReady'
  <2> SUFFICES ASSUME NEW c \in Arenas, judge'[c] # "none"
               PROVE  /\ status'[c] \in Judged
                      /\ \A d \in Branches : branch'[c][d] \in JudgeReady \cup {"absent"}
    BY DEF JudgedIsReady, Judged
  <2>1. RecordStep(c) /\ \A d \in Branches : BranchStep(c, d)
    BY StepOfRecord
  <2>2. CASE judge[c] # "none"
    <3>1. status[c] \in Judged /\ \A d \in Branches : branch[c][d] \in JudgeReady \cup {"absent"}
      BY <2>2 DEF ArenaInv, JudgedIsReady, Judged
    <3>2. ASSUME NEW d \in Branches
          PROVE  branch'[c][d] \in JudgeReady \cup {"absent"}
      BY <2>1, <3>1 DEF BranchStep, JudgeReady
    <3> QED  BY <2>1, <3>1, <3>2 DEF RecordStep
  <2> QED  BY <2>1, <2>2 DEF RecordStep
<1>8. JudgesWereAsked'
  BY <1>1, StepOfRecord DEF RecordStep, JudgesWereAsked, ArenaTypeOK
<1> QED  BY <1>1, <1>2, <1>3, <1>5, <1>6, <1>7, <1>8 DEF ArenaInv

LEMMA Invariant == ArenaSpec => []ArenaInv
  BY Initially, Inductive, PTL DEF ArenaSpec

------------------------------------------------------------------------------
(* The theorems. *)

\* The session is locked by the arena that is active on it, and by no other.
THEOREM LockCorrect == ArenaSpec => []LockFollowsArena
<1>1. ArenaInv => LockFollowsArena
  BY DEF ArenaInv
<1> QED  BY <1>1, Invariant, PTL

\* Nothing changes the submissions the judge was asked to rank.
THEOREM JudgedStays == ArenaSpec => JudgedWorkIsFinal
<1>1. ASSUME ArenaInv, ArenaInv', [Next]_vars
      PROVE  [\A a \in Arenas : judge[a] # "none" =>
                /\ sub'[a] = sub[a]
                /\ \A b \in Branches : branch'[a][b] \in JudgeReady \cup {"absent"}]_vars
  <2> SUFFICES ASSUME NEW a \in Arenas, judge[a] # "none"
               PROVE  /\ sub'[a] = sub[a]
                      /\ \A b \in Branches : branch'[a][b] \in JudgeReady \cup {"absent"}
    OBVIOUS
  <2>1. status[a] \in Judged /\ \A b \in Branches : branch[a][b] \in JudgeReady \cup {"absent"}
    BY <1>1 DEF ArenaInv, JudgedIsReady, Judged
  <2>2. ASSUME NEW b \in Branches
        PROVE  sub'[a][b] = sub[a][b] /\ branch'[a][b] \in JudgeReady \cup {"absent"}
    <3>1. BranchStep(a, b)
      BY <1>1, StepOfRecord
    <3> QED  BY <2>1, <3>1 DEF BranchStep, JudgeReady
  <2>3. sub[a] \in [Branches -> Nat] /\ sub'[a] \in [Branches -> Nat]
    BY <1>1 DEF ArenaInv, ArenaTypeOK
  <2>4. sub'[a] = sub[a]
    BY <2>2, <2>3
  <2> QED  BY <2>2, <2>4
<1> QED  BY <1>1, Invariant, PTL DEF ArenaSpec, JudgedWorkIsFinal

\* Only an apply makes an arena applied.
LEMMA AppliedBy ==
  ASSUME ArenaInv, [Next]_vars, NEW a \in Arenas, status[a] # "applied", status'[a] = "applied"
  PROVE  Apply(a)
<1> USE DEF stored, files, process
<1>1. ArenaTypeOK
  BY DEF ArenaInv
<1>2. ASSUME NEW c \in Arenas, NEW s, s # "applied", status' = [status EXCEPT ![c] = s]
      PROVE  FALSE
  BY <1>1, <1>2 DEF ArenaTypeOK
<1>3. status' # status
  OBVIOUS
<1>4. ASSUME NEW c \in Arenas, Handler(c)
      PROVE  Apply(c)
  <2>1. CASE CreateArena(c) \/ Start(c) \/ StartFails(c) \/ Pause(c) \/ Resume(c)
    BY <1>2, <2>1 DEF CreateArena, Start, StartFails, Pause, Resume
  <2>2. CASE Close(c) \/ Judge(c) \/ CreateProposal(c)
    BY <1>2, <1>3, <2>2 DEF Close, Judge, CreateProposal
  <2>3. CASE UpdateConfig(c) \/ \E b \in Branches : SelectWinner(c, b) \/ Reopen(c, b) \/ Promote(c, b)
    BY <1>3, <2>3 DEF UpdateConfig, SelectWinner, Reopen, Promote
  <2> QED  BY <1>4, <2>1, <2>2, <2>3 DEF Handler
<1>5. PICK c \in Arenas : Handler(c)
  <2>1. ASSUME NEW c \in Arenas, AgentStep(c)
        PROVE  UNCHANGED status
    BY <2>1 DEF AgentStep, JudgeEnds, RunRegisters, Submit, RunEnds, RunRejects, RefusedRejects,
                ProcessEnds, BranchEdits
  <2>2. (\E f \in Files : SourceEdited(f)) \/ ProcessEnds \/ UNCHANGED vars => UNCHANGED status
    BY DEF SourceEdited, ProcessEnds, vars
  <2> QED  BY <1>3, <2>1, <2>2 DEF Next
<1>6. c = a
  BY <1>1, <1>4, <1>5 DEF Apply, ArenaTypeOK
<1> QED  BY <1>4, <1>5, <1>6

\* What an arena does to its source was proposed, for a winner that submitted.
THEOREM AppliedIsReviewed == ArenaSpec => ApplyIsReviewed
<1>1. ASSUME ArenaInv, [Next]_vars
      PROVE  [\A a \in Arenas : status[a] # "applied" /\ status'[a] = "applied" =>
                /\ winner[a] # None /\ sub[a][winner[a]] > 0
                /\ source' # source =>
                      /\ proposal[a] # None /\ proposal[a].of = winner[a]
                      /\ proposal[a].source = source /\ proposal[a].work = source']_vars
  <2> SUFFICES ASSUME NEW a \in Arenas, status[a] # "applied", status'[a] = "applied"
               PROVE  /\ winner[a] # None /\ sub[a][winner[a]] > 0
                      /\ source' # source =>
                            /\ proposal[a] # None /\ proposal[a].of = winner[a]
                            /\ proposal[a].source = source /\ proposal[a].work = source'
    OBVIOUS
  <2>1. Apply(a)
    BY <1>1, AppliedBy
  <2>2. winner[a] # None /\ sub[a][winner[a]] > 0
    BY <1>1, <2>1 DEF Apply, ArenaInv, WinnerSubmitted
  <2>3. proposal[a] # None => proposal[a].of = winner[a]
    BY <1>1 DEF ArenaInv, ProposalIsWinners
  <2> QED  BY <2>1, <2>2, <2>3 DEF Apply
<1> QED  BY <1>1, Invariant, PTL DEF ArenaSpec, ApplyIsReviewed
==============================================================================
