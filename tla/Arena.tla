-------------------------------- MODULE Arena --------------------------------
(***************************************************************************)
(* Arenas on one source session: contestants work on forks of the session, *)
(* in copies of its workspace, until a judge has ranked them and one winner*)
(* is applied to the source (ArenaCoordinator.ts, ArenaStore.ts).          *)
(*                                                                         *)
(* Every handler is synchronous, so it is one step; between the handlers   *)
(* run the agents of the branches, the agent of the judge, and whoever     *)
(* else edits the workspace.  A handler that is refused changes nothing    *)
(* and has no step, except where it throws after its first writes.         *)
(***************************************************************************)
EXTENDS Naturals, FiniteSets

CONSTANTS Arenas,         \* the arenas of this source session, over time
          Branches,       \* contestant slots of an arena
          Files,          \* of the workspace
          None,
          MaxEdits,       \* bounds how often files change
          MaxSubmissions, \* bounds how often one branch submits
          MaxStarts       \* bounds how many arenas leave their draft

ASSUME ArenaAssumption ==
    /\ None \notin Arenas \cup Branches \cup [Files -> Nat]
    /\ {MaxEdits, MaxSubmissions, MaxStarts} \subseteq Nat

VARIABLES
    \* in arena.json, for each arena
    status,    \* of the arena, "none" before it is created
    branch,    \* status of each branch, "absent" when no contestant has the slot
    sub,       \* how often each branch has submitted
    winner,
    proposal,
    judge,     \* "none", "asked" or "ranked"
    \* elsewhere on disk
    lock,      \* arenaLock of the source session
    source,    \* the source workspace: the version of each file
    work,      \* workspace of each branch, None without one
    edits,     \* how many versions were written
    \* in the process
    agent,     \* the run of each branch
    refused,   \* runs that were rejected by the lease of an earlier one
    judges     \* arenas whose judge is at work

stored == <<status, branch, sub, winner, proposal, judge>>
files == <<source, work, edits>>
process == <<agent, refused, judges>>
vars == <<stored, lock, files, process>>

\* The transitions of an arena.
RunNext == [
    none           |-> {},
    draft          |-> {"preparing", "closed"},
    preparing      |-> {"running", "paused", "closed"},
    running        |-> {"paused", "judging", "proposal_ready", "applied", "closed"},
    paused         |-> {"running", "judging", "proposal_ready", "applied", "closed"},
    judging        |-> {"proposal_ready", "applied", "closed"},
    proposal_ready |-> {"applied", "closed"},
    applied        |-> {},
    closed         |-> {}]

\* The transitions of a branch.
BranchNext == [
    absent    |-> {},
    draft     |-> {"preparing", "cancelled"},
    preparing |-> {"running", "paused", "failed", "cancelled"},
    running   |-> {"paused", "submitted", "blocked", "failed", "cancelled"},
    paused    |-> {"running", "cancelled"},
    submitted |-> {"reopened", "frozen", "promoted"},
    reopened  |-> {"running", "paused", "submitted", "blocked", "failed", "cancelled"},
    blocked   |-> {"reopened", "frozen", "promoted"},
    failed    |-> {"reopened", "cancelled"},
    cancelled |-> {"reopened"},
    frozen    |-> {"promoted"},
    promoted  |-> {}]

JudgeReady == {"submitted", "blocked", "failed", "cancelled", "frozen", "promoted"}
WinnerEligible == {"submitted", "blocked", "frozen", "promoted"}
StoppedByClose == {"preparing", "running", "paused", "reopened"}

RunStatus == {"none", "draft", "preparing", "running", "paused", "judging",
              "proposal_ready", "applied", "closed"}
BranchStatus == JudgeReady \cup StoppedByClose \cup {"absent", "draft"}

Contents == [Files -> Nat]
Proposals == [of : Branches, source : Contents, work : Contents,
              status : {"ready", "applied"}]

Active(a) == status[a] \notin {"none", "applied", "closed"}

\* Mutant for LockFollowsArena: an arena that has ended can be closed.
CanSetOrClose(a, s) == s \in RunNext[status[a]] \cup {"closed"}

\* assertStatusTransition, assertBranchStatusTransition
CanSet(a, s) == s \in RunNext[status[a]]
CanMark(a, b, s) == s \in BranchNext[branch[a][b]]

ArenaTypeOK ==
    /\ status \in [Arenas -> RunStatus]
    /\ branch \in [Arenas -> [Branches -> BranchStatus]]
    /\ sub \in [Arenas -> [Branches -> Nat]]
    /\ winner \in [Arenas -> Branches \cup {None}]
    /\ proposal \in [Arenas -> Proposals \cup {None}]
    /\ judge \in [Arenas -> {"none", "asked", "ranked"}]
    /\ lock \in Arenas \cup {None}
    /\ source \in Contents
    /\ work \in [Arenas -> [Branches -> Contents \cup {None}]]
    /\ edits \in Nat
    /\ agent \in [Arenas -> [Branches -> {"none", "starting", "working", "stopping"}]]
    /\ refused \subseteq Arenas \X Branches
    /\ judges \subseteq Arenas

Init ==
    /\ status = [a \in Arenas |-> "none"]
    /\ branch = [a \in Arenas |-> [b \in Branches |-> "absent"]]
    /\ sub = [a \in Arenas |-> [b \in Branches |-> 0]]
    /\ winner = [a \in Arenas |-> None]
    /\ proposal = [a \in Arenas |-> None]
    /\ judge = [a \in Arenas |-> "none"]
    /\ lock = None
    /\ source = [f \in Files |-> 0]
    /\ work = [a \in Arenas |-> [b \in Branches |-> None]]
    /\ edits = 0
    /\ agent = [a \in Arenas |-> [b \in Branches |-> "none"]]
    /\ refused = {}
    /\ judges = {}

------------------------------------------------------------------------------
(* The handlers of the routes.  None of them runs between a rejected promise*)
(* and its catch.                                                          *)

Quiet == refused = {}

\* The branches with status s that are in the set bs get status t.
Marked(a, bs, t) ==
    [branch EXCEPT ![a] = [b \in Branches |-> IF b \in bs THEN t ELSE branch[a][b]]]

Drafted(a, bs) ==
    [branch EXCEPT ![a] = [b \in Branches |-> IF b \in bs THEN "draft" ELSE "absent"]]

\* The session must be idle, stable and without unfinished todos: what of
\* this is not in the module is the environment's choice.
CreateArena(a) ==
    /\ Quiet /\ status[a] = "none"
    /\ lock = None
    /\ \A c \in Arenas : ~Active(c)
    /\ \E bs \in SUBSET Branches \ {{}} : branch' = Drafted(a, bs)
    /\ status' = [status EXCEPT ![a] = "draft"]
    /\ lock' = a
    /\ UNCHANGED <<sub, winner, proposal, judge, files, process>>

UpdateConfig(a) ==
    /\ Quiet /\ status[a] = "draft"
    /\ \E bs \in SUBSET Branches \ {{}} : branch' = Drafted(a, bs)
    /\ UNCHANGED <<status, sub, winner, proposal, judge, lock, files, process>>

\* cancelContext reaches a run once its turn agent is registered.
StopRuns(a, bs) ==
    agent' = [agent EXCEPT ![a] = [b \in Branches |->
                IF b \in bs /\ agent[a][b] = "working" THEN "stopping" ELSE agent[a][b]]]

\* startBranchRun: the lease of a run that has not ended rejects the new one.
StartRuns(a, bs) ==
    /\ agent' = [agent EXCEPT ![a] = [b \in Branches |->
                   IF b \in bs /\ agent[a][b] = "none" THEN "starting" ELSE agent[a][b]]]
    /\ refused' = refused \cup {<<a, b>> : b \in {c \in bs : agent[a][c] # "none"}}

InDraft(a) == {b \in Branches : branch[a][b] = "draft"}

\* Every branch gets a fork of the session and, if the source has a workspace,
\* a copy of it as it is now.
Prepared(a, bs) ==
    \E isolated \in BOOLEAN :
        work' = [work EXCEPT ![a] = [b \in Branches |->
                   IF isolated /\ b \in bs THEN source ELSE work[a][b]]]

MayStart == Cardinality({a \in Arenas : status[a] \notin {"none", "draft"}}) < MaxStarts

Start(a) ==
    /\ Quiet /\ CanSet(a, "preparing") /\ MayStart
    /\ Prepared(a, InDraft(a))
    /\ status' = [status EXCEPT ![a] = "running"]
    /\ branch' = Marked(a, InDraft(a), "running")
    /\ StartRuns(a, InDraft(a))
    /\ UNCHANGED <<sub, winner, proposal, judge, lock, source, edits, judges>>

\* Copying or forking throws: the branches before it are prepared.
StartFails(a) ==
    /\ Quiet /\ CanSet(a, "preparing") /\ MayStart
    /\ status' = [status EXCEPT ![a] = "preparing"]
    /\ \E bs \in SUBSET InDraft(a) \ {InDraft(a)} :
          /\ Prepared(a, bs)
          /\ branch' = Marked(a, bs, "preparing")
    /\ UNCHANGED <<sub, winner, proposal, judge, lock, source, edits, process>>

Pause(a) ==
    LET bs == {b \in Branches : branch[a][b] \in {"running", "preparing"}} IN
    /\ Quiet /\ CanSet(a, "paused")
    /\ status' = [status EXCEPT ![a] = "paused"]
    /\ branch' = Marked(a, bs, "paused")
    /\ StopRuns(a, bs)
    /\ UNCHANGED <<sub, winner, proposal, judge, lock, files, refused, judges>>

Resume(a) ==
    LET bs == {b \in Branches : branch[a][b] = "paused"} IN
    /\ Quiet /\ CanSet(a, "running")
    /\ status' = [status EXCEPT ![a] = "running"]
    /\ branch' = Marked(a, bs, "running")
    /\ StartRuns(a, bs)
    /\ UNCHANGED <<sub, winner, proposal, judge, lock, files, judges>>

\* The branches are stopped before the status of the arena is looked at.
Close(a) ==
    LET bs == {b \in Branches : branch[a][b] \in StoppedByClose} IN
    /\ Quiet /\ status[a] # "none"
    /\ branch' = Marked(a, bs, "cancelled")
    /\ StopRuns(a, bs)
    /\ IF CanSet(a, "closed")
       THEN /\ status' = [status EXCEPT ![a] = "closed"]
            /\ lock' = None
       ELSE UNCHANGED <<status, lock>>
    /\ UNCHANGED <<sub, winner, proposal, judge, files, refused, judges>>

\* The fork of the judge's session may fail; asking again then repeats it.
Judge(a) ==
    /\ Quiet /\ judge[a] = "none"
    /\ \A b \in Branches : branch[a][b] \in JudgeReady \cup {"absent"}
    /\ status[a] = "judging" \/ CanSet(a, "judging")
    /\ status' = [status EXCEPT ![a] = "judging"]
    /\ \/ judge' = [judge EXCEPT ![a] = "asked"] /\ judges' = judges \cup {a}
       \/ UNCHANGED <<judge, judges>>
    /\ UNCHANGED <<branch, sub, winner, proposal, lock, files, agent, refused>>

\* Mutant for ApplyIsReviewed: another winner after the proposal.
SelectWinnerLate(a, b) ==
    /\ Quiet /\ Active(a)
    /\ branch[a][b] \in WinnerEligible
    /\ winner' = [winner EXCEPT ![a] = b]
    /\ UNCHANGED <<status, branch, sub, proposal, judge, lock, files, process>>

SelectWinner(a, b) ==
    /\ Quiet /\ Active(a)
    /\ status[a] # "proposal_ready" /\ proposal[a] = None
    /\ branch[a][b] \in WinnerEligible
    /\ winner' = [winner EXCEPT ![a] = b]
    /\ UNCHANGED <<status, branch, sub, proposal, judge, lock, files, process>>

\* Hashes and changed files of both workspaces, as they are now.
CreateProposal(a) ==
    /\ Quiet /\ status[a] \in {"running", "paused", "judging"}
    /\ winner[a] # None /\ work[a][winner[a]] # None
    /\ status' = [status EXCEPT ![a] = "proposal_ready"]
    /\ proposal' = [proposal EXCEPT ![a] =
          [of |-> winner[a], source |-> source, work |-> work[a][winner[a]],
           status |-> "ready"]]
    /\ UNCHANGED <<branch, sub, winner, judge, lock, files, process>>

Unchanged(a) == work[a][winner[a]] \in {None, source}

\* A winner that changes nothing is applied without a proposal; otherwise the
\* changed files are copied if both hashes are still those of the proposal.
Apply(a) ==
    /\ Quiet /\ Active(a) /\ winner[a] # None /\ CanSet(a, "applied")
    /\ \/ /\ proposal[a] = None /\ Unchanged(a)
          /\ UNCHANGED <<source, proposal>>
       \/ /\ proposal[a] # None /\ proposal[a].status = "ready"
          /\ source = proposal[a].source
          /\ work[a][proposal[a].of] = proposal[a].work
          /\ source' = proposal[a].work
          /\ proposal' = [proposal EXCEPT ![a].status = "applied"]
    /\ status' = [status EXCEPT ![a] = "applied"]
    /\ lock' = None
    /\ UNCHANGED <<branch, sub, winner, judge, work, edits, process>>

\* Mutant for JudgedWorkIsFinal: reopening looks at the branch only.
ReopenAnytime(a, b) ==
    /\ Quiet /\ CanMark(a, b, "reopened")
    /\ branch' = [branch EXCEPT ![a][b] = "reopened"]
    /\ UNCHANGED <<status, sub, winner, proposal, judge, lock, files, process>>

\* Only the status changes: no run is started for the branch.
Reopen(a, b) ==
    /\ Quiet /\ status[a] \notin {"judging", "proposal_ready", "applied", "closed"}
    /\ CanMark(a, b, "reopened")
    /\ branch' = [branch EXCEPT ![a][b] = "reopened"]
    /\ UNCHANGED <<status, sub, winner, proposal, judge, lock, files, process>>

Promote(a, b) ==
    /\ Quiet /\ CanMark(a, b, "promoted")
    /\ branch' = [branch EXCEPT ![a][b] = "promoted"]
    /\ UNCHANGED <<status, sub, winner, proposal, judge, lock, files, process>>

------------------------------------------------------------------------------
(* The agents.                                                             *)

\* The history is assembled and the turn agent registered.
RunRegisters(a, b) ==
    /\ agent[a][b] = "starting"
    /\ agent' = [agent EXCEPT ![a][b] = "working"]
    /\ UNCHANGED <<stored, lock, files, refused, judges>>

AtWork(a, b) == agent[a][b] \in {"working", "stopping"}

\* arena_submit_result; a stopped run may be inside its last tool call.
Submit(a, b) ==
    /\ AtWork(a, b)
    /\ branch[a][b] \in {"running", "reopened"}
    /\ sub[a][b] < MaxSubmissions
    /\ \E t \in {"submitted", "blocked"} : branch' = [branch EXCEPT ![a][b] = t]
    /\ sub' = [sub EXCEPT ![a][b] = @ + 1]
    /\ UNCHANGED <<status, winner, proposal, judge, lock, files, process>>

\* Also a chat on the session of a promoted branch.
BranchEdits(a, b, f) ==
    /\ AtWork(a, b) \/ branch[a][b] = "promoted"
    /\ work[a][b] # None /\ edits < MaxEdits
    /\ edits' = edits + 1
    /\ work' = [work EXCEPT ![a][b] = [@ EXCEPT ![f] = edits + 1]]
    /\ UNCHANGED <<stored, lock, source, process>>

\* The lock is on the session; nothing keeps others from the files.
SourceEdited(f) ==
    /\ edits < MaxEdits
    /\ edits' = edits + 1
    /\ source' = [source EXCEPT ![f] = edits + 1]
    /\ UNCHANGED <<stored, lock, work, process>>

\* A run that ends, stopped or not, changes nothing of its branch.
RunEnds(a, b) ==
    /\ agent[a][b] # "none"
    /\ agent' = [agent EXCEPT ![a][b] = "none"]
    /\ UNCHANGED <<stored, lock, files, refused, judges>>

\* process.exit(1), or any other end of the process, and a restart.
ProcessEnds ==
    /\ agent' = [a \in Arenas |-> [b \in Branches |-> "none"]]
    /\ refused' = {}
    /\ judges' = {}
    /\ UNCHANGED <<stored, lock, files>>

\* The catch of startBranchRun.  If the branch cannot fail any more it throws
\* in turn, and the handler of unhandled rejections ends the process.
RunRejects(a, b) ==
    /\ agent[a][b] # "none"
    /\ \/ /\ CanMark(a, b, "failed")
          /\ branch' = [branch EXCEPT ![a][b] = "failed"]
          /\ agent' = [agent EXCEPT ![a][b] = "none"]
          /\ UNCHANGED <<status, sub, winner, proposal, judge, lock, files, refused, judges>>
       \/ ~CanMark(a, b, "failed") /\ ProcessEnds

\* The same for a run that never got the lease.
RefusedRejects(a, b) ==
    /\ <<a, b>> \in refused
    /\ \/ /\ CanMark(a, b, "failed")
          /\ branch' = [branch EXCEPT ![a][b] = "failed"]
          /\ refused' = refused \ {<<a, b>>}
          /\ UNCHANGED <<status, sub, winner, proposal, judge, lock, files, agent, judges>>
       \/ ~CanMark(a, b, "failed") /\ ProcessEnds

\* A ranking or a failure, whatever became of the arena.
JudgeEnds(a) ==
    /\ a \in judges
    /\ judges' = judges \ {a}
    /\ judge' = [judge EXCEPT ![a] = "ranked"]
    /\ UNCHANGED <<status, branch, sub, winner, proposal, lock, files, agent, refused>>

------------------------------------------------------------------------------
Handler(a) ==
    \/ CreateArena(a) \/ UpdateConfig(a)
    \/ Start(a) \/ StartFails(a) \/ Pause(a) \/ Resume(a) \/ Close(a)
    \/ Judge(a) \/ CreateProposal(a) \/ Apply(a)
    \/ \E b \in Branches : SelectWinner(a, b) \/ Reopen(a, b) \/ Promote(a, b)

AgentStep(a) ==
    \/ JudgeEnds(a)
    \/ \E b \in Branches :
          \/ RunRegisters(a, b) \/ Submit(a, b) \/ RunEnds(a, b)
          \/ RunRejects(a, b) \/ RefusedRejects(a, b)
          \/ \E f \in Files : BranchEdits(a, b, f)

Next ==
    \/ \E a \in Arenas : Handler(a) \/ AgentStep(a)
    \/ \E f \in Files : SourceEdited(f)
    \/ ProcessEnds

ArenaSpec == Init /\ [][Next]_vars

------------------------------------------------------------------------------
(* Properties. *)

\* The session is locked by the arena that is active on it and by no other,
\* although unlocking does not look at whose lock it is: whatever is asked of
\* an arena that has ended leaves the lock of a later one alone.
LockFollowsArena == \A a \in Arenas : lock = a <=> Active(a)

\* What the judge was asked to rank stays as it was: no branch submits again,
\* none goes back to work, whatever its agent, a pause or a resume still does.
JudgedWorkIsFinal ==
    [][\A a \in Arenas : judge[a] # "none" =>
          /\ sub'[a] = sub[a]
          /\ \A b \in Branches : branch'[a][b] \in JudgeReady \cup {"absent"}]_vars

\* An arena is applied for a winner that has submitted, and if that changes the
\* source, the change is the reviewed proposal of this winner, made to the
\* source the proposal was made from.
ApplyIsReviewed ==
    [][\A a \in Arenas : status[a] # "applied" /\ status'[a] = "applied" =>
          /\ winner[a] # None /\ sub[a][winner[a]] > 0
          /\ source' # source =>
                /\ proposal[a] # None /\ proposal[a].of = winner[a]
                /\ proposal[a].source = source /\ proposal[a].work = source']_vars
==============================================================================
