-------------------------- MODULE AutomationProofs --------------------------
(***************************************************************************)
(* What Automation keeps for every schedule, threshold, retention and      *)
(* number of runs, restarts and edits.  The argument rests on the records: *)
(* their ids differ, one of them at most says "running", and the record of *)
(* a run in its agent turn, where it is still in the file, does.           *)
(***************************************************************************)
EXTENDS Automation, TLAPS

\* The newest id is the bound of what exists.
Fresh ==
    /\ \A i \in RunIds : i > lastId => phase[i] = "none"
    /\ \A r \in runs : r.id <= lastId

Records ==
    /\ \A r, s \in runs : r.id = s.id => r = s
    /\ \A r, s \in Active(runs) : r = s
    /\ \A r \in runs : phase[r.id] = "turn" => r.status = "running"
    /\ EndedRunsAreRecorded

\* A trigger that was executed is over, and before the next one.
Fires == \A e \in fired : e.trigger <= now /\ (job.due /= NotSet => e.trigger < job.due)

\* The variables other than the clock and the process
Kinds ==
    /\ job \in [exists : BOOLEAN, enabled : BOOLEAN, due : Nat]
    /\ phase \in [RunIds -> {"none", "turn", "closing"}]
    /\ flagged \in BOOLEAN
    /\ scheduled \subseteq RunIds
    /\ runtimes \subseteq RunIds
    /\ fired \subseteq [trigger : Nat, id : RunIds]
    /\ orphans \subseteq RunIds

AutoInv == AutoTypeOK /\ lastId \in 0 .. MaxRuns /\ Fresh /\ Records

LEMMA KeptSubset == ASSUME NEW rs PROVE Kept(rs) \subseteq rs
BY DEF Kept

\* A claim, with or without an execution.
LEMMA ClaimKeeps ==
  ASSUME AutoInv, lastId < MaxRuns, NEW t \in Nat, NEW rec, rec = Claim(lastId + 1, t),
         runs' \subseteq runs \union {rec}, lastId' = rec.id, orphans \subseteq orphans',
         \/ Launched(rec.id) /\ rec.status = "running"
         \/ NotLaunched /\ (rec.status = "running" => rec.id \in orphans')
  PROVE  runs' \subseteq Runs /\ lastId' \in 0 .. MaxRuns /\ Fresh' /\ Records'
<1>1. /\ rec.id = lastId + 1 /\ rec.id \in RunIds /\ rec \in Runs
      /\ rec.status = IF Active(runs) = {} THEN "running" ELSE "skipped"
  BY AutomationAssumption DEF AutoInv, Claim, RunIds, Runs, Statuses
<1>2. phase \in [RunIds -> {"none", "turn", "closing"}] /\ runs \subseteq Runs /\ lastId \in Nat
  BY DEF AutoInv, AutoTypeOK
<1>3. \A i \in RunIds : i /= rec.id => phase'[i] = phase[i]
  BY <1>1, <1>2 DEF Launched, NotLaunched
<1>4. phase'[rec.id] = "turn" => rec.status = "running"
  BY <1>1, <1>2 DEF Launched, NotLaunched, AutoInv, Fresh
<1>5. rec.status = "running" => phase'[rec.id] = "turn" \/ rec.id \in orphans'
  BY <1>1, <1>2 DEF Launched, NotLaunched
<1>6. \A r \in runs : r.id \in RunIds /\ r.id < rec.id
  BY <1>1, <1>2 DEF AutoInv, Fresh, Runs, RunIds
<1>7. Fresh'
  <2>1. ASSUME NEW i \in RunIds, i > lastId' PROVE phase'[i] = "none"
    BY <1>1, <1>2, <1>3, <2>1 DEF AutoInv, Fresh, RunIds
  <2>2. \A r \in runs' : r.id <= lastId'
    BY <1>1, <1>6 DEF RunIds
  <2> QED
    BY <2>1, <2>2 DEF Fresh
<1>8. Records'
  <2>1. \A r, s \in runs' : r.id = s.id => r = s
    <3>1. \A r, s \in runs : r.id = s.id => r = s
      BY DEF AutoInv, Records
    <3>2. \A r \in runs : r.id /= rec.id
      BY <1>1, <1>6 DEF RunIds
    <3> QED
      BY <3>1, <3>2
  <2>2. \A r, s \in Active(runs') : r = s
    <3>1. Active(runs') \subseteq Active(runs) \union {rec}
      BY DEF Active
    <3>2. CASE Active(runs) = {}
      BY <3>1, <3>2
    <3>3. CASE Active(runs) /= {}
      <4>1. Active(runs') \subseteq Active(runs)
        BY <1>1, <3>1, <3>3 DEF Active
      <4> QED
        BY <4>1 DEF AutoInv, Records
    <3> QED
      BY <3>2, <3>3
  <2>3. \A r \in runs' : phase'[r.id] = "turn" => r.status = "running"
    <3> SUFFICES ASSUME NEW r \in runs', phase'[r.id] = "turn" PROVE r.status = "running"
      OBVIOUS
    <3>1. CASE r = rec
      BY <1>4, <3>1
    <3>2. CASE r \in runs
      <4>1. phase[r.id] = "turn"
        BY <1>1, <1>3, <1>6, <3>2 DEF RunIds
      <4> QED
        BY <3>2, <4>1 DEF AutoInv, Records
    <3> QED
      BY <3>1, <3>2
  <2>4. EndedRunsAreRecorded'
    <3> SUFFICES ASSUME NEW r \in runs', r.status = "running"
                 PROVE  phase'[r.id] = "turn" \/ r.id \in orphans'
      BY DEF EndedRunsAreRecorded, Active
    <3>1. CASE r = rec
      BY <1>5, <3>1
    <3>2. CASE r \in runs
      <4>1. phase[r.id] = "turn" \/ r.id \in orphans
        BY <3>2 DEF AutoInv, Records, EndedRunsAreRecorded, Active
      <4>2. phase'[r.id] = phase[r.id]
        BY <1>1, <1>3, <1>6, <3>2 DEF RunIds
      <4> QED
        BY <4>1, <4>2
    <3> QED
      BY <3>1, <3>2
  <2> QED
    BY <2>1, <2>2, <2>3, <2>4 DEF Records
<1> QED
  BY <1>1, <1>2, <1>7, <1>8, AutomationAssumption DEF RunIds

\* What a tick does, at any time.
LEMMA DueStep ==
  ASSUME AutoInv, NEW t \in Nat, ProcessDueJob(t)
  PROVE  Kinds' /\ runs' \subseteq Runs /\ lastId' \in 0 .. MaxRuns /\ Fresh' /\ Records'
<1> DEFINE rec == Claim(lastId + 1, job.due)
<1>1. /\ Kinds /\ runs \subseteq Runs /\ lastId \in 0 .. MaxRuns
      /\ job.due \in Nat /\ Next(t) \in Nat
  BY AutomationAssumption DEF AutoInv, AutoTypeOK, Kinds, Next
<1>2. CASE PassOver(t)
  <2>1. job' \in [exists : BOOLEAN, enabled : BOOLEAN, due : Nat]
    BY <1>1, <1>2 DEF PassOver, Kinds
  <2>2. UNCHANGED <<runs, lastId, phase, flagged, scheduled, runtimes, fired, orphans>>
    BY <1>2 DEF PassOver
  <2> QED
    BY <1>1, <2>1, <2>2 DEF AutoInv, Kinds, Fresh, Records, EndedRunsAreRecorded, Active
<1>3. ASSUME lastId < MaxRuns, ClaimInFlight(t) \/ ClaimSkipped(t) \/ ClaimAndExecute(t)
      PROVE  Kinds' /\ runs' \subseteq Runs /\ lastId' \in 0 .. MaxRuns /\ Fresh' /\ Records'
  <2>1. rec.id \in RunIds
    BY <1>1, <1>3, AutomationAssumption DEF Claim, RunIds
  <2>2. Claimed(rec, Next(t)) /\ runs' \subseteq runs \union {rec}
    BY <1>3, KeptSubset DEF ClaimInFlight, ClaimSkipped, ClaimAndExecute, Claimed
  <2>3. /\ orphans \subseteq orphans' /\ orphans' \subseteq orphans \union {rec.id}
        /\ \/ Launched(rec.id) /\ rec.status = "running"
           \/ NotLaunched /\ (rec.status = "running" => rec.id \in orphans')
    BY <1>3 DEF ClaimInFlight, ClaimSkipped, ClaimAndExecute
  <2>4. /\ flagged' \in {flagged, TRUE} /\ scheduled' \subseteq scheduled \union {rec.id}
        /\ fired' \subseteq fired \union {[trigger |-> job.due, id |-> rec.id]}
    BY <1>3 DEF ClaimInFlight, ClaimSkipped, ClaimAndExecute
  <2> HIDE DEF rec
  <2>5. job' \in [exists : BOOLEAN, enabled : BOOLEAN, due : Nat]
    BY <1>1, <2>2 DEF Claimed, Kinds
  <2>6. /\ phase' \in [RunIds -> {"none", "turn", "closing"}]
        /\ runtimes' \subseteq RunIds
    BY <1>1, <2>1, <2>3 DEF Launched, NotLaunched, Kinds
  <2>7. Kinds'
    <3>1. fired' \subseteq [trigger : Nat, id : RunIds]
      BY <1>1, <2>1, <2>4 DEF Kinds
    <3>2. flagged' \in BOOLEAN /\ scheduled' \subseteq RunIds /\ orphans' \subseteq RunIds
      BY <1>1, <2>1, <2>3, <2>4 DEF Kinds
    <3> QED
      BY <2>5, <2>6, <3>1, <3>2 DEF Kinds
  <2>8. rec = Claim(lastId + 1, job.due)
    BY DEF rec
  <2>9. lastId' = rec.id
    BY <2>2 DEF Claimed
  <2>10. runs' \subseteq Runs /\ lastId' \in 0 .. MaxRuns /\ Fresh' /\ Records'
    BY <1>1, <1>3, <2>2, <2>3, <2>8, <2>9, ClaimKeeps
  <2> QED
    BY <2>7, <2>10
<1> QED
  BY <1>2, <1>3 DEF ProcessDueJob

\* What the end of a turn and the close of a run do to the records.
LEMMA SettleKeeps ==
  ASSUME AutoInv, NEW id \in RunIds, phase[id] = "turn", NEW outcome \in {"succeeded", "failed"},
         runs' = Settle(id, outcome), UNCHANGED <<lastId, orphans>>,
         phase' \in {[phase EXCEPT ![id] = "none"], [phase EXCEPT ![id] = "closing"]}
  PROVE  runs' \subseteq Runs /\ Fresh' /\ Records'
<1>1. phase \in [RunIds -> {"none", "turn", "closing"}] /\ runs \subseteq Runs
  BY DEF AutoInv, AutoTypeOK
<1>2. /\ phase'[id] /= "turn"
      /\ \A i \in RunIds : i /= id => phase'[i] = phase[i]
  BY <1>1
<1>3. \A r \in runs' : \/ r \in runs /\ r.id /= id
                       \/ r \in Runs /\ r.id = id /\ r.status = outcome
                          /\ \E q \in runs : q.id = id /\ r.trigger = q.trigger
  BY <1>1 DEF Settle, Runs, Statuses
<1>4. runs' \subseteq Runs
  BY <1>1, <1>3
<1>5. Fresh'
  <2>1. id <= lastId
    BY <1>1 DEF AutoInv, Fresh, RunIds
  <2>2. \A i \in RunIds : i > lastId' => phase'[i] = "none"
    BY <1>2, <2>1 DEF AutoInv, Fresh, RunIds
  <2>3. \A r \in runs' : r.id <= lastId'
    BY <1>3, <2>1 DEF AutoInv, Fresh
  <2> QED
    BY <2>2, <2>3 DEF Fresh
<1>6. Records'
  <2>1. \A r, s \in runs' : r.id = s.id => r = s
    <3> SUFFICES ASSUME NEW r \in runs', NEW s \in runs', r.id = s.id PROVE r = s
      OBVIOUS
    <3>1. CASE r \in runs /\ r.id /= id
      BY <1>3, <3>1 DEF AutoInv, Records
    <3>2. CASE r.id = id
      <4>1. PICK q \in runs : q.id = id /\ r.trigger = q.trigger
        BY <1>3, <3>2
      <4>2. PICK p \in runs : p.id = id /\ s.trigger = p.trigger
        BY <1>3, <3>2
      <4>3. q = p
        BY <4>1, <4>2 DEF AutoInv, Records
      <4>4. r \in Runs /\ s \in Runs /\ r.status = s.status
        BY <1>3, <3>2
      <4> QED
        BY <4>1, <4>2, <4>3, <4>4 DEF Runs
    <3> QED
      BY <1>3, <3>1, <3>2
  <2>2. Active(runs') \subseteq Active(runs)
    BY <1>3 DEF Active
  <2>3. \A r, s \in Active(runs') : r = s
    BY <2>2 DEF AutoInv, Records
  <2>4. \A r \in runs' : phase'[r.id] = "turn" => r.status = "running"
    BY <1>1, <1>2, <1>3 DEF AutoInv, Records, Runs
  <2>5. EndedRunsAreRecorded'
    <3> SUFFICES ASSUME NEW r \in Active(runs') PROVE phase'[r.id] = "turn" \/ r.id \in orphans'
      BY DEF EndedRunsAreRecorded
    <3>1. r \in Active(runs) /\ r.id /= id /\ r.id \in RunIds
      BY <1>1, <1>3, <2>2 DEF Active, Runs
    <3> QED
      BY <1>2, <3>1 DEF AutoInv, Records, EndedRunsAreRecorded
  <2> QED
    BY <2>1, <2>3, <2>4, <2>5 DEF Records
<1> QED
  BY <1>4, <1>5, <1>6

LEMMA AutoInit == Init => AutoInv /\ Fires /\ ExecutionsCleanUp
<1>1. ASSUME Init PROVE AutoTypeOK /\ lastId \in 0 .. MaxRuns
  <2>1. job \in [exists : BOOLEAN, enabled : BOOLEAN, due : Nat] /\ lastId \in 0 .. MaxRuns
    BY <1>1, AutomationAssumption DEF Init, Next
  <2>2. phase \in [RunIds -> {"none", "turn", "closing"}]
    BY <1>1 DEF Init
  <2> QED
    BY <1>1, <2>1, <2>2 DEF Init, AutoTypeOK
<1>2. Init => Fresh /\ Records /\ Fires /\ ExecutionsCleanUp
  BY DEF Init, Fresh, Records, EndedRunsAreRecorded, Active, Fires, ExecutionsCleanUp, FlagIsHeld,
         RuntimesReleased
<1> QED
  BY <1>1, <1>2 DEF AutoInv

LEMMA AutoStep ==
  ASSUME AutoInv, [AutoNext]_vars PROVE AutoInv'
<1> DEFINE Whole == Kinds' /\ runs' \subseteq Runs /\ lastId' \in 0 .. MaxRuns /\ Fresh' /\ Records'
<1>1. ASSUME now' \in Nat, up' \in BOOLEAN, Whole PROVE AutoInv'
  BY <1>1 DEF AutoInv, AutoTypeOK, Kinds
<1>2. now \in Nat /\ up \in BOOLEAN /\ Kinds /\ runs \subseteq Runs /\ Next(now) \in Nat
  BY AutomationAssumption DEF AutoInv, AutoTypeOK, Kinds, Next
<1>3. ASSUME UNCHANGED <<runs, lastId, phase, flagged, scheduled, runtimes, fired, orphans>>,
             job' \in [exists : BOOLEAN, enabled : BOOLEAN, due : Nat]
      PROVE  Whole
  BY <1>2, <1>3 DEF AutoInv, Kinds, Fresh, Records, EndedRunsAreRecorded, Active
<1> HIDE DEF Whole
<1>4. CASE Tick
  BY <1>1, <1>2, <1>4, DueStep DEF Tick, Whole
<1>5. CASE Restart
  BY <1>1, <1>2, <1>5, DueStep DEF Restart, Whole
<1>6. CASE Wait
  BY <1>1, <1>2, <1>3, <1>6 DEF Wait, Kinds
<1>7. CASE RunNow
  <2> DEFINE rec == Claim(lastId + 1, now)
  <2>1. rec.id \in RunIds
    BY <1>7, AutomationAssumption DEF RunNow, AutoInv, Claim, RunIds
  <2>2. /\ Claimed(rec, job.due) /\ runs' \subseteq runs \union {rec} /\ lastId < MaxRuns
        /\ now' = now /\ up' = up /\ UNCHANGED <<flagged, scheduled, fired>>
    BY <1>7, KeptSubset DEF RunNow, Claimed
  <2>3. /\ orphans \subseteq orphans' /\ orphans' \subseteq orphans \union {rec.id}
        /\ \/ Launched(rec.id) /\ rec.status = "running"
           \/ NotLaunched /\ (rec.status = "running" => rec.id \in orphans')
    <3>1. rec.status \in {"running", "skipped"}
      BY DEF Claim
    <3> QED
      BY <1>7, <3>1 DEF RunNow
  <2>4. rec = Claim(lastId + 1, now)
    OBVIOUS
  <2> HIDE DEF rec
  <2>5. lastId' = rec.id /\ job' = [job EXCEPT !.due = job.due]
    BY <2>2 DEF Claimed
  <2>6. runs' \subseteq Runs /\ lastId' \in 0 .. MaxRuns /\ Fresh' /\ Records'
    BY <1>2, <2>2, <2>3, <2>4, <2>5, ClaimKeeps
  <2>7. job' \in [exists : BOOLEAN, enabled : BOOLEAN, due : Nat]
    BY <1>2, <2>5 DEF Kinds
  <2>8. /\ phase' \in [RunIds -> {"none", "turn", "closing"}]
        /\ runtimes' \subseteq RunIds /\ orphans' \subseteq RunIds
    BY <1>2, <2>1, <2>3 DEF Launched, NotLaunched, Kinds
  <2>9. Kinds'
    BY <1>2, <2>2, <2>7, <2>8 DEF Kinds
  <2> QED
    BY <1>1, <1>2, <2>2, <2>6, <2>9 DEF Whole
<1>8. ASSUME NEW i \in RunIds, NEW outcome \in {"succeeded", "failed"}, TurnEnds(i, outcome)
      PROVE  AutoInv'
  <2>1. /\ phase[i] = "turn" /\ runs' = Settle(i, outcome)
        /\ UNCHANGED <<now, up, job, lastId, runtimes, fired, orphans>>
        /\ phase' \in {[phase EXCEPT ![i] = "none"], [phase EXCEPT ![i] = "closing"]}
        /\ flagged' \in BOOLEAN /\ scheduled' \subseteq scheduled
    BY <1>2, <1>8 DEF TurnEnds, Returned, Kinds
  <2>2. runs' \subseteq Runs /\ Fresh' /\ Records'
    BY <2>1, SettleKeeps
  <2>3. Kinds'
    BY <1>2, <2>1 DEF Kinds
  <2>4. lastId' \in 0 .. MaxRuns
    BY <2>1 DEF AutoInv
  <2> QED
    BY <1>1, <1>2, <2>1, <2>2, <2>3, <2>4 DEF Whole
<1>9. ASSUME NEW i \in RunIds, Close(i) PROVE AutoInv'
  <2>1. /\ phase[i] = "closing" /\ phase' = [phase EXCEPT ![i] = "none"]
        /\ UNCHANGED <<now, up, job, runs, lastId, fired, orphans>>
        /\ flagged' \in BOOLEAN /\ scheduled' \subseteq scheduled /\ runtimes' \subseteq runtimes
    BY <1>2, <1>9 DEF Close, Returned, Kinds
  <2>2. /\ Kinds'
        /\ \A j \in RunIds : /\ phase'[j] = "turn" <=> phase[j] = "turn"
                             /\ phase[j] = "none" => phase'[j] = "none"
    BY <1>2, <2>1 DEF Kinds
  <2>3. Fresh' /\ Records'
    BY <1>2, <2>1, <2>2 DEF AutoInv, Fresh, Records, EndedRunsAreRecorded, Active, Runs
  <2> QED
    BY <1>1, <1>2, <2>1, <2>2, <2>3 DEF Whole, AutoInv
<1>10. CASE Toggle \/ Reschedule
  <2>1. \E j \in {[job EXCEPT !.enabled = TRUE, !.due = Next(now)],
                  [job EXCEPT !.enabled = FALSE, !.due = NotSet],
                  [job EXCEPT !.due = Next(now)]} : Edit(j) /\ UNCHANGED runs
    BY <1>10 DEF Toggle, Reschedule
  <2>2. job' \in [exists : BOOLEAN, enabled : BOOLEAN, due : Nat]
    <3>1. ASSUME NEW due \in Nat, NEW on \in BOOLEAN
          PROVE  /\ [job EXCEPT !.enabled = on, !.due = due]
                      \in [exists : BOOLEAN, enabled : BOOLEAN, due : Nat]
                 /\ [job EXCEPT !.due = due] \in [exists : BOOLEAN, enabled : BOOLEAN, due : Nat]
      BY <1>2 DEF Kinds
    <3>2. NotSet \in Nat
      BY DEF NotSet
    <3>3. job' \in {[job EXCEPT !.enabled = TRUE, !.due = Next(now)],
                    [job EXCEPT !.enabled = FALSE, !.due = NotSet],
                    [job EXCEPT !.due = Next(now)]}
      BY <2>1 DEF Edit
    <3>4. /\ [job EXCEPT !.enabled = TRUE, !.due = Next(now)]
               \in [exists : BOOLEAN, enabled : BOOLEAN, due : Nat]
          /\ [job EXCEPT !.enabled = FALSE, !.due = NotSet]
               \in [exists : BOOLEAN, enabled : BOOLEAN, due : Nat]
          /\ [job EXCEPT !.due = Next(now)] \in [exists : BOOLEAN, enabled : BOOLEAN, due : Nat]
      BY <1>2, <3>1, <3>2
    <3> QED
      BY <3>3, <3>4
  <2> QED
    BY <1>1, <1>2, <1>3, <2>1, <2>2 DEF Edit
<1>11. CASE Delete
  <2>1. /\ runs' = {} /\ job' = [exists |-> FALSE, enabled |-> FALSE, due |-> NotSet]
        /\ UNCHANGED <<now, up, lastId, phase, flagged, scheduled, runtimes, fired, orphans>>
    BY <1>11 DEF Delete, Edit
  <2>2. Kinds'
    BY <1>2, <2>1 DEF Kinds, NotSet
  <2>3. Fresh' /\ Records'
    BY <2>1 DEF AutoInv, Fresh, Records, EndedRunsAreRecorded, Active
  <2> QED
    BY <1>1, <1>2, <2>1, <2>2, <2>3 DEF Whole, AutoInv
<1>12. CASE Crash
  <2>1. /\ phase' = [i \in RunIds |-> "none"] /\ flagged' = FALSE /\ scheduled' = {}
        /\ runtimes' = {} /\ up' = FALSE
        /\ orphans' = orphans \union {r.id : r \in Active(runs)}
        /\ UNCHANGED <<now, job, runs, lastId, fired>>
    BY <1>12 DEF Crash, Dies
  <2>2. orphans' \subseteq RunIds
    BY <1>2, <2>1 DEF Kinds, Active, Runs
  <2>3. Kinds'
    BY <1>2, <2>1, <2>2 DEF Kinds
  <2>4. Fresh' /\ Records'
    BY <1>2, <2>1 DEF AutoInv, Fresh, Records, EndedRunsAreRecorded, Active, Runs
  <2> QED
    BY <1>1, <1>2, <2>1, <2>3, <2>4 DEF Whole, AutoInv
<1>13. CASE CrashInClaim
  <2> DEFINE rec == Claim(lastId + 1, job.due)
  <2>1. /\ phase' = [i \in RunIds |-> "none"] /\ flagged' = FALSE /\ scheduled' = {}
        /\ runtimes' = {} /\ up' = FALSE /\ now' = now + 1
        /\ runs' = Kept(runs \union {rec}) /\ lastId' = rec.id /\ lastId < MaxRuns
        /\ orphans' = orphans \union {r.id : r \in Active(runs')}
        /\ UNCHANGED <<job, fired>>
    BY <1>13 DEF CrashInClaim, Dies
  <2>2. rec \in Runs /\ rec.id = lastId + 1 /\ rec.id \in RunIds
        /\ (Active(runs) = {} \/ rec.status = "skipped")
    BY <1>2, <2>1, AutomationAssumption DEF AutoInv, Claim, Kinds, RunIds, Runs, Statuses
  <2>3. runs' \subseteq runs \union {rec}
    BY <2>1, KeptSubset
  <2> HIDE DEF rec
  <2>4. runs' \subseteq Runs
    BY <1>2, <2>2, <2>3
  <2>5. orphans' \subseteq RunIds
    BY <1>2, <2>1, <2>4 DEF Kinds, Active, Runs
  <2>6. Kinds'
    BY <1>2, <2>1, <2>5 DEF Kinds
  <2>7. Fresh'
    <3>1. \A i \in RunIds : phase'[i] = "none"
      BY <2>1
    <3>2. lastId \in Nat /\ \A r \in runs : r.id \in Nat /\ r.id <= lastId
      BY <1>2 DEF AutoInv, Fresh, Runs, RunIds
    <3>3. \A r \in runs' : r.id <= rec.id
      BY <1>2, <2>2, <2>3, <3>2
    <3> QED
      BY <2>1, <3>1, <3>3 DEF Fresh
  <2>8. \A r \in runs : r.id /= rec.id
    BY <1>2, <2>2 DEF AutoInv, Fresh, Runs, RunIds
  <2>9. \A r, s \in runs' : r.id = s.id => r = s
    BY <2>3, <2>8 DEF AutoInv, Records
  <2>10. \A r, s \in Active(runs') : r = s
    <3>1. Active(runs') \subseteq Active(runs) \union {rec}
      BY <2>3 DEF Active
    <3>2. CASE Active(runs) = {}
      BY <3>1, <3>2
    <3>3. CASE rec.status = "skipped"
      <4>1. Active(runs') \subseteq Active(runs)
        BY <3>1, <3>3 DEF Active
      <4> QED
        BY <4>1 DEF AutoInv, Records
    <3> QED
      BY <2>2, <3>2, <3>3
  <2>11. \A r \in runs' : r.id \in RunIds /\ phase'[r.id] /= "turn"
    BY <2>1, <2>4 DEF Runs
  <2>12. EndedRunsAreRecorded'
    BY <2>1 DEF EndedRunsAreRecorded
  <2>13. Records'
    BY <2>9, <2>10, <2>11, <2>12 DEF Records
  <2>14. lastId' \in 0 .. MaxRuns
    BY <2>1, <2>2, AutomationAssumption DEF RunIds
  <2>15. now' \in Nat /\ up' \in BOOLEAN
    <3>1. now' = now + 1 /\ up' = FALSE
      BY <2>1
    <3>2. now \in Nat
      BY <1>2
    <3>3. now' \in Nat
      BY <3>1, <3>2
    <3> QED
      BY <3>1, <3>3
  <2>16. Whole
    BY <2>4, <2>6, <2>7, <2>13, <2>14 DEF Whole
  <2> QED
    BY <1>1, <2>15, <2>16
<1>14. CASE UNCHANGED vars
  <2>1. UNCHANGED <<runs, lastId, phase, flagged, scheduled, runtimes, fired, orphans, job, now, up>>
    BY <1>14 DEF vars
  <2>2. Whole
    BY <1>2, <1>3, <2>1 DEF Kinds
  <2> QED
    BY <1>1, <1>2, <2>1, <2>2
<1> QED
  BY <1>4, <1>5, <1>6, <1>7, <1>8, <1>9, <1>10, <1>11, <1>12, <1>13, <1>14 DEF AutoNext

LEMMA AutoAlways == AutoSpec => []AutoInv
BY AutoInit, AutoStep, PTL DEF AutoSpec

\* Every file and every field holds what its handlers write.
THEOREM TypeCorrect == AutoSpec => []AutoTypeOK
<1>1. AutoInv => AutoTypeOK
  BY DEF AutoInv
<1> QED
  BY <1>1, AutoAlways, PTL

\* Of two executions in their agent turns at once one has lost its record.
THEOREM ApartByRecord == AutoSpec => []NoOverlap
<1>1. AutoInv => NoOverlap
  BY DEF AutoInv, Records, NoOverlap, Recorded, Active
<1> QED
  BY <1>1, AutoAlways, PTL

\* What is recorded as running runs, or nobody is left to say otherwise.
THEOREM OutcomesAreRecorded == AutoSpec => []EndedRunsAreRecorded
<1>1. AutoInv => EndedRunsAreRecorded
  BY DEF AutoInv, Records
<1> QED
  BY <1>1, AutoAlways, PTL

-----------------------------------------------------------------------------
(* What an execution takes it gives back *)

LEMMA CleanStep ==
  ASSUME AutoInv, ExecutionsCleanUp, [AutoNext]_vars PROVE ExecutionsCleanUp'
<1> USE DEF ExecutionsCleanUp
<1>0. phase \in [RunIds -> {"none", "turn", "closing"}] /\ scheduled \subseteq RunIds
      /\ flagged \in BOOLEAN
  BY DEF AutoInv, AutoTypeOK
<1>1. ASSUME UNCHANGED <<phase, flagged, scheduled, runtimes>>, job'.exists => job.exists
      PROVE  ExecutionsCleanUp'
  BY <1>1 DEF FlagIsHeld, RuntimesReleased, Live
<1>2. ASSUME NEW id \in RunIds, Launched(id), job'.exists => job.exists,
             \/ UNCHANGED <<flagged, scheduled>>
             \/ ~flagged /\ flagged' = TRUE /\ scheduled' = scheduled \union {id}
      PROVE  ExecutionsCleanUp'
  <2>1. Live' = Live \union {id} /\ runtimes' = runtimes \union {id}
    BY <1>0, <1>2 DEF Launched, Live
  <2> QED
    BY <1>2, <2>1 DEF FlagIsHeld, RuntimesReleased
<1>3. ASSUME NEW id \in RunIds, Returned(id), job'.exists => job.exists,
             runtimes' = runtimes \ {id} \/ (UNCHANGED runtimes /\ ~job'.exists)
      PROVE  ExecutionsCleanUp'
  <2>1. Live' = Live \ {id}
    BY <1>0, <1>3 DEF Returned, Live
  <2> QED
    BY <1>0, <1>3, <2>1 DEF Returned, FlagIsHeld, RuntimesReleased
<1>4. ASSUME NEW t, ProcessDueJob(t) PROVE ExecutionsCleanUp'
  <2> DEFINE rec == Claim(lastId + 1, job.due)
  <2>1. job'.exists => job.exists
    BY <1>4 DEF ProcessDueJob, PassOver, ClaimInFlight, ClaimSkipped, ClaimAndExecute, Claimed,
                AutoInv, AutoTypeOK
  <2>2. CASE UNCHANGED <<phase, flagged, scheduled, runtimes>>
    BY <1>1, <2>1, <2>2
  <2>3. CASE /\ lastId < MaxRuns /\ ~flagged /\ Launched(rec.id) /\ flagged' = TRUE
             /\ scheduled' = scheduled \union {rec.id}
    <3>1. rec.id \in RunIds
      BY <2>3, AutomationAssumption DEF AutoInv, Claim, RunIds
    <3> HIDE DEF rec
    <3> QED
      BY <1>2, <2>1, <2>3, <3>1
  <2> QED
    BY <1>4, <2>2, <2>3 DEF ProcessDueJob, PassOver, ClaimInFlight, ClaimSkipped, ClaimAndExecute,
                            NotLaunched
<1>5. CASE Tick \/ Restart
  BY <1>4, <1>5 DEF Tick, Restart
<1>6. CASE RunNow
  <2> DEFINE rec == Claim(lastId + 1, now)
  <2>1. rec.id \in RunIds
    BY <1>6, AutomationAssumption DEF RunNow, AutoInv, Claim, RunIds
  <2>2. job'.exists => job.exists
    BY <1>6 DEF RunNow
  <2>3. UNCHANGED <<flagged, scheduled>> /\ (Launched(rec.id) \/ NotLaunched)
    BY <1>6 DEF RunNow
  <2> HIDE DEF rec
  <2> QED
    BY <1>1, <1>2, <2>1, <2>2, <2>3 DEF NotLaunched
<1>7. ASSUME NEW i \in RunIds, NEW outcome \in {"succeeded", "failed"}, TurnEnds(i, outcome)
      PROVE  ExecutionsCleanUp'
  <2>1. CASE job.exists
    <3>1. Live' = Live
      BY <1>0, <1>7, <2>1 DEF TurnEnds, Live
    <3> QED
      BY <1>7, <2>1, <3>1 DEF TurnEnds, FlagIsHeld, RuntimesReleased
  <2>2. CASE ~job.exists
    BY <1>3, <1>7, <2>2 DEF TurnEnds
  <2> QED
    BY <2>1, <2>2
<1>8. ASSUME NEW i \in RunIds, Close(i) PROVE ExecutionsCleanUp'
  BY <1>3, <1>8 DEF Close
<1>9. CASE Toggle \/ Reschedule \/ Delete \/ Wait \/ UNCHANGED vars
  <2>1. UNCHANGED <<phase, flagged, scheduled, runtimes>> /\ (job.exists \/ job' = job)
    BY <1>9 DEF Toggle, Reschedule, Delete, Edit, Wait, vars
  <2> QED
    BY <1>1, <2>1
<1>10. CASE Crash \/ CrashInClaim
  <2>1. flagged' = FALSE /\ scheduled' = {} /\ runtimes' = {}
    BY <1>10 DEF Crash, CrashInClaim, Dies
  <2> QED
    BY <2>1 DEF FlagIsHeld, RuntimesReleased
<1> QED
  BY <1>5, <1>6, <1>7, <1>8, <1>9, <1>10 DEF AutoNext

\* However an execution ends, its flag and its runtime are given back; only
\* the deletion of the job in between leaves a runtime behind.
THEOREM CleanedUp == AutoSpec => []ExecutionsCleanUp
BY AutoInit, AutoAlways, CleanStep, PTL DEF AutoSpec

-----------------------------------------------------------------------------
(* Triggers *)

TriggerInv == Fires /\ TriggersRunOnce

LEMMA TriggerStep ==
  ASSUME AutoInv, TriggerInv, [AutoNext]_vars PROVE TriggerInv'
<1>0. /\ now \in Nat /\ job \in [exists : BOOLEAN, enabled : BOOLEAN, due : Nat]
      /\ \A e \in fired : e.trigger \in Nat
      /\ \A t \in Nat : Next(t) \in Nat /\ Next(t) > t
  BY AutomationAssumption DEF AutoInv, AutoTypeOK, Next
<1>1. ASSUME UNCHANGED fired, now' \in Nat, now' >= now,
             job'.due \in {job.due, NotSet} \/ (job'.due \in Nat /\ job'.due > now)
      PROVE  TriggerInv'
  BY <1>0, <1>1 DEF TriggerInv, Fires, TriggersRunOnce
<1>2. ASSUME now' = now + 1, ProcessDueJob(now + 1) PROVE TriggerInv'
  <2> DEFINE rec == Claim(lastId + 1, job.due)
  <2>1. now + 1 \in Nat /\ Next(now + 1) \in Nat /\ Next(now + 1) > now + 1
    BY <1>0
  <2>2. job'.due \in {job.due, Next(now + 1)}
    BY <1>0, <1>2 DEF ProcessDueJob, PassOver, ClaimInFlight, ClaimSkipped, ClaimAndExecute, Claimed
  <2>3. CASE UNCHANGED fired
    <3>1. now' \in Nat /\ now' >= now /\ (job'.due = job.due \/ (job'.due \in Nat /\ job'.due > now))
      BY <1>0, <1>2, <2>1, <2>2
    <3> QED
      BY <1>1, <2>3, <3>1
  <2>4. CASE /\ Due(now + 1) /\ job'.due = Next(now + 1)
             /\ fired' = fired \union {[trigger |-> job.due, id |-> rec.id]}
    <3>1. job.due \in Nat /\ job.due /= NotSet /\ job.due <= now + 1
      BY <1>0, <2>4 DEF Due
    <3>2. \A e \in fired : e.trigger < job.due
      BY <3>1 DEF TriggerInv, Fires
    <3> HIDE DEF rec
    <3>3. TriggersRunOnce'
      BY <1>0, <2>4, <3>1, <3>2 DEF TriggerInv, TriggersRunOnce
    <3>4. \A e \in fired' : e.trigger \in Nat /\ e.trigger <= job.due
      BY <1>0, <2>4, <3>1, <3>2
    <3>5. Fires'
      BY <1>2, <2>1, <2>4, <3>1, <3>4 DEF Fires
    <3> QED
      BY <3>3, <3>5 DEF TriggerInv
  <2> QED
    BY <1>0, <1>2, <2>3, <2>4 DEF ProcessDueJob, PassOver, ClaimInFlight, ClaimSkipped, ClaimAndExecute,
                            Claimed
<1>3. CASE Tick \/ Restart
  BY <1>2, <1>3 DEF Tick, Restart
<1>4. CASE Toggle \/ Reschedule \/ Delete
  <2>1. UNCHANGED <<fired, now>> /\ job'.due \in {NotSet, Next(now)}
    <3>1. CASE Toggle
      BY <1>0, <3>1 DEF Toggle, Edit
    <3>2. CASE Reschedule
      BY <1>0, <3>2 DEF Reschedule, Edit
    <3>3. CASE Delete
      BY <3>3 DEF Delete, Edit
    <3> QED
      BY <1>4, <3>1, <3>2, <3>3
  <2> QED
    BY <1>0, <1>1, <2>1
<1>5. CASE \/ Wait \/ RunNow \/ Crash \/ CrashInClaim \/ UNCHANGED vars
           \/ \E i \in RunIds, outcome \in {"succeeded", "failed"} : TurnEnds(i, outcome)
           \/ \E i \in RunIds : Close(i)
  <2>1. UNCHANGED fired /\ now' \in {now, now + 1} /\ job'.due = job.due
    BY <1>0, <1>5 DEF Wait, RunNow, Claimed, Crash, CrashInClaim, TurnEnds, Close, vars
  <2> QED
    BY <1>0, <1>1, <2>1
<1> QED
  BY <1>3, <1>4, <1>5 DEF AutoNext

\* Late ticks, torn claims, restarts and edits included.
THEOREM TriggersOnce == AutoSpec => []TriggersRunOnce
<1>1. Init => TriggerInv
  BY AutoInit DEF Init, TriggerInv, TriggersRunOnce
<1>2. TriggerInv => TriggersRunOnce
  BY DEF TriggerInv
<1> QED
  BY <1>1, <1>2, AutoAlways, TriggerStep, PTL DEF AutoSpec
=============================================================================
