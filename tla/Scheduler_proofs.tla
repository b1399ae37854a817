--------------------------- MODULE Scheduler_proofs --------------------------
(***************************************************************************)
(* Proofs about Scheduler, for all lengths of days, sessions, lockouts and *)
(* bounds, all rules and sleep schedules: types, that sleep which was      *)
(* stopped stays so, that a plan is not taken back just before it starts,  *)
(* that a night in progress survives a restart, and that nothing that was  *)
(* accepted overlaps.                                                      *)
(***************************************************************************)
EXTENDS Scheduler, TLAPS

-----------------------------------------------------------------------------
(* Times *)

\* Dates are numbers.
LEMMA DateType == ASSUME NEW t \in Int PROVE Date(t) \in Int
BY ConstantsAssumption DEF Date

\* A night is no longer than a day.
LEMMA SleepLenType ==
  ASSUME NEW c \in Configs
  PROVE  SleepLen(c) \in Nat /\ SleepLen(c) > 0 /\ SleepLen(c) <= Day
<1>1. c.wake \in 0..(Day - 1) /\ c.sleep \in 0..(Day - 1)
  BY ConstantsAssumption DEF Configs, NoConfig
<1> QED
  BY <1>1, ConstantsAssumption DEF SleepLen

\* So are the starts of nights, and those that are on are not over.
LEMMA SleepNowType ==
  ASSUME now \in Nat, NEW c \in Configs, NEW occ \in SleepNow(c)
  PROVE  occ \in Int /\ occ + SleepLen(c) \in Nat
<1>1. occ \in SleepStarts(c, {Date(now), Date(now) - 1}) /\ now < occ + SleepLen(c)
  BY DEF SleepNow
<1>2. PICK d \in {Date(now), Date(now) - 1} : occ = d * Day + c.sleep
  BY <1>1 DEF SleepStarts
<1>3. d \in Int
  BY DateType
<1>4. c.sleep \in Int
  BY ConstantsAssumption DEF Configs, NoConfig
<1>5. occ \in Int
  BY <1>2, <1>3, <1>4, ConstantsAssumption
<1> QED
  BY <1>1, <1>5, SleepLenType

\* Rules are edited to rules.
LEMMA EditsType ==
  ASSUME NEW r \in RuleRecords, NEW new \in Edits(r)
  PROVE  new \in RuleRecords
<1>1. PICK skips \in SUBSET NextRuns(r) :
        new \in [on : BOOLEAN, shape : Shapes, triggered : {r.triggered},
                skip : {Never, r.skip} \cup {Date(t) : t \in skips}]
  BY DEF Edits
<1>2. \A t \in skips : Date(t) \in Int
  BY DateType DEF NextRuns
<1> QED
  BY <1>1, <1>2 DEF RuleRecords, Never

-----------------------------------------------------------------------------
(* Types, part by part *)

AllRules == [Ids -> RuleRecords \cup {NoRule}]
Locks == [session : Sessions, plans : SUBSET Plans, rules : AllRules]

ClockOK == now \in Nat /\ up \in BOOLEAN /\ seen \in BOOLEAN
MemoryOK == session \in Sessions /\ plans \subseteq Plans /\ rules \in AllRules
SleepOK == sleep \in SleepStates /\ sleepFile \in SleepStates
LockOK == lock \in Locks
PickedOK == picked \in Picks
HistoryOK == /\ early \subseteq Int /\ forgotten \subseteq early
             /\ raced \in BOOLEAN /\ promoted \in BOOLEAN /\ masked \in BOOLEAN
CountsOK == crashes \in Nat /\ failures \in Nat
Parts == ClockOK /\ MemoryOK /\ SleepOK /\ LockOK /\ PickedOK /\ HistoryOK /\ CountsOK

LEMMA TypeParts == TypeOK <=> Parts
BY DEF TypeOK, Parts, ClockOK, MemoryOK, SleepOK, LockOK, PickedOK, HistoryOK, CountsOK,
       AllRules, Locks

\* Nothing of a daemon that starts for the first time is out of range.
LEMMA NothingType ==
  /\ NoSession \in Sessions /\ Nothing \in Picks /\ NoSleep \in SleepStates
  /\ [id \in Ids |-> NoRule] \in AllRules
<1>1. NoSession \in Sessions /\ Nothing \in Picks
  BY DEF Sessions, Picks
<1>2. NoSleep \in SleepStates
  BY DEF NoSleep, SleepStates, Configs
<1>3. [id \in Ids |-> NoRule] \in AllRules
  BY DEF AllRules
<1> QED
  BY <1>1, <1>2, <1>3

\* A session that is started.
LEMMA RegularType ==
  ASSUME now \in Nat, NEW by \in {"hand", "plan", "rule"}, NEW len \in Nat
  PROVE  Regular(by, len) \in Sessions
BY DEF Regular, Sessions, Never

\* What is saved is what memory holds.
LEMMA SnapshotType == ASSUME MemoryOK' PROVE Snapshot \in Locks
BY DEF MemoryOK, Snapshot, Locks

LEMMA SaveType ==
  ASSUME LockOK, CountsOK, MemoryOK', Save
  PROVE  LockOK' /\ failures' \in Nat
<1>1. CASE lock' = Snapshot /\ UNCHANGED failures
  BY <1>1, SnapshotType DEF LockOK, CountsOK
<1>2. CASE Fail /\ UNCHANGED lock
  BY <1>2 DEF LockOK, CountsOK, Fail
<1> QED
  BY <1>1, <1>2 DEF Save

\* A queued edit takes effect.
LEMMA PromotedType ==
  ASSUME NEW s \in SleepStates
  PROVE  Promoted(s) \in SleepStates /\ Promoted(s).config \in Configs
         /\ Promoted(s).stopped = s.stopped
<1>1. s.pending \in Configs /\ s.stopped \in SUBSET Int /\ s.config \in Configs
  BY DEF SleepStates
<1>2. CASE PendingDue(s)
  <2> DEFINE q == [config |-> s.pending, stopped |-> s.stopped, queued |-> FALSE,
                   pending |-> NoConfig, applyAt |-> 0]
  <2>1. Promoted(s) = q
    BY <1>2 DEF Promoted, NoSleep
  <2>2. q \in SleepStates /\ q.config \in Configs /\ q.stopped = s.stopped
    BY <1>1 DEF SleepStates, Configs
  <2> HIDE DEF q
  <2> QED
    BY <2>1, <2>2
<1>3. CASE ~PendingDue(s)
  BY <1>1, <1>3 DEF Promoted
<1> QED
  BY <1>2, <1>3

\* Skipped runs are over.
LEMMA SkipDoneType ==
  ASSUME now \in Nat, rules \in AllRules
  PROVE  SkipDone \in AllRules
<1>1. ASSUME NEW id \in Ids, Skipping(rules[id])
      PROVE  [rules[id] EXCEPT !.skip = Never, !.triggered = Date(now)] \in RuleRecords
  <2>1. rules[id] \in RuleRecords
    <3>1. rules[id].on
      BY <1>1 DEF Skipping, RunDue
    <3>2. ~NoRule.on
      BY DEF NoRule
    <3> QED
      BY <3>1, <3>2 DEF AllRules
  <2>2. Date(now) \in Int
    BY DateType
  <2>3. Never \in Int
    BY DEF Never
  <2>4. \A r \in RuleRecords, k \in Int, t \in Int :
          [r EXCEPT !.skip = k, !.triggered = t] \in RuleRecords
    BY DEF RuleRecords
  <2> QED
    BY <2>1, <2>2, <2>3, <2>4
<1>2. \A id \in Ids : SkipDone[id] \in RuleRecords \cup {NoRule}
  BY <1>1 DEF AllRules, SkipDone
<1> QED
  BY <1>2 DEF AllRules, SkipDone

\* Every command keeps the types.
LEMMA CommandType == ASSUME Parts, Command PROVE Parts'
<1> USE DEF Parts, ClockOK, HistoryOK, CountsOK
<1>1. ASSUME NEW c \in Configs, SaveSleep(c) PROVE Parts'
  <2>1. MemoryOK' /\ LockOK' /\ PickedOK'
    BY <1>1 DEF SaveSleep, MemoryOK, LockOK, PickedOK, Locks
  <2>2. sleep' \in SleepStates
    <3>1. CASE session.kind = "sleep"
      <4>1. session.end \in Nat
        BY <3>1 DEF MemoryOK, Sessions, NoSession
      <4>2. sleep' = [sleep EXCEPT !.queued = TRUE, !.pending = c, !.applyAt = session.end]
        BY <1>1, <3>1 DEF SaveSleep
      <4> QED
        BY <4>1, <4>2 DEF SleepOK, SleepStates
    <3>2. CASE session.kind # "sleep"
      <4>1. sleep' = [NoSleep EXCEPT !.config = c, !.stopped = sleep.stopped]
        BY <1>1, <3>2 DEF SaveSleep
      <4> QED
        BY <4>1 DEF SleepOK, SleepStates, NoSleep, Configs
    <3> QED
      BY <3>1, <3>2
  <2>3. SleepOK'
    BY <1>1, <2>2 DEF SaveSleep, SleepOK
  <2>4. ClockOK' /\ HistoryOK' /\ CountsOK'
    BY <1>1 DEF SaveSleep
  <2> QED
    BY <2>1, <2>3, <2>4
<1>2. ASSUME NEW ahead \in 1..Ahead, NEW len \in Lengths, Schedule(now + ahead, len) PROVE Parts'
  <2>1. [start |-> now + ahead, end |-> now + ahead + len, len |-> len] \in Plans
    BY ConstantsAssumption DEF Plans
  <2>2. MemoryOK'
    BY <1>2, <2>1 DEF Schedule, MemoryOK
  <2>3. LockOK'
    BY <1>2, <2>2, SnapshotType DEF Schedule, LockOK
  <2>4. SleepOK' /\ PickedOK'
    BY <1>2 DEF Schedule, SleepOK, PickedOK
  <2>5. ClockOK' /\ HistoryOK' /\ CountsOK'
    BY <1>2 DEF Schedule, history
  <2> QED
    BY <2>2, <2>3, <2>4, <2>5
<1>3. ASSUME NEW plan \in plans, Cancel(plan) PROVE Parts'
  <2>1. MemoryOK'
    BY <1>3 DEF Cancel, MemoryOK
  <2>2. LockOK' /\ failures' \in Nat
    BY <1>3, <2>1, SaveType DEF Cancel
  <2>3. SleepOK' /\ PickedOK'
    BY <1>3 DEF Cancel, SleepOK, PickedOK
  <2>4. ClockOK' /\ HistoryOK' /\ crashes' = crashes
    BY <1>3 DEF Cancel, history
  <2> QED
    BY <2>1, <2>2, <2>3, <2>4
<1>4. ASSUME NEW id \in Ids, NEW shape \in Shapes, AddRule(id, shape) PROVE Parts'
  <2>0. [on |-> TRUE, shape |-> shape, skip |-> Never, triggered |-> Never] \in RuleRecords
    BY DEF RuleRecords, Never
  <2>1. MemoryOK'
    BY <1>4, <2>0 DEF AddRule, MemoryOK, AllRules
  <2>2. LockOK' /\ failures' \in Nat
    BY <1>4, <2>1, SaveType DEF AddRule
  <2>3. SleepOK' /\ PickedOK'
    BY <1>4 DEF AddRule, SleepOK, PickedOK
  <2>4. ClockOK' /\ HistoryOK' /\ crashes' = crashes
    BY <1>4 DEF AddRule, history
  <2> QED
    BY <2>1, <2>2, <2>3, <2>4
<1>5. ASSUME NEW id \in Ids, RemoveRule(id) PROVE Parts'
  <2>1. MemoryOK'
    BY <1>5 DEF RemoveRule, MemoryOK, AllRules
  <2>2. LockOK' /\ failures' \in Nat
    BY <1>5, <2>1, SaveType DEF RemoveRule
  <2>3. SleepOK' /\ PickedOK'
    BY <1>5 DEF RemoveRule, SleepOK, PickedOK
  <2>4. ClockOK' /\ HistoryOK' /\ crashes' = crashes
    BY <1>5 DEF RemoveRule, history
  <2> QED
    BY <2>1, <2>2, <2>3, <2>4
<1>6. ASSUME NEW id \in Ids,
             NEW new \in Edits(rules[id]), UpdateRule(id, new)
      PROVE  Parts'
  <2>0. new \in RuleRecords
    <3>1. rules[id] \in RuleRecords
      BY <1>6 DEF UpdateRule, MemoryOK, AllRules
    <3> QED
      BY <1>6, <3>1, EditsType
  <2>1. MemoryOK'
    BY <1>6, <2>0 DEF UpdateRule, MemoryOK, AllRules
  <2>2. LockOK' /\ failures' \in Nat
    BY <1>6, <2>1, SaveType DEF UpdateRule
  <2>3. SleepOK' /\ PickedOK'
    BY <1>6 DEF UpdateRule, SleepOK, PickedOK
  <2>4. ClockOK' /\ HistoryOK' /\ crashes' = crashes
    BY <1>6 DEF UpdateRule, history
  <2> QED
    BY <2>1, <2>2, <2>3, <2>4
<1>7. ASSUME NEW len \in Lengths, StartNow(len) \/ Merge(len) PROVE Parts'
  <2>0. len \in Nat
    BY ConstantsAssumption
  <2>1. session' \in Sessions
    <3>1. CASE StartNow(len)
      BY <2>0, <3>1, RegularType DEF StartNow
    <3>2. CASE Merge(len)
      <4>1. session.kind = "regular" /\ session' = [session EXCEPT !.end = now + len, !.by = "hand"]
        BY <3>2 DEF Merge
      <4>2. session \in [kind : {"regular"}, by : {"hand", "plan", "rule"}, end : Nat,
                         occ : {Never}, unlock : {Never} \cup Nat]
        BY <4>1 DEF MemoryOK, Sessions, NoSession
      <4>3. session' \in [kind : {"regular"}, by : {"hand", "plan", "rule"}, end : Nat,
                          occ : {Never}, unlock : {Never} \cup Nat]
        <5>1. \A r \in [kind : {"regular"}, by : {"hand", "plan", "rule"}, end : Nat,
                         occ : {Never}, unlock : {Never} \cup Nat], e \in Nat :
                [r EXCEPT !.end = e, !.by = "hand"] \in
                  [kind : {"regular"}, by : {"hand", "plan", "rule"}, end : Nat,
                   occ : {Never}, unlock : {Never} \cup Nat]
          OBVIOUS
        <5>2. now + len \in Nat
          BY <2>0
        <5> QED
          BY <4>1, <4>2, <5>1, <5>2
      <4> QED
        BY <4>3 DEF Sessions
    <3> QED
      BY <1>7, <3>1, <3>2
  <2>2. MemoryOK'
    BY <1>7, <2>1 DEF StartNow, Merge, MemoryOK
  <2>3. LockOK'
    BY <1>7, <2>2, SnapshotType DEF StartNow, Merge, LockOK
  <2>4. SleepOK' /\ PickedOK'
    BY <1>7 DEF StartNow, Merge, SleepOK, PickedOK
  <2>5. ClockOK' /\ HistoryOK' /\ CountsOK'
    BY <1>7 DEF StartNow, Merge, history
  <2> QED
    BY <2>2, <2>3, <2>4, <2>5
<1>8. ASSUME RequestStop PROVE Parts'
  <2>1. session' \in Sessions
    <3>1. session.kind # "none" /\ session' = [session EXCEPT !.unlock = now + UnlockDelay]
      BY <1>8 DEF RequestStop
    <3> QED
      BY <3>1, ConstantsAssumption DEF MemoryOK, Sessions, NoSession
  <2>2. MemoryOK'
    BY <1>8, <2>1 DEF RequestStop, MemoryOK
  <2>3. LockOK'
    BY <1>8, <2>2, SnapshotType DEF RequestStop, LockOK
  <2>4. SleepOK' /\ PickedOK'
    BY <1>8 DEF RequestStop, SleepOK, PickedOK
  <2>5. ClockOK' /\ HistoryOK' /\ CountsOK'
    BY <1>8 DEF RequestStop, history
  <2> QED
    BY <2>2, <2>3, <2>4, <2>5
<1> QED
  BY <1>1, <1>2, <1>3, <1>4, <1>5, <1>6, <1>7, <1>8 DEF Command

\* What the watchdog picks, and what it leaves of plans and rules.
LEMMA PickType ==
  ASSUME Parts, sleep' \in SleepStates, sleep'.config \in Configs, UNCHANGED session,
         PickSleep(sleep') \/ PickRule(sleep') \/ PickPlan(sleep') \/ PickNothing(sleep')
  PROVE  MemoryOK' /\ PickedOK' /\ LockOK' /\ failures' \in Nat /\ seen' \in BOOLEAN
<1> USE DEF Parts, ClockOK, CountsOK
<1>1. CASE PickSleep(sleep')
  <2>1. PICK occ \in SleepDue(sleep') :
          picked' = [by |-> "sleep", len |-> SleepLen(sleep'.config),
                     end |-> occ + SleepLen(sleep'.config), occ |-> occ]
    BY <1>1 DEF PickSleep
  <2>2. occ \in SleepNow(sleep'.config)
    BY DEF SleepDue
  <2>3. occ \in Int /\ occ + SleepLen(sleep'.config) \in Nat /\ SleepLen(sleep'.config) \in Nat
    BY <2>2, SleepNowType, SleepLenType
  <2>4. PickedOK'
    BY <2>1, <2>3 DEF PickedOK, Picks
  <2> QED
    BY <1>1, <2>4 DEF PickSleep, MemoryOK, LockOK
<1>2. CASE PickRule(sleep')
  <2>1. PICK id \in RulesDue :
          /\ rules' = [SkipDone EXCEPT ![id].triggered = Date(now)]
          /\ picked' = [Nothing EXCEPT !.by = "rule", !.len = rules[id].shape.len]
    BY <1>2 DEF PickRule
  <2>2. id \in Ids /\ rules[id].on /\ ~Skipping(rules[id])
    BY DEF RulesDue, RunDue
  <2>3. rules[id] \in RuleRecords
    <3>1. ~NoRule.on
      BY DEF NoRule
    <3> QED
      BY <2>2, <3>1 DEF MemoryOK, AllRules
  <2>4. rules' \in AllRules
    <3>1. SkipDone \in AllRules /\ Date(now) \in Int
      BY SkipDoneType, DateType DEF MemoryOK
    <3>2. SkipDone[id] = rules[id]
      BY <2>2 DEF SkipDone
    <3>3. \A r \in RuleRecords, t \in Int : [r EXCEPT !.triggered = t] \in RuleRecords
      BY DEF RuleRecords
    <3>4. rules' = [SkipDone EXCEPT ![id] = [rules[id] EXCEPT !.triggered = Date(now)]]
      BY <2>1, <2>2, <3>1, <3>2 DEF AllRules
    <3> QED
      BY <2>2, <2>3, <3>1, <3>3, <3>4 DEF AllRules
  <2>5. rules[id].shape.len \in Nat
    BY <2>3, ConstantsAssumption DEF RuleRecords
  <2>6. PickedOK'
    BY <2>1, <2>5 DEF PickedOK, Picks, Nothing
  <2>7. MemoryOK'
    BY <1>2, <2>4 DEF PickRule, MemoryOK
  <2> QED
    BY <1>2, <2>6, <2>7, SaveType DEF PickRule
<1>3. CASE PickPlan(sleep')
  <2>1. PICK p \in PlansDue :
          plans' = Current \ {p} /\ picked' = [Nothing EXCEPT !.by = "plan", !.len = p.len]
    BY <1>3 DEF PickPlan
  <2>2. p \in Plans
    BY DEF PlansDue, Current, MemoryOK
  <2>3. p.len \in Nat
    <3>1. p.len \in Lengths
      BY <2>2 DEF Plans
    <3>2. Lengths \subseteq 1..Day /\ Day \in Nat
      BY ConstantsAssumption
    <3>3. p.len \in 1..Day
      BY <3>1, <3>2
    <3> QED
      BY <3>2, <3>3
  <2>4. PickedOK'
    BY <2>1, <2>3 DEF PickedOK, Picks, Nothing
  <2>5. MemoryOK'
    BY <1>3, <2>1, SkipDoneType DEF PickPlan, MemoryOK, Current
  <2> QED
    BY <1>3, <2>4, <2>5, SaveType DEF PickPlan
<1>4. CASE PickNothing(sleep')
  <2>1. MemoryOK'
    BY <1>4, SkipDoneType DEF PickNothing, MemoryOK, Current
  <2>2. LockOK' /\ failures' \in Nat
    BY <1>4, <2>1, SaveType DEF PickNothing, LockOK
  <2> QED
    BY <1>4, <2>1, <2>2 DEF PickNothing, PickedOK
<1> QED
  BY <1>1, <1>2, <1>3, <1>4

\* The watchdog keeps the types.
LEMMA WatchType == ASSUME Parts, Watch PROVE Parts'
<1> USE DEF Parts, ClockOK, HistoryOK, CountsOK
<1>1. UNCHANGED <<now, up, session, early, forgotten, raced, masked, crashes>>
  BY DEF Watch
<1>2. CASE /\ sleep' = Promoted(sleep)
           /\ sleepFile' = IF PendingDue(sleep) THEN sleep' ELSE sleepFile
           /\ promoted' = (promoted \/ PendingDue(sleep))
           /\ PickSleep(sleep') \/ PickRule(sleep') \/ PickPlan(sleep') \/ PickNothing(sleep')
  <2>1. sleep' \in SleepStates /\ sleep'.config \in Configs
    BY <1>2, PromotedType DEF SleepOK
  <2>2. SleepOK'
    BY <1>2, <2>1 DEF SleepOK
  <2>3. MemoryOK' /\ PickedOK' /\ LockOK' /\ failures' \in Nat /\ seen' \in BOOLEAN
    BY <1>1, <1>2, <2>1, PickType
  <2>4. promoted' \in BOOLEAN
    BY <1>2 DEF PendingDue
  <2> QED
    BY <1>1, <2>2, <2>3, <2>4
<1>3. CASE /\ PendingDue(sleep) /\ Fail
           /\ UNCHANGED <<sleep, sleepFile, promoted, plans, rules, lock, picked, seen>>
  BY <1>1, <1>3 DEF Fail, MemoryOK, SleepOK, LockOK, PickedOK
<1> QED
  BY <1>2, <1>3 DEF Watch

LEMMA StartPickedType == ASSUME Parts, StartPicked PROVE Parts'
<1> USE DEF Parts, ClockOK, HistoryOK, CountsOK
<1>1. /\ picked # Nothing /\ picked' = Nothing /\ UNCHANGED <<plans, rules>>
      /\ UNCHANGED <<now, up, sleep, sleepFile, seen, history, crashes>>
  BY DEF StartPicked
<1>2. ClockOK' /\ SleepOK' /\ PickedOK' /\ HistoryOK' /\ crashes' \in Nat
  BY <1>1, NothingType DEF SleepOK, PickedOK, history
<1>3. CASE UNCHANGED <<session, lock>> /\ (Fail \/ UNCHANGED failures)
  BY <1>1, <1>2, <1>3 DEF MemoryOK, LockOK, Fail
<1>4. CASE /\ session' = IF picked.by = "sleep"
                         THEN [kind |-> "sleep", by |-> "sleep", end |-> picked.end,
                               occ |-> picked.occ, unlock |-> Never]
                         ELSE Regular(picked.by, picked.len)
           /\ lock' = Snapshot /\ UNCHANGED failures
  <2>1. session' \in Sessions
    <3>1. CASE picked.by = "sleep"
      <4>1. picked.end \in Nat /\ picked.occ \in Int
        BY <3>1 DEF PickedOK, Picks, Nothing
      <4> QED
        BY <1>4, <3>1, <4>1 DEF Sessions
    <3>2. CASE picked.by # "sleep"
      <4>1. picked.by \in {"rule", "plan"} /\ picked.len \in Nat
        BY <1>1, <3>2 DEF PickedOK, Picks
      <4> QED
        BY <1>4, <3>2, <4>1, RegularType
    <3> QED
      BY <3>1, <3>2
  <2>2. MemoryOK'
    BY <1>1, <2>1 DEF MemoryOK
  <2>3. LockOK' /\ failures' \in Nat
    BY <1>4, <2>2, SnapshotType DEF LockOK
  <2> QED
    BY <1>2, <2>2, <2>3
<1> QED
  BY <1>3, <1>4 DEF StartPicked

\* The sleep schedule after a session.
LEMMA SleptOutType ==
  ASSUME MemoryOK, SleepOK
  PROVE  SleptOut \in SleepStates /\ SleepSaved(SleptOut) \in SleepStates
<1>1. SleptOut \in SleepStates
  <2>1. CASE StoppedEarly
    <3>1. session.occ \in Int
      BY <2>1 DEF StoppedEarly, MemoryOK, Sessions, NoSession
    <3>2. [sleep EXCEPT !.stopped = sleep.stopped \cup {session.occ}] \in SleepStates
      BY <3>1 DEF SleepOK, SleepStates
    <3> QED
      BY <2>1, <3>2 DEF SleptOut
  <2>2. CASE ~StoppedEarly
    BY <2>2, PromotedType DEF SleptOut, SleepOK
  <2> QED
    BY <2>1, <2>2
<1> QED
  BY <1>1 DEF SleepSaved, SleepOK

LEMMA ExpireType == ASSUME Parts, Expire PROVE Parts'
<1> USE DEF Parts, ClockOK, HistoryOK, CountsOK
<1>1. /\ session' = NoSession /\ UNCHANGED <<plans, rules>> /\ seen' = FALSE
      /\ UNCHANGED <<now, up, picked, forgotten, raced, masked, crashes>>
      /\ early' = IF StoppedEarly THEN early \cup {session.occ} ELSE early
      /\ promoted' = (promoted \/ sleep'.config # sleep.config)
  BY DEF Expire, Ended
<1>2. MemoryOK' /\ PickedOK'
  BY <1>1, NothingType DEF MemoryOK, PickedOK
<1>3. HistoryOK'
  <2>1. StoppedEarly => session.occ \in Int
    BY DEF StoppedEarly, MemoryOK, Sessions, NoSession
  <2> QED
    BY <1>1, <2>1
<1>4. SleepOK' /\ LockOK' /\ failures' \in Nat
  <2>1. CASE sleep' = SleptOut /\ sleepFile' = SleepSaved(SleptOut) /\ Save
    BY <1>2, <2>1, SleptOutType, SaveType DEF SleepOK
  <2>2. CASE /\ SleptOut # sleep /\ Fail /\ UNCHANGED sleepFile
             /\ IF StoppedEarly THEN sleep' = SleptOut /\ lock' = Snapshot
                                ELSE UNCHANGED <<sleep, lock>>
    BY <1>2, <2>2, SleptOutType, SnapshotType DEF SleepOK, LockOK, Fail
  <2> QED
    BY <2>1, <2>2 DEF Expire
<1> QED
  BY <1>1, <1>2, <1>3, <1>4

\* A crash leaves nothing in memory, a restart takes it from the files.
LEMMA DownAndUpType == ASSUME Parts, Crash \/ Boot PROVE Parts'
<1> USE DEF Parts, ClockOK, HistoryOK, CountsOK
<1>1. CASE Crash
  <2>1. /\ session' = NoSession /\ plans' = {} /\ rules' = [id \in Ids |-> NoRule]
        /\ sleep' = NoSleep /\ picked' = Nothing /\ up' = FALSE /\ seen' = FALSE
        /\ crashes' = crashes + 1
        /\ UNCHANGED <<now, lock, sleepFile, early, forgotten, raced, promoted, masked, failures>>
    BY <1>1 DEF Crash, history
  <2>2. MemoryOK'
    BY <2>1, NothingType DEF MemoryOK
  <2>3. SleepOK' /\ LockOK' /\ PickedOK'
    BY <2>1, NothingType DEF SleepOK, LockOK, PickedOK
  <2>4. now' \in Nat /\ crashes' \in Nat /\ failures' \in Nat
    BY <2>1
  <2>5. up' \in BOOLEAN /\ seen' \in BOOLEAN
    BY <2>1, Zenon
  <2>6. HistoryOK'
    BY <2>1
  <2> QED
    BY <2>2, <2>3, <2>4, <2>5, <2>6
<1>2. CASE Boot
  <2>1. sleep' \in SleepStates /\ sleepFile' = sleep'
    BY <1>2, PromotedType DEF Boot, SleepOK
  <2>2. rules' \in AllRules
    <3>1. lock.rules \in AllRules /\ rules' = [id \in Ids |-> RestoredRule(lock.rules[id])]
      BY <1>2 DEF Boot, LockOK, Locks
    <3>2. \A r \in RuleRecords, k \in Int : [r EXCEPT !.triggered = k] \in RuleRecords
      BY DEF RuleRecords
    <3>3. Never \in Int
      BY DEF Never
    <3>4. [NoRule EXCEPT !.triggered = Never] = NoRule
      <4>1. NoRule \in [on : BOOLEAN, shape : {NoShape}, skip : {Never}, triggered : {Never}]
        BY DEF NoRule
      <4>2. \A S, N : \A r \in [on : BOOLEAN, shape : S, skip : N, triggered : {Never}] :
              [r EXCEPT !.triggered = Never] = r
        OBVIOUS
      <4> QED
        BY <4>1, <4>2
    <3>5. \A r \in RuleRecords \cup {NoRule} : RestoredRule(r) \in RuleRecords \cup {NoRule}
      BY <3>2, <3>3, <3>4 DEF RestoredRule
    <3> QED
      BY <3>1, <3>5 DEF AllRules
  <2>3. session' \in Sessions
    BY <1>2, NothingType DEF Boot, LockOK, Locks
  <2>4. MemoryOK'
    BY <1>2, <2>2, <2>3 DEF Boot, MemoryOK, LockOK, Locks
  <2>5. LockOK' /\ failures' \in Nat
    BY <1>2, <2>4, SaveType DEF Boot, LockOK
  <2>6. HistoryOK'
    <3>1. lock.session.kind = "sleep" => lock.session.occ \in Int
      BY DEF LockOK, Locks, Sessions, NoSession
    <3>2. raced' = raced /\ masked' = masked /\ promoted' = (promoted \/ PendingDue(sleepFile))
      BY <1>2 DEF Boot
    <3>3. promoted' \in BOOLEAN
      BY <3>2
    <3>4. \/ early' = early /\ forgotten' = forgotten
          \/ /\ lock.session.kind = "sleep"
             /\ early' = early \cup {lock.session.occ}
             /\ forgotten' = forgotten \cup {lock.session.occ}
      BY <1>2 DEF Boot
    <3> QED
      BY <3>1, <3>2, <3>3, <3>4
  <2> QED
    BY <1>2, <2>1, <2>4, <2>5, <2>6 DEF Boot, SleepOK, PickedOK
<1> QED
  BY <1>1, <1>2

LEMMA TickType == ASSUME Parts, Tick \/ UNCHANGED vars PROVE Parts'
<1>1. /\ up' = up /\ seen' \in {seen, FALSE} /\ now' \in {now, now + 1}
      /\ UNCHANGED <<session, plans, rules, sleep, lock, sleepFile, picked, early, forgotten,
                     raced, promoted, masked, crashes, failures>>
  BY DEF Tick, vars, history
<1>2. ClockOK'
  <2>1. now' \in Nat
    BY <1>1 DEF Parts, ClockOK
  <2>2. up' \in BOOLEAN /\ seen' \in BOOLEAN
    BY <1>1, Zenon DEF Parts, ClockOK
  <2> QED
    BY <2>1, <2>2 DEF ClockOK
<1>3. MemoryOK' /\ SleepOK' /\ LockOK' /\ PickedOK'
  BY <1>1 DEF Parts, MemoryOK, SleepOK, LockOK, PickedOK
<1>4. HistoryOK' /\ CountsOK'
  BY <1>1 DEF Parts, HistoryOK, CountsOK
<1> QED
  BY <1>2, <1>3, <1>4 DEF Parts

LEMMA TypeStep == ASSUME TypeOK, [Next]_vars PROVE TypeOK'
<1>1. Parts
  BY TypeParts
<1>2. Tick \/ UNCHANGED vars => Parts'
  BY <1>1, TickType
<1>3. Command => Parts'
  BY <1>1, CommandType
<1>4. Watch \/ StartPicked => Parts'
  BY <1>1, WatchType, StartPickedType
<1>5. Expire \/ Crash \/ Boot => Parts'
  BY <1>1, ExpireType, DownAndUpType
<1>6. Parts'
  BY <1>2, <1>3, <1>4, <1>5 DEF Next
<1> QED
  BY <1>6
  DEF TypeOK, Parts, ClockOK, MemoryOK, SleepOK, LockOK, PickedOK, HistoryOK, CountsOK,
      AllRules, Locks

LEMMA TypeInit == Init => TypeOK
<1> SUFFICES ASSUME Init PROVE Parts
  BY TypeParts
<1>1. MemoryOK /\ LockOK /\ SleepOK /\ PickedOK
  BY NothingType DEF Init, MemoryOK, LockOK, Locks, SleepOK, PickedOK
<1> QED
  BY <1>1, ConstantsAssumption DEF Init, Parts, ClockOK, HistoryOK, CountsOK

\* Every variable of the schedules keeps its type.
THEOREM TypeCorrect == Spec => []TypeOK
BY TypeInit, TypeStep, PTL DEF Spec

-----------------------------------------------------------------------------
(* Sleep that was stopped *)

\* There were not both a crash and a write that failed.
Clean == failures = 0 \/ crashes = 0

\* The occurrence was not stopped early, or not before the daemon went down.
Fresh(occ) == occ \notin early \/ occ \in forgotten

\* What makes StaysStopped inductive: memory knows what was stopped, and unless a write has
\* failed so does the file; nothing of it is picked or waits in session.lock.
DownIsEmpty == ~up => crashes > 0 /\ picked = Nothing
FileIsSleep == up /\ failures = 0 => sleepFile = sleep
MemoryKnows == up /\ Clean => early \subseteq sleep.stopped \cup forgotten
FileKnows == failures = 0 => early \subseteq sleepFile.stopped \cup forgotten
PickedIsFresh == Clean /\ picked.by = "sleep" => Fresh(picked.occ)
LockIsFresh == failures = 0 /\ lock.session.kind = "sleep" => Fresh(lock.session.occ)
SessionIsFresh == Clean /\ session.kind = "sleep" => Fresh(session.occ)

StopInv == /\ TypeOK /\ DownIsEmpty /\ FileIsSleep /\ MemoryKnows /\ FileKnows
           /\ PickedIsFresh /\ LockIsFresh /\ SessionIsFresh

\* Sleep is neither stopped early nor started.
NoStop ==
  /\ UNCHANGED <<up, picked, early, forgotten, crashes>>
  /\ \/ UNCHANGED <<sleep, sleepFile>>
     \/ sleepFile' = sleep' /\ sleep'.stopped = sleep.stopped
  /\ session'.kind = "sleep" => session.kind = "sleep" /\ session'.occ = session.occ
  /\ \/ Save
     \/ lock' = Snapshot /\ UNCHANGED failures
     \/ UNCHANGED <<lock, failures>>

LEMMA CommandStopsNothing == ASSUME session \in Sessions, Command PROVE NoStop
<1>1. ASSUME NEW c \in Configs, SaveSleep(c) PROVE NoStop
  <2>1. UNCHANGED <<up, picked, early, forgotten, crashes, session, lock, failures>>
    BY <1>1 DEF SaveSleep
  <2>2. sleepFile' = sleep'
    BY <1>1 DEF SaveSleep
  <2>3. sleep'.stopped = sleep.stopped
    BY <1>1 DEF SaveSleep, NoSleep
  <2> QED
    BY <2>1, <2>2, <2>3 DEF NoStop
<1>2. ASSUME NEW ahead \in 1..Ahead, NEW len \in Lengths, Schedule(now + ahead, len)
      PROVE  NoStop
  BY <1>2 DEF Schedule, history, NoStop
<1>3. ASSUME NEW plan \in plans, Cancel(plan)
      PROVE  NoStop
  <2>1. UNCHANGED <<up, picked, early, forgotten, crashes, sleep, sleepFile, session>>
    BY <1>3 DEF Cancel, history
  <2>2. Save
    BY <1>3 DEF Cancel
  <2> QED
    BY <2>1, <2>2 DEF NoStop, Save
<1>4. ASSUME NEW id \in Ids, NEW shape \in Shapes, AddRule(id, shape)
      PROVE  NoStop
  <2>1. UNCHANGED <<up, picked, early, forgotten, crashes, sleep, sleepFile, session>>
    BY <1>4 DEF AddRule, history
  <2>2. Save
    BY <1>4 DEF AddRule
  <2> QED
    BY <2>1, <2>2 DEF NoStop, Save
<1>5. ASSUME NEW id \in Ids, RemoveRule(id)
      PROVE  NoStop
  <2>1. UNCHANGED <<up, picked, early, forgotten, crashes, sleep, sleepFile, session>>
    BY <1>5 DEF RemoveRule, history
  <2>2. Save
    BY <1>5 DEF RemoveRule
  <2> QED
    BY <2>1, <2>2 DEF NoStop, Save
<1>6. ASSUME NEW id \in Ids,
             NEW new \in Edits(rules[id]), UpdateRule(id, new)
      PROVE  NoStop
  <2>1. UNCHANGED <<up, picked, early, forgotten, crashes, sleep, sleepFile, session>>
    BY <1>6 DEF UpdateRule, history
  <2>2. Save
    BY <1>6 DEF UpdateRule
  <2> QED
    BY <2>1, <2>2 DEF NoStop, Save
<1>7. ASSUME NEW len \in Lengths, StartNow(len) \/ Merge(len) PROVE NoStop
  <2>1. /\ UNCHANGED <<up, picked, early, forgotten, crashes, sleep, sleepFile>>
        /\ lock' = Snapshot /\ UNCHANGED failures
    BY <1>7 DEF StartNow, Merge, history
  <2>2. session'.kind # "sleep"
    <3>1. CASE StartNow(len)
      BY <3>1 DEF StartNow, Regular
    <3>2. CASE Merge(len)
      <4>1. session.kind = "regular" /\ session' = [session EXCEPT !.end = now + len, !.by = "hand"]
        BY <3>2 DEF Merge
      <4> QED
        BY <4>1 DEF Sessions, NoSession
    <3> QED
      BY <1>7, <3>1, <3>2
  <2> QED
    BY <2>1, <2>2 DEF NoStop
<1>8. ASSUME RequestStop PROVE NoStop
  <2>1. /\ UNCHANGED <<up, picked, early, forgotten, crashes, sleep, sleepFile>>
        /\ lock' = Snapshot /\ UNCHANGED failures
    BY <1>8 DEF RequestStop, history
  <2>2. session' = [session EXCEPT !.unlock = now + UnlockDelay]
    BY <1>8 DEF RequestStop
  <2>3. session'.kind = session.kind /\ session'.occ = session.occ
    BY <2>2 DEF Sessions, NoSession
  <2> QED
    BY <2>1, <2>3 DEF NoStop
<1> QED
  BY <1>1, <1>2, <1>3, <1>4, <1>5, <1>6, <1>7, <1>8 DEF Command

LEMMA CommandStop == ASSUME StopInv, TypeOK', Command PROVE StopInv'
<1>1. NoStop
  BY CommandStopsNothing DEF StopInv, TypeOK
<1>2. failures' >= failures /\ failures \in Nat /\ failures' \in Nat /\ crashes' = crashes
  BY <1>1 DEF NoStop, StopInv, TypeOK, Save, Fail
<1>3. Clean' => Clean
  BY <1>2 DEF Clean
<1>4. DownIsEmpty' /\ FileIsSleep'
  BY <1>1, <1>2 DEF NoStop, StopInv, DownIsEmpty, FileIsSleep
<1>5. sleep'.stopped = sleep.stopped
  BY <1>1 DEF NoStop
<1>6. MemoryKnows'
  BY <1>1, <1>3, <1>5 DEF NoStop, StopInv, MemoryKnows
<1>7. FileKnows'
  <2>1. SUFFICES ASSUME failures' = 0 PROVE FileKnows'
    BY DEF FileKnows
  <2>2. failures = 0
    BY <1>2, <2>1
  <2>3. up => sleepFile.stopped = sleep.stopped
    BY <2>2 DEF StopInv, FileIsSleep
  <2>4. up
    BY DEF Command, SaveSleep, Schedule, Cancel, AddRule, RemoveRule, UpdateRule, StartNow, Merge,
           RequestStop
  <2>5. sleepFile'.stopped = sleepFile.stopped
    BY <1>1, <2>3, <2>4 DEF NoStop
  <2> QED
    BY <1>1, <2>2, <2>5 DEF NoStop, StopInv, FileKnows
<1>8. PickedIsFresh' /\ SessionIsFresh'
  BY <1>1, <1>3 DEF NoStop, StopInv, PickedIsFresh, SessionIsFresh, Fresh
<1>9. LockIsFresh'
  <2>1. SUFFICES ASSUME failures' = 0 PROVE LockIsFresh'
    BY DEF LockIsFresh
  <2>2. failures = 0 /\ Clean'
    BY <1>2, <2>1 DEF Clean
  <2>3. CASE lock' = Snapshot
    BY <1>8, <2>2, <2>3 DEF Snapshot, LockIsFresh, SessionIsFresh
  <2>4. CASE lock' = lock
    BY <1>1, <2>2, <2>4 DEF NoStop, StopInv, LockIsFresh, Fresh
  <2> QED
    BY <1>1, <2>3, <2>4 DEF NoStop, Save
<1> QED
  BY <1>4, <1>6, <1>7, <1>8, <1>9 DEF StopInv

\* The lock file is the snapshot or what it was.
LockKept == \/ lock' = Snapshot /\ UNCHANGED failures
            \/ lock' = lock /\ failures' >= failures

\* What the watchdog picks was not stopped early.
LEMMA PickIsFresh ==
  ASSUME TypeOK, picked = Nothing, UNCHANGED session,
         PickSleep(sleep') \/ PickRule(sleep') \/ PickPlan(sleep') \/ PickNothing(sleep')
  PROVE  LockKept /\ (picked'.by = "sleep" => picked'.occ \notin sleep'.stopped)
<1>1. Save => LockKept
  BY DEF Save, Fail, LockKept, TypeOK
<1>2. UNCHANGED <<lock, failures>> => LockKept
  BY DEF LockKept, TypeOK
<1>3. LockKept
  BY <1>1, <1>2 DEF PickSleep, PickRule, PickPlan, PickNothing
<1>4. CASE PickSleep(sleep')
  <2>1. PICK occ \in SleepDue(sleep') :
          picked' = [by |-> "sleep", len |-> SleepLen(sleep'.config),
                     end |-> occ + SleepLen(sleep'.config), occ |-> occ]
    BY <1>4 DEF PickSleep
  <2>2. picked'.occ = occ /\ occ \notin sleep'.stopped
    BY <2>1 DEF SleepDue
  <2> QED
    BY <1>3, <2>2
<1>5. CASE PickRule(sleep') \/ PickPlan(sleep') \/ PickNothing(sleep')
  <2>1. picked'.by # "sleep"
    <3>1. CASE PickRule(sleep')
      BY <3>1 DEF PickRule, Nothing
    <3>2. CASE PickPlan(sleep')
      BY <3>2 DEF PickPlan, Nothing
    <3>3. CASE PickNothing(sleep')
      BY <3>3 DEF PickNothing, Nothing
    <3> QED
      BY <1>5, <3>1, <3>2, <3>3
  <2> QED
    BY <1>3, <2>1
<1> QED
  BY <1>4, <1>5

LEMMA WatchStop == ASSUME StopInv, TypeOK', Watch PROVE StopInv'
<1>1. /\ up /\ picked = Nothing
      /\ UNCHANGED <<now, up, session, early, forgotten, raced, masked, crashes>>
  BY DEF Watch
<1>2. failures \in Nat /\ failures' \in Nat
  BY DEF StopInv, TypeOK
<1>3. CASE /\ sleep' = Promoted(sleep)
           /\ sleepFile' = IF PendingDue(sleep) THEN sleep' ELSE sleepFile
           /\ promoted' = (promoted \/ PendingDue(sleep))
           /\ PickSleep(sleep') \/ PickRule(sleep') \/ PickPlan(sleep') \/ PickNothing(sleep')
  <2>1. LockKept /\ (picked'.by = "sleep" => picked'.occ \notin sleep'.stopped)
    BY <1>1, <1>3, PickIsFresh DEF StopInv
  <2>2. (failures' = 0 => failures = 0) /\ (Clean' => Clean)
    BY <1>1, <1>2, <2>1 DEF LockKept, Clean
  <2>3. sleep'.stopped = sleep.stopped
    BY <1>3, PromotedType DEF StopInv, TypeOK
  <2>4. DownIsEmpty' /\ FileIsSleep'
    <3>1. DownIsEmpty'
      BY <1>1 DEF DownIsEmpty
    <3>2. ~PendingDue(sleep) => sleep' = sleep /\ sleepFile' = sleepFile
      BY <1>3 DEF Promoted
    <3>3. PendingDue(sleep) => sleepFile' = sleep'
      BY <1>3
    <3> QED
      BY <1>1, <2>2, <3>1, <3>2, <3>3 DEF StopInv, FileIsSleep
  <2>5. MemoryKnows'
    BY <1>1, <2>2, <2>3 DEF StopInv, MemoryKnows
  <2>6. FileKnows'
    BY <1>1, <2>2, <2>3, <2>4, <2>5 DEF FileKnows, MemoryKnows, FileIsSleep, Clean
  <2>7. PickedIsFresh'
    BY <1>1, <2>1, <2>5 DEF PickedIsFresh, MemoryKnows, Fresh
  <2>8. SessionIsFresh'
    BY <1>1, <2>2 DEF StopInv, SessionIsFresh, Fresh
  <2>9. LockIsFresh'
    <3>1. SUFFICES ASSUME failures' = 0 PROVE LockIsFresh'
      BY DEF LockIsFresh
    <3>2. failures = 0 /\ Clean'
      BY <2>2, <3>1 DEF Clean
    <3>3. CASE lock' = Snapshot
      BY <2>8, <3>2, <3>3 DEF Snapshot, LockIsFresh, SessionIsFresh
    <3>4. CASE lock' = lock
      BY <1>1, <3>2, <3>4 DEF StopInv, LockIsFresh, Fresh
    <3> QED
      BY <2>1, <3>3, <3>4 DEF LockKept
  <2> QED
    BY <2>4, <2>5, <2>6, <2>7, <2>8, <2>9 DEF StopInv
<1>4. CASE /\ PendingDue(sleep) /\ Fail
           /\ UNCHANGED <<sleep, sleepFile, promoted, plans, rules, lock, picked, seen>>
  <2>1. failures' # 0 /\ (Clean' => Clean)
    BY <1>1, <1>2, <1>4 DEF Fail, Clean
  <2>2. DownIsEmpty' /\ FileIsSleep' /\ FileKnows' /\ LockIsFresh'
    BY <1>1, <2>1 DEF DownIsEmpty, FileIsSleep, FileKnows, LockIsFresh
  <2>3. MemoryKnows' /\ PickedIsFresh' /\ SessionIsFresh'
    BY <1>1, <1>4, <2>1 DEF StopInv, MemoryKnows, PickedIsFresh, SessionIsFresh, Fresh
  <2> QED
    BY <2>2, <2>3 DEF StopInv
<1> QED
  BY <1>3, <1>4 DEF Watch

\* What is started was picked.
LEMMA StartPickedStop == ASSUME StopInv, TypeOK', StartPicked PROVE StopInv'
<1>1. /\ up /\ picked' = Nothing
      /\ UNCHANGED <<up, sleep, sleepFile, early, forgotten, crashes>>
  BY DEF StartPicked, history
<1>2. failures \in Nat /\ failures' \in Nat
  BY DEF StopInv, TypeOK
<1>3. LockKept
  BY <1>2 DEF StartPicked, LockKept, Fail
<1>4. (failures' = 0 => failures = 0) /\ (Clean' => Clean)
  BY <1>1, <1>2, <1>3 DEF LockKept, Clean
<1>5. DownIsEmpty' /\ FileIsSleep' /\ FileKnows' /\ MemoryKnows'
  BY <1>1, <1>4 DEF StopInv, DownIsEmpty, FileIsSleep, FileKnows, MemoryKnows
<1>6. PickedIsFresh'
  BY <1>1 DEF PickedIsFresh, Nothing
<1>7. SessionIsFresh'
  <2>1. CASE session' = session
    BY <1>1, <1>4, <2>1 DEF StopInv, SessionIsFresh, Fresh
  <2>2. CASE picked.by = "sleep" /\ session'.occ = picked.occ
    BY <1>1, <1>4, <2>2 DEF StopInv, SessionIsFresh, PickedIsFresh, Fresh
  <2>3. CASE session'.kind # "sleep"
    BY <2>3 DEF SessionIsFresh
  <2>4. \/ session' = session
        \/ session' = IF picked.by = "sleep"
                      THEN [kind |-> "sleep", by |-> "sleep", end |-> picked.end,
                            occ |-> picked.occ, unlock |-> Never]
                      ELSE Regular(picked.by, picked.len)
    BY DEF StartPicked
  <2> QED
    BY <2>1, <2>2, <2>3, <2>4 DEF Regular
<1>8. LockIsFresh'
  <2>1. SUFFICES ASSUME failures' = 0 PROVE LockIsFresh'
    BY DEF LockIsFresh
  <2>2. failures = 0 /\ Clean'
    BY <1>4, <2>1 DEF Clean
  <2>3. CASE lock' = Snapshot
    BY <1>7, <2>2, <2>3 DEF Snapshot, LockIsFresh, SessionIsFresh
  <2>4. CASE lock' = lock
    BY <1>1, <2>2, <2>4 DEF StopInv, LockIsFresh, Fresh
  <2> QED
    BY <1>3, <2>3, <2>4 DEF LockKept
<1> QED
  BY <1>5, <1>6, <1>7, <1>8 DEF StopInv

\* A session that is stopped early leaves its occurrence behind.
LEMMA ExpireStop == ASSUME StopInv, TypeOK', Expire PROVE StopInv'
<1>1. /\ up /\ picked = Nothing /\ session' = NoSession
      /\ UNCHANGED <<up, picked, forgotten, crashes>>
      /\ early' = IF StoppedEarly THEN early \cup {session.occ} ELSE early
  BY DEF Expire, Ended
<1>2. failures \in Nat /\ failures' \in Nat
  BY DEF StopInv, TypeOK
<1>3. SleptOut.stopped = IF StoppedEarly THEN sleep.stopped \cup {session.occ} ELSE sleep.stopped
  <2>1. sleep \in SleepStates
    BY DEF StopInv, TypeOK
  <2>2. CASE StoppedEarly
    BY <2>1, <2>2 DEF SleptOut, SleepStates
  <2>3. CASE ~StoppedEarly
    BY <2>1, <2>3, PromotedType DEF SleptOut
  <2> QED
    BY <2>2, <2>3
<1>4. PickedIsFresh' /\ SessionIsFresh' /\ DownIsEmpty'
  BY <1>1 DEF PickedIsFresh, SessionIsFresh, DownIsEmpty, NoSession, Nothing
<1>5. CASE sleep' = SleptOut /\ sleepFile' = SleepSaved(SleptOut) /\ Save
  <2>1. failures' >= failures
    BY <1>2, <1>5 DEF Save, Fail
  <2>2. (failures' = 0 => failures = 0) /\ (Clean' => Clean)
    BY <1>1, <1>2, <2>1 DEF Clean
  <2>3. FileIsSleep'
    BY <1>1, <1>5, <2>2 DEF StopInv, FileIsSleep, SleepSaved
  <2>4. MemoryKnows'
    BY <1>1, <1>3, <1>5, <2>2 DEF StopInv, MemoryKnows
  <2>5. FileKnows'
    BY <1>1, <2>3, <2>4 DEF FileKnows, FileIsSleep, MemoryKnows, Clean
  <2>6. LockIsFresh'
    <3>1. SUFFICES ASSUME failures' = 0 PROVE LockIsFresh'
      BY DEF LockIsFresh
    <3>2. lock'.session = NoSession
      BY <1>1, <1>2, <1>5, <3>1 DEF Save, Fail, Snapshot
    <3> QED
      BY <3>2 DEF LockIsFresh, NoSession
  <2> QED
    BY <1>4, <2>3, <2>4, <2>5, <2>6 DEF StopInv
<1>6. CASE /\ SleptOut # sleep /\ Fail /\ UNCHANGED sleepFile
           /\ IF StoppedEarly THEN sleep' = SleptOut /\ lock' = Snapshot
                              ELSE UNCHANGED <<sleep, lock>>
  <2>1. failures' # 0 /\ (Clean' => Clean)
    BY <1>1, <1>2, <1>6 DEF Fail, Clean
  <2>2. FileIsSleep' /\ FileKnows' /\ LockIsFresh'
    BY <2>1 DEF FileIsSleep, FileKnows, LockIsFresh
  <2>3. MemoryKnows'
    BY <1>1, <1>3, <1>6, <2>1 DEF StopInv, MemoryKnows
  <2> QED
    BY <1>4, <2>2, <2>3 DEF StopInv
<1> QED
  BY <1>5, <1>6 DEF Expire

LEMMA CrashStop == ASSUME StopInv, TypeOK', Crash PROVE StopInv'
<1>1. /\ ~up' /\ picked' = Nothing /\ session' = NoSession /\ crashes' = crashes + 1
      /\ UNCHANGED <<lock, sleepFile, early, forgotten, failures>>
  BY DEF Crash, history
<1>2. crashes' > 0 /\ (Clean' => failures = 0)
  BY <1>1 DEF StopInv, TypeOK, Clean
<1>3. DownIsEmpty' /\ FileIsSleep' /\ MemoryKnows' /\ PickedIsFresh' /\ SessionIsFresh'
  BY <1>1, <1>2
  DEF DownIsEmpty, FileIsSleep, MemoryKnows, PickedIsFresh, SessionIsFresh, NoSession, Nothing
<1>4. FileKnows' /\ LockIsFresh'
  BY <1>1 DEF StopInv, FileKnows, LockIsFresh, Fresh
<1> QED
  BY <1>3, <1>4 DEF StopInv

\* A restart reads what the files know.
LEMMA BootStop == ASSUME StopInv, TypeOK', Boot PROVE StopInv'
<1>1. /\ ~up /\ up' /\ picked = Nothing /\ crashes > 0
      /\ sleep' = Promoted(sleepFile) /\ sleepFile' = sleep' /\ UNCHANGED <<picked, crashes>>
  BY DEF Boot, StopInv, DownIsEmpty
<1>2. failures \in Nat /\ failures' \in Nat
  BY DEF StopInv, TypeOK
<1>3. \/ early' = early /\ forgotten' = forgotten
      \/ /\ early' = early \cup {lock.session.occ}
         /\ forgotten' = forgotten \cup {lock.session.occ}
  BY DEF Boot
<1>4. LockKept
  <2>1. Save \/ UNCHANGED <<lock, failures>>
    BY DEF Boot
  <2> QED
    BY <1>2, <2>1 DEF Save, Fail, LockKept
<1>5. (failures' = 0 => failures = 0) /\ (Clean' => failures' = 0)
  BY <1>1, <1>2, <1>4 DEF LockKept, Clean
<1>6. sleepFile'.stopped = sleepFile.stopped /\ sleep'.stopped = sleepFile.stopped
  BY <1>1, PromotedType DEF StopInv, TypeOK
<1>7. FileKnows' /\ MemoryKnows'
  BY <1>3, <1>5, <1>6 DEF StopInv, FileKnows, MemoryKnows
<1>8. DownIsEmpty' /\ FileIsSleep' /\ PickedIsFresh'
  BY <1>1 DEF DownIsEmpty, FileIsSleep, PickedIsFresh, Nothing
<1>9. SessionIsFresh'
  <2>1. session' = NoSession \/ session' = lock.session
    BY DEF Boot
  <2> QED
    BY <1>3, <1>5, <2>1 DEF StopInv, SessionIsFresh, LockIsFresh, Fresh, NoSession
<1>10. LockIsFresh'
  <2>1. SUFFICES ASSUME failures' = 0 PROVE LockIsFresh'
    BY DEF LockIsFresh
  <2>2. failures = 0 /\ Clean'
    BY <1>5, <2>1 DEF Clean
  <2>3. CASE lock' = Snapshot
    BY <1>9, <2>2, <2>3 DEF Snapshot, LockIsFresh, SessionIsFresh
  <2>4. CASE lock' = lock
    BY <1>3, <2>2, <2>4 DEF StopInv, LockIsFresh, Fresh
  <2> QED
    BY <1>4, <2>3, <2>4 DEF LockKept
<1> QED
  BY <1>7, <1>8, <1>9, <1>10 DEF StopInv

LEMMA StopStep == ASSUME StopInv, [Next]_vars PROVE StopInv'
<1>1. TypeOK'
  BY TypeStep DEF StopInv
<1>2. Command \/ Watch \/ StartPicked => StopInv'
  BY <1>1, CommandStop, WatchStop, StartPickedStop
<1>3. Expire \/ Crash \/ Boot => StopInv'
  BY <1>1, ExpireStop, CrashStop, BootStop
<1>4. Tick \/ UNCHANGED vars => StopInv'
  <2>1. SUFFICES ASSUME Tick \/ UNCHANGED vars PROVE StopInv'
    OBVIOUS
  <2>2. UNCHANGED <<up, session, sleep, lock, sleepFile, picked, early, forgotten, crashes,
                    failures>>
    BY <2>1 DEF Tick, vars, history
  <2> QED
    BY <1>1, <2>2
    DEF StopInv, DownIsEmpty, FileIsSleep, MemoryKnows, FileKnows, PickedIsFresh, LockIsFresh,
        SessionIsFresh, Clean, Fresh
<1> QED
  BY <1>2, <1>3, <1>4 DEF Next

LEMMA StopInit == Init => StopInv
<1> SUFFICES ASSUME Init PROVE StopInv
  OBVIOUS
<1>1. TypeOK
  BY TypeInit
<1>2. up /\ early = {} /\ sleep = NoSleep /\ sleepFile = NoSleep
  BY DEF Init
<1> QED
  BY <1>1, <1>2
  DEF StopInv, DownIsEmpty, FileIsSleep, MemoryKnows, FileKnows, PickedIsFresh, LockIsFresh,
      SessionIsFresh, Fresh

LEMMA StopInvariant == Spec => []StopInv
BY StopInit, StopStep, PTL DEF Spec

\* An occurrence of sleep that was stopped early does not start again.
THEOREM StoppedStays == Spec => []StaysStopped
<1>1. StopInv => StaysStopped
  <2>1. TypeOK => failures \in Nat /\ crashes \in Nat
    BY DEF TypeOK
  <2> QED
    BY <2>1 DEF StopInv, SessionIsFresh, Clean, Fresh, StaysStopped
<1> QED
  BY <1>1, StopInvariant, PTL

-----------------------------------------------------------------------------
(* Plans and runs that are about to start *)

\* Plans end after they start, in memory and in the lock file.
Later(set) == \A p \in set : p.start < p.end /\ p.end = p.start + p.len
PlansEnd == TypeOK /\ Later(plans) /\ Later(lock.plans)

LEMMA SavePlans ==
  ASSUME Later(plans'), Later(lock.plans), Save \/ lock' = Snapshot \/ UNCHANGED lock
  PROVE  Later(lock'.plans)
<1>1. lock' = Snapshot \/ lock' = lock
  BY DEF Save
<1>2. Snapshot.plans = plans'
  BY DEF Snapshot
<1> QED
  BY <1>1, <1>2

LEMMA PlansEndStep == ASSUME PlansEnd, [Next]_vars PROVE PlansEnd'
<1>1. TypeOK'
  BY TypeStep DEF PlansEnd
<1>2. CASE Boot
  <2>1. plans' \subseteq lock.plans /\ (Save \/ UNCHANGED lock)
    BY <1>2 DEF Boot
  <2> QED
    BY <1>1, <2>1, SavePlans DEF PlansEnd, Later
<1>3. ASSUME plans' \subseteq plans, Save \/ lock' = Snapshot \/ UNCHANGED lock PROVE PlansEnd'
  BY <1>1, <1>3, SavePlans DEF PlansEnd, Later
<1>4. ASSUME NEW ahead \in 1..Ahead, NEW len \in Lengths, Schedule(now + ahead, len)
      PROVE  PlansEnd'
  <2>1. now + ahead < now + ahead + len
    <3>1. len \in 1..Day /\ Day \in Nat /\ Ahead \in Nat
      BY ConstantsAssumption
    <3> QED
      BY <3>1 DEF PlansEnd, TypeOK
  <2>2. plans' = plans \cup {[start |-> now + ahead, end |-> now + ahead + len, len |-> len]}
    BY <1>4 DEF Schedule
  <2>3. Later(plans') /\ lock' = Snapshot
    BY <1>4, <2>1, <2>2 DEF PlansEnd, Later, Schedule
  <2> QED
    BY <1>1, <2>3, SavePlans DEF PlansEnd
<1>5. CASE Command
  <2>1. ASSUME NEW c \in Configs, SaveSleep(c) PROVE PlansEnd'
    BY <1>3, <2>1 DEF SaveSleep
  <2>2. ASSUME NEW plan \in plans, Cancel(plan) PROVE PlansEnd'
    BY <1>3, <2>2 DEF Cancel
  <2>3. ASSUME NEW id \in Ids, NEW shape \in Shapes, AddRule(id, shape) PROVE PlansEnd'
    BY <1>3, <2>3 DEF AddRule
  <2>4. ASSUME NEW id \in Ids, RemoveRule(id) PROVE PlansEnd'
    BY <1>3, <2>4 DEF RemoveRule
  <2>5. ASSUME NEW id \in Ids,
               NEW new \in Edits(rules[id]), UpdateRule(id, new)
        PROVE  PlansEnd'
    BY <1>3, <2>5 DEF UpdateRule
  <2>6. ASSUME NEW len \in Lengths, StartNow(len) \/ Merge(len) PROVE PlansEnd'
    BY <1>3, <2>6 DEF StartNow, Merge
  <2>7. ASSUME RequestStop PROVE PlansEnd'
    BY <1>3, <2>7 DEF RequestStop
  <2> QED
    BY <1>4, <1>5, <2>1, <2>2, <2>3, <2>4, <2>5, <2>6, <2>7 DEF Command
<1>6. CASE Watch
  <2>1. plans' \subseteq plans
    BY <1>6 DEF Watch, PickSleep, PickRule, PickPlan, PickNothing, Current
  <2>2. Save \/ UNCHANGED lock
    BY <1>6 DEF Watch, PickSleep, PickRule, PickPlan, PickNothing
  <2> QED
    BY <1>3, <2>1, <2>2
<1>7. CASE StartPicked \/ Expire
  BY <1>3, <1>7 DEF StartPicked, Expire
<1>8. CASE Crash \/ Tick \/ UNCHANGED vars
  BY <1>3, <1>8 DEF Crash, Tick, vars
<1> QED
  BY <1>2, <1>5, <1>6, <1>7, <1>8 DEF Next

LEMMA PlansEndInvariant == Spec => []PlansEnd
<1>1. Init => PlansEnd
  <2> SUFFICES ASSUME Init PROVE PlansEnd
    OBVIOUS
  <2>1. TypeOK /\ plans = {} /\ lock.plans = {}
    BY TypeInit DEF Init
  <2> QED
    BY <2>1 DEF PlansEnd, Later
<1> QED
  BY <1>1, PlansEndStep, PTL DEF Spec

\* Plans and runs of rules that start soon and are kept by a step.
PlansKept ==
  \A p \in plans : p.start \in (now + 1)..(now + Lockout) => p \in plans'
SoonRuns(r) ==
  {d \in Runs(r, Date(now)..(Date(now) + 1)) : RunStart(r, d) \in (now + 1)..(now + Lockout)}
RuleKept(id) ==
  rules[id].on /\ rules'[id].shape = rules[id].shape =>
    \A d \in SoonRuns(rules[id]) : rules'[id].on /\ rules'[id].skip # d

\* A run that is to come is on a date.
LEMMA SoonIsReal ==
  ASSUME TypeOK, NEW id \in Ids, rules[id].on, NEW d \in SoonRuns(rules[id])
  PROVE  /\ d \in Int /\ d # Never /\ d # rules[id].skip
         /\ \E t \in NextRuns(rules[id]) : t - now <= Lockout
<1>1. /\ d \in Date(now)..(Date(now) + 1) /\ d % 7 \in rules[id].shape.days
      /\ d # rules[id].skip /\ RunStart(rules[id], d) \in (now + 1)..(now + Lockout)
  BY DEF SoonRuns, Runs
<1>2. rules[id] \in RuleRecords /\ now \in Nat
  <2>1. ~NoRule.on
    BY DEF NoRule
  <2> QED
    BY <2>1 DEF TypeOK
<1>3. rules[id].shape.at \in 0..(Day - 1) /\ Day \in Nat \ {0} /\ Lockout \in Nat
  BY <1>2, ConstantsAssumption DEF RuleRecords
<1>4. Date(now) \in Int
  BY <1>2, DateType
<1>5. d \in Int
  BY <1>1, <1>4
<1>6. d # -1
  <2>1. SUFFICES ASSUME d = -1 PROVE FALSE
    OBVIOUS
  <2>2. RunStart(rules[id], d) = (-1) * Day + rules[id].shape.at
    BY <2>1 DEF RunStart
  <2>3. RunStart(rules[id], d) > now
    BY <1>1, <1>2, <1>3
  <2> QED
    BY <1>2, <1>3, <2>2, <2>3
<1>7. RunStart(rules[id], d) \in NextRuns(rules[id]) /\ RunStart(rules[id], d) - now <= Lockout
  <2>1. d \in Date(now)..(Date(now) + 7)
    BY <1>1, <1>4
  <2>2. d \in Runs(rules[id], Date(now)..(Date(now) + 7))
    BY <1>1, <2>1 DEF Runs
  <2>3. RunStart(rules[id], d) \in Int /\ RunStart(rules[id], d) > now
        /\ RunStart(rules[id], d) - now <= Lockout
    BY <1>1, <1>2, <1>3
  <2> QED
    BY <2>2, <2>3 DEF NextRuns
<1> QED
  BY <1>1, <1>5, <1>6, <1>7 DEF Never

\* Rules that only lose what they were to skip keep their runs.
LEMMA RunsKept ==
  ASSUME TypeOK, NEW id \in Ids,
         rules[id].on => rules'[id].on /\ rules'[id].skip \in {rules[id].skip, Never}
  PROVE  RuleKept(id)
BY SoonIsReal DEF RuleKept

\* No command takes them back.
LEMMA UpdateKeeps ==
  ASSUME TypeOK, NEW id \in Ids, NEW new, UpdateRule(id, new)
  PROVE  RuleKept(id)
<1>1. rules' = [rules EXCEPT ![id] = new] /\ ~PauseLocked(rules[id], new)
  BY DEF UpdateRule
<1>2. rules'[id] = new
  BY <1>1 DEF TypeOK
<1>3. ASSUME rules[id].on, NEW d \in SoonRuns(rules[id])
      PROVE  new.on /\ new.skip # d
  <2>1. d # Never /\ d # rules[id].skip /\ \E t \in NextRuns(rules[id]) : t - now <= Lockout
    BY <1>3, SoonIsReal
  <2>2. new.on /\ (new.skip = Never \/ new.skip = rules[id].skip)
    BY <1>1, <1>3, <2>1 DEF PauseLocked
  <2> QED
    BY <2>1, <2>2
<1> QED
  BY <1>2, <1>3 DEF RuleKept

\* A step that touches neither.
LEMMA SameKept ==
  ASSUME TypeOK, UNCHANGED <<plans, rules>>
  PROVE  PlansKept /\ \A id \in Ids : RuleKept(id)
<1>1. \A id \in Ids : RuleKept(id)
  BY RunsKept
<1> QED
  BY <1>1 DEF PlansKept

LEMMA CommandLocked ==
  ASSUME PlansEnd, Command
  PROVE  PlansKept /\ \A id \in Ids : RuleKept(id)
<1> DEFINE Kept == PlansKept /\ \A id \in Ids : RuleKept(id)
<1>1. TypeOK
  BY DEF PlansEnd
<1>2. ASSUME NEW c \in Configs, SaveSleep(c) PROVE Kept
  BY <1>1, <1>2, SameKept DEF SaveSleep
<1>3. ASSUME NEW ahead \in 1..Ahead, NEW len \in Lengths, Schedule(now + ahead, len) PROVE Kept
  <2>1. plans \subseteq plans' /\ rules' = rules
    BY <1>3 DEF Schedule
  <2>2. \A id \in Ids : RuleKept(id)
    BY <1>1, <2>1, RunsKept
  <2> QED
    BY <2>1, <2>2 DEF PlansKept
<1>4. ASSUME NEW plan \in plans, Cancel(plan) PROVE Kept
  <2>1. plan.start - now > Lockout /\ plans' = plans \ {plan} /\ rules' = rules
    BY <1>4 DEF Cancel
  <2>2. plan.start \in Nat /\ now \in Nat /\ Lockout \in Nat
    BY <1>1, ConstantsAssumption DEF TypeOK, Plans
  <2>3. plan.start \notin (now + 1)..(now + Lockout)
    BY <2>1, <2>2
  <2>4. \A id \in Ids : RuleKept(id)
    BY <1>1, <2>1, RunsKept
  <2> QED
    BY <2>1, <2>3, <2>4 DEF PlansKept
<1>5. ASSUME NEW id \in Ids, NEW shape \in Shapes, AddRule(id, shape) PROVE Kept
  <2>1. /\ rules[id] = NoRule /\ plans' = plans
        /\ rules' = [rules EXCEPT ![id] = [on |-> TRUE, shape |-> shape, skip |-> Never,
                                            triggered |-> Never]]
    BY <1>5 DEF AddRule
  <2>2. ASSUME NEW other \in Ids PROVE RuleKept(other)
    <3>1. CASE other = id
      BY <2>1, <3>1 DEF RuleKept, NoRule
    <3>2. CASE other # id
      BY <1>1, <2>1, <3>2, RunsKept DEF TypeOK
    <3> QED
      BY <3>1, <3>2
  <2> QED
    BY <2>1, <2>2 DEF PlansKept
<1>6. ASSUME NEW id \in Ids, RemoveRule(id) PROVE Kept
  <2>1. rules' = [rules EXCEPT ![id] = NoRule] /\ plans' = plans
    BY <1>6 DEF RemoveRule
  <2>2. ASSUME NEW other \in Ids PROVE RuleKept(other)
    <3>1. CASE other = id
      <4>1. rules'[other].shape.days = {}
        BY <1>1, <2>1, <3>1 DEF TypeOK, NoRule, NoShape
      <4> QED
        BY <4>1 DEF RuleKept, SoonRuns, Runs
    <3>2. CASE other # id
      BY <1>1, <2>1, <3>2, RunsKept DEF TypeOK
    <3> QED
      BY <3>1, <3>2
  <2> QED
    BY <2>1, <2>2 DEF PlansKept
<1>7. ASSUME NEW id \in Ids,
             NEW new \in Edits(rules[id]), UpdateRule(id, new)
      PROVE  Kept
  <2>1. rules' = [rules EXCEPT ![id] = new] /\ plans' = plans
    BY <1>7 DEF UpdateRule
  <2>2. ASSUME NEW other \in Ids PROVE RuleKept(other)
    <3>1. CASE other = id
      BY <1>1, <1>7, <3>1, UpdateKeeps
    <3>2. CASE other # id
      BY <1>1, <2>1, <3>2, RunsKept DEF TypeOK
    <3> QED
      BY <3>1, <3>2
  <2> QED
    BY <2>1, <2>2 DEF PlansKept
<1>8. ASSUME NEW len \in Lengths, StartNow(len) \/ Merge(len) PROVE Kept
  BY <1>1, <1>8, SameKept DEF StartNow, Merge
<1>9. ASSUME RequestStop PROVE Kept
  BY <1>1, <1>9, SameKept DEF RequestStop
<1> HIDE DEF Kept
<1>10. Kept
  BY <1>2, <1>3, <1>4, <1>5, <1>6, <1>7, <1>8, <1>9 DEF Command
<1> QED
  BY <1>10 DEF Kept

\* The watchdog only drops plans whose time has come, and puts runs behind it.
LEMMA WatchLocked ==
  ASSUME PlansEnd, Watch
  PROVE  PlansKept /\ \A id \in Ids : RuleKept(id)
<1>1. TypeOK
  BY DEF PlansEnd
<1>2. now \in Nat /\ Lockout \in Nat /\ \A p \in plans : p.start \in Nat /\ p.end \in Nat
  BY <1>1, ConstantsAssumption DEF TypeOK, Plans
<1>3. Current \subseteq plans /\ \A p \in plans \ Current : p.start <= now
  <2>1. \A p \in plans : p.start < p.end
    BY DEF PlansEnd, Later
  <2> QED
    BY <1>2, <2>1 DEF Current
<1>4. PlansKept
  <2>1. \A p \in plans \ plans' : p.start <= now
    <3>1. \/ plans' = plans \/ plans' = Current
          \/ \E p \in PlansDue : plans' = Current \ {p}
      BY DEF Watch, PickSleep, PickRule, PickPlan, PickNothing
    <3>2. \A p \in PlansDue : p.start <= now
      BY DEF PlansDue
    <3> QED
      BY <1>3, <3>1, <3>2
  <2> QED
    BY <1>2, <2>1 DEF PlansKept
<1>5. ASSUME NEW id \in Ids PROVE RuleKept(id)
  <2>1. rules[id] \in RuleRecords \cup {NoRule}
    BY <1>1 DEF TypeOK
  <2>2. \A r \in RuleRecords \cup {NoRule} : \A k, t :
          /\ [r EXCEPT !.skip = k, !.triggered = t].on = r.on
          /\ [r EXCEPT !.skip = k, !.triggered = t].skip = k
          /\ [r EXCEPT !.triggered = t].on = r.on
          /\ [r EXCEPT !.triggered = t].skip = r.skip
    BY DEF RuleRecords, NoRule
  <2>3. SkipDone[id].on = rules[id].on /\ SkipDone[id].skip \in {rules[id].skip, Never}
    BY <2>1, <2>2 DEF SkipDone
  <2>4. SkipDone \in AllRules
    BY <1>1, SkipDoneType DEF TypeOK, AllRules
  <2>5. \/ rules' = rules \/ rules' = SkipDone
        \/ \E due \in RulesDue : rules' = [SkipDone EXCEPT ![due].triggered = Date(now)]
    BY DEF Watch, PickSleep, PickRule, PickPlan, PickNothing
  <2>6. rules'[id].on = rules[id].on /\ rules'[id].skip \in {rules[id].skip, Never}
    <3>1. CASE rules' = rules \/ rules' = SkipDone
      BY <2>3, <3>1
    <3>2. ASSUME NEW due \in RulesDue, rules' = [SkipDone EXCEPT ![due].triggered = Date(now)]
          PROVE  rules'[id].on = SkipDone[id].on /\ rules'[id].skip = SkipDone[id].skip
      <4>1. rules' = [SkipDone EXCEPT ![due] = [SkipDone[due] EXCEPT !.triggered = Date(now)]]
        BY <3>2, <2>4 DEF RulesDue, AllRules
      <4>2. SkipDone[id] \in RuleRecords \cup {NoRule}
        BY <2>4 DEF AllRules
      <4>3. CASE due = id
        BY <2>2, <2>4, <4>1, <4>2, <4>3 DEF AllRules
      <4>4. CASE due # id
        BY <2>4, <4>1, <4>4 DEF AllRules
      <4> QED
        BY <4>3, <4>4
    <3> QED
      BY <2>3, <2>5, <3>1, <3>2
  <2> QED
    BY <1>1, <2>6, RunsKept
<1> QED
  BY <1>4, <1>5

\* From Lockout before its start on, no command takes back a plan or pauses or skips a run.
THEOREM NoneTakenBack == Spec => LockedIn
<1>1. ASSUME PlansEnd, [Next]_vars, up, up', now' = now
      PROVE  PlansKept /\ \A id \in Ids : RuleKept(id)
  <2>1. ~Boot /\ ~Crash
    BY <1>1 DEF Boot, Crash
  <2>2. TypeOK
    BY <1>1 DEF PlansEnd
  <2>3. CASE StartPicked \/ Expire \/ Tick \/ UNCHANGED vars
    BY <2>2, <2>3, SameKept DEF StartPicked, Expire, Tick, vars
  <2>4. CASE Command
    BY <1>1, <2>4, CommandLocked
  <2>5. CASE Watch
    BY <1>1, <2>5, WatchLocked
  <2> QED
    BY <1>1, <2>1, <2>3, <2>4, <2>5 DEF Next
<1> DEFINE Locked ==
  up /\ up' /\ now' = now =>
        /\ \A p \in plans : p.start \in (now + 1)..(now + Lockout) => p \in plans'
        /\ \A id \in Ids :
             rules[id].on /\ rules'[id].shape = rules[id].shape =>
               \A d \in Runs(rules[id], Date(now)..(Date(now) + 1)) :
                 RunStart(rules[id], d) \in (now + 1)..(now + Lockout) =>
                   rules'[id].on /\ rules'[id].skip # d
<1>2. ASSUME PlansEnd, [Next]_vars PROVE [Locked]_vars
  BY <1>1, <1>2 DEF PlansKept, RuleKept, SoonRuns
<1> QED
  BY <1>2, PlansEndInvariant, PTL DEF Spec, LockedIn

-----------------------------------------------------------------------------
(* Two files that a restart compares *)

\* Multiples of the day keep a day's distance, and a time of day does not change the date.
LEMMA DayOrder ==
  ASSUME NEW a \in Int, NEW b \in Int, a < b
  PROVE  a * Day + Day <= b * Day
<1>0. Day \in Nat
  BY ConstantsAssumption
<1>1. a * Day \in Int /\ b * Day \in Int /\ (b - a - 1) * Day \in Nat
  BY <1>0
<1>2. b * Day = a * Day + Day + (b - a - 1) * Day
  BY <1>0
<1> QED
  BY <1>0, <1>1, <1>2

LEMMA DateOf ==
  ASSUME NEW d \in Int, NEW at \in 0..(Day - 1)
  PROVE  Date(d * Day + at) = d
BY ConstantsAssumption DEF Date

LEMMA ConfigType ==
  ASSUME NEW c \in Configs
  PROVE  c.sleep \in 0..(Day - 1) /\ SleepLen(c) \in Nat /\ SleepLen(c) <= Day
BY SleepLenType, ConstantsAssumption DEF Configs, NoConfig

\* The date of an occurrence is that of its start.
LEMMA OccurrenceDate ==
  ASSUME NEW c \in Configs, NEW dates, dates \subseteq Int, NEW occ \in SleepStarts(c, dates)
  PROVE  /\ Date(occ) \in Int /\ occ = Date(occ) * Day + c.sleep
         /\ occ \in SleepStarts(c, {Date(occ)})
<1>1. PICK d \in dates : occ = d * Day + c.sleep /\ d % 7 \in c.days /\ c.enabled
  BY DEF SleepStarts
<1>2. Date(occ) = d
  BY <1>1, ConfigType, DateOf
<1> QED
  BY <1>1, <1>2 DEF SleepStarts

\* s, picked or on, is an occurrence of the sleep schedule f, whose queued edit waits for
\* its end.
Backed(s, f) ==
  /\ s.occ \in SleepStarts(f.config, {Date(s.occ)})
  /\ s.end = s.occ + SleepLen(f.config)
  /\ f.queued => s.end <= f.applyAt

\* A queued edit that is not due waits for the end of some night.
Whole(f) ==
  f.queued /\ now < f.applyAt =>
    \E d \in Int : f.applyAt = d * Day + f.config.sleep + SleepLen(f.config)

(* What makes Restorable inductive: what a running daemon knows is on disk, and     *)
(* the session of sleep, on or about to start, follows the sleep schedule of the    *)
(* other file.                                                                      *)
Told ==
  /\ up => sleepFile = sleep /\ lock.session = session
  /\ Whole(sleepFile)
  /\ picked.by = "sleep" => Backed(picked, sleepFile)
  /\ lock.session.kind = "sleep" /\ now < lock.session.end => Backed(lock.session, sleepFile)
RestoreInv == StopInv /\ (~raced /\ failures = 0 => Told)

\* A night that is on ends no later than any edit that waits for the end of one.
LEMMA NightsAlign ==
  ASSUME now \in Nat, NEW f \in SleepStates, Whole(f), ~PendingDue(f),
         NEW occ \in SleepNow(f.config)
  PROVE  /\ occ \in SleepStarts(f.config, {Date(occ)})
         /\ f.queued => occ + SleepLen(f.config) <= f.applyAt
<1> DEFINE c == f.config
           d == Date(occ)
           at == c.sleep
           len == SleepLen(c)
<1>1. c \in Configs /\ f.applyAt \in Nat /\ at \in 0..(Day - 1) /\ len \in Nat /\ len <= Day
  BY ConfigType DEF SleepStates
<1>2. {Date(now), Date(now) - 1} \subseteq Int
  BY DateType
<1>3. occ \in SleepStarts(c, {Date(now), Date(now) - 1}) /\ occ <= now
  BY DEF SleepNow
<1>4. d \in Int /\ occ = d * Day + at /\ occ \in SleepStarts(c, {d})
  BY <1>1, <1>2, <1>3, OccurrenceDate
<1>5. ASSUME f.queued PROVE occ + len <= f.applyAt
  <2>1. now < f.applyAt
    BY <1>1, <1>5 DEF PendingDue
  <2>2. PICK e \in Int : f.applyAt = e * Day + at + len
    BY <1>5, <2>1 DEF Whole
  <2> HIDE DEF d, at, len
  <2>3. ~(e < d)
    <3> SUFFICES ASSUME e < d PROVE FALSE
      OBVIOUS
    <3>1. e * Day + Day <= d * Day
      BY <1>4, DayOrder
    <3>2. Day \in Nat /\ e * Day \in Int /\ d * Day \in Int
      BY <1>4, ConstantsAssumption
    <3> QED
      BY <1>1, <1>3, <1>4, <2>1, <2>2, <3>1, <3>2
  <2>4. d * Day <= e * Day
    <3>1. Day \in Nat /\ e * Day \in Int /\ d * Day \in Int
      BY <1>4, ConstantsAssumption
    <3>2. CASE d = e
      BY <3>1, <3>2
    <3>3. CASE d < e
      BY <1>4, <3>1, <3>3, DayOrder
    <3> QED
      BY <1>4, <2>3, <3>2, <3>3
  <2>5. e * Day \in Int /\ d * Day \in Int
    BY <1>4, ConstantsAssumption
  <2> QED
    BY <1>1, <1>4, <2>2, <2>4, <2>5
<1> QED
  BY <1>4, <1>5

\* A queued edit that takes effect finds no session that is backed.
LEMMA PromotedBacked ==
  ASSUME now \in Nat, NEW f \in SleepStates, NEW s \in Sessions, Backed(s, f),
         s.kind = "sleep", now < s.end
  PROVE  Promoted(f) = f
<1>1. s.end \in Nat /\ f.applyAt \in Nat
  BY DEF Sessions, SleepStates, NoSession
<1>2. ~PendingDue(f)
  BY <1>1 DEF PendingDue, Backed
<1> QED
  BY <1>2 DEF Promoted

LEMMA PromotedWhole ==
  ASSUME NEW f \in SleepStates, Whole(f)
  PROVE  Whole(Promoted(f))
<1>1. CASE PendingDue(f)
  BY <1>1 DEF Promoted, NoSleep, Whole
<1>2. CASE ~PendingDue(f)
  BY <1>2 DEF Promoted
<1> QED
  BY <1>1, <1>2

\* With no write failed, the lock file has the session.
LEMMA SavedSession ==
  ASSUME failures \in Nat, failures' = 0, Save
  PROVE  lock'.session = session' /\ failures = 0
BY DEF Save, Fail, Snapshot

\* What was raced or failed remains so.
LEMMA FaultsRemain ==
  ASSUME TypeOK, [Next]_vars, ~raced', failures' = 0
  PROVE  ~raced /\ failures = 0
<1>1. \/ raced' = raced
      \/ raced' = (raced \/ picked.by = "sleep")
  BY DEF Next, Command, SaveSleep, Schedule, Cancel, AddRule, RemoveRule, UpdateRule, StartNow,
         Merge, RequestStop, Watch, StartPicked, Expire, Crash, Boot, Tick, vars, history
<1>2. ~raced
  BY <1>1, Zenon
<1>3. failures \in Nat
  BY DEF TypeOK
<1>4. Save \/ Fail => failures = 0
  BY <1>3 DEF Save, Fail
<1>5. Command => failures = 0
  BY <1>4 DEF Command, SaveSleep, Schedule, Cancel, AddRule, RemoveRule, UpdateRule, StartNow,
              Merge, RequestStop
<1>6. Watch \/ StartPicked \/ Expire => failures = 0
  BY <1>4 DEF Watch, PickSleep, PickRule, PickPlan, PickNothing, StartPicked, Expire
<1>7. Crash \/ Boot \/ Tick \/ UNCHANGED vars => failures = 0
  BY <1>4 DEF Crash, Boot, Tick, vars
<1> QED
  BY <1>2, <1>5, <1>6, <1>7 DEF Next

\* The steps that leave sleep alone: the session that is saved sleeps on, or none does.
LEMMA AwakeTold ==
  ASSUME TypeOK, Told, up, UNCHANGED <<now, up, sleep, sleepFile, picked>>,
         lock'.session = session',
         \/ session'.kind # "sleep"
         \/ session'.kind = session.kind /\ session'.occ = session.occ /\ session'.end = session.end
  PROVE  Told'
<1>1. up' => sleepFile' = sleep' /\ lock'.session = session'
  BY DEF Told
<1>2. Whole(sleepFile)' /\ (picked'.by = "sleep" => Backed(picked', sleepFile'))
  BY DEF Told, Whole, Backed
<1>3. lock'.session.kind = "sleep" /\ now' < lock'.session.end => Backed(lock'.session, sleepFile')
  BY DEF Told, Backed
<1> QED
  BY <1>1, <1>2, <1>3 DEF Told

LEMMA SaveSleepTold ==
  ASSUME TypeOK, Told, ~raced', NEW c \in Configs, SaveSleep(c)
  PROVE  Told'
<1>1. /\ up /\ UNCHANGED <<now, up, session, lock, picked>> /\ sleepFile' = sleep'
      /\ sleepFile = sleep /\ lock.session = session
  BY DEF SaveSleep, Told
<1>2. picked'.by # "sleep"
  <2>1. ~(raced \/ picked.by = "sleep")
    BY Zenon DEF SaveSleep
  <2> QED
    BY <1>1, <2>1, Zenon
<1>3. CASE session.kind = "sleep"
  <2>1. sleep' = [sleep EXCEPT !.queued = TRUE, !.pending = c, !.applyAt = session.end]
    BY <1>3 DEF SaveSleep
  <2>2. sleep'.config = sleep.config /\ sleep'.applyAt = session.end
    BY <2>1 DEF TypeOK, SleepStates
  <2>3. now < session.end => Backed(session, sleepFile)
    BY <1>1, <1>3 DEF Told
  <2>4. Whole(sleepFile)'
    <3> SUFFICES ASSUME now < session.end
                 PROVE  \E d \in Int : session.end = d * Day + sleep.config.sleep
                                                     + SleepLen(sleep.config)
      BY <1>1, <2>2 DEF Whole
    <3>1. /\ session.occ \in SleepStarts(sleep.config, {Date(session.occ)})
          /\ session.end = session.occ + SleepLen(sleep.config)
      BY <1>1, <2>3 DEF Backed
    <3>2. session.occ \in Int
      BY <1>3 DEF TypeOK, Sessions, NoSession
    <3>3. Date(session.occ) \in Int /\ session.occ = Date(session.occ) * Day + sleep.config.sleep
      BY <3>1, <3>2, DateType, OccurrenceDate DEF TypeOK, SleepStates
    <3> QED
      BY <3>1, <3>3
  <2>5. now < session.end => Backed(session, sleepFile')
    BY <1>1, <1>3, <2>2, <2>3 DEF Backed, TypeOK, Sessions, NoSession
  <2> QED
    BY <1>1, <1>2, <2>4, <2>5 DEF Told
<1>4. CASE session.kind # "sleep"
  <2>1. ~sleep'.queued
    BY <1>4 DEF SaveSleep, NoSleep
  <2>2. Whole(sleepFile)'
    BY <1>1, <2>1 DEF Whole
  <2> QED
    BY <1>1, <1>2, <1>4, <2>2 DEF Told
<1> QED
  BY <1>3, <1>4

LEMMA CommandTold ==
  ASSUME TypeOK, Told, ~raced', failures' = 0, Command
  PROVE  Told'
<1>0. failures \in Nat /\ up
  BY DEF TypeOK, Command, SaveSleep, Schedule, Cancel, AddRule, RemoveRule, UpdateRule, StartNow,
         Merge, RequestStop
<1>1. ASSUME NEW c \in Configs, SaveSleep(c) PROVE Told'
  BY <1>1, SaveSleepTold
<1>2. ASSUME UNCHANGED <<now, up, sleep, sleepFile, picked, session>>, Save \/ lock' = Snapshot
      PROVE  Told'
  <2>1. lock'.session = session'
    BY <1>0, <1>2, SavedSession DEF Snapshot
  <2> QED
    BY <1>0, <1>2, <2>1, AwakeTold
<1>3. ASSUME NEW ahead \in 1..Ahead, NEW len \in Lengths, Schedule(now + ahead, len)
      PROVE  Told'
  BY <1>2, <1>3 DEF Schedule
<1>4. ASSUME NEW plan \in plans, Cancel(plan) PROVE Told'
  BY <1>2, <1>4 DEF Cancel
<1>5. ASSUME NEW id \in Ids, NEW shape \in Shapes, AddRule(id, shape) PROVE Told'
  BY <1>2, <1>5 DEF AddRule
<1>6. ASSUME NEW id \in Ids, RemoveRule(id) PROVE Told'
  BY <1>2, <1>6 DEF RemoveRule
<1>7. ASSUME NEW id \in Ids,
             NEW new \in Edits(rules[id]), UpdateRule(id, new)
      PROVE  Told'
  BY <1>2, <1>7 DEF UpdateRule
<1>8. ASSUME NEW len \in Lengths, StartNow(len) \/ Merge(len) PROVE Told'
  <2>1. UNCHANGED <<now, up, sleep, sleepFile, picked>> /\ lock'.session = session'
    BY <1>8 DEF StartNow, Merge, Snapshot
  <2>2. CASE StartNow(len)
    <3>1. session'.kind = "regular"
      BY <2>2 DEF StartNow, Regular
    <3> QED
      BY <1>0, <2>1, <3>1, AwakeTold
  <2>3. CASE Merge(len)
    <3>1. session \in Sessions /\ session.kind = "regular"
          /\ session' = [session EXCEPT !.end = now + len, !.by = "hand"]
      BY <2>3 DEF Merge, TypeOK
    <3>2. session'.kind = session.kind
      BY <3>1 DEF Sessions, NoSession
    <3> QED
      BY <1>0, <2>1, <3>1, <3>2, AwakeTold
  <2> QED
    BY <1>8, <2>2, <2>3
<1>9. ASSUME RequestStop PROVE Told'
  <2>1. UNCHANGED <<now, up, sleep, sleepFile, picked>> /\ lock'.session = session'
    BY <1>9 DEF RequestStop, Snapshot
  <2>2. session'.kind = session.kind /\ session'.occ = session.occ /\ session'.end = session.end
    BY <1>9 DEF RequestStop, TypeOK, Sessions, NoSession
  <2> QED
    BY <1>0, <2>1, <2>2, AwakeTold
<1> QED
  BY <1>1, <1>3, <1>4, <1>5, <1>6, <1>7, <1>8, <1>9 DEF Command

\* The watchdog picks by the schedule on disk, and applies no edit that the session in
\* the lock file waits for.
LEMMA WatchTold ==
  ASSUME TypeOK, Told, failures' = 0, Watch
  PROVE  Told'
<1>1. /\ up /\ picked = Nothing /\ UNCHANGED <<now, up, session>>
      /\ sleepFile = sleep /\ lock.session = session
      /\ failures \in Nat /\ now \in Nat /\ sleep \in SleepStates /\ lock.session \in Sessions
  BY DEF Watch, Told, TypeOK
<1>2. /\ sleep' = Promoted(sleep)
      /\ sleepFile' = IF PendingDue(sleep) THEN sleep' ELSE sleepFile
      /\ PickSleep(sleep') \/ PickRule(sleep') \/ PickPlan(sleep') \/ PickNothing(sleep')
  BY <1>1 DEF Watch, Fail
<1>3. sleepFile' = sleep'
  BY <1>1, <1>2 DEF Promoted
<1>4. Whole(sleep)' /\ sleep' \in SleepStates
  <2>1. Whole(sleep) /\ Whole(Promoted(sleep)) /\ Promoted(sleep) \in SleepStates
    BY <1>1, PromotedWhole, PromotedType DEF Told
  <2> QED
    BY <1>1, <1>2, <2>1 DEF Whole
<1>5. lock'.session = session'
  <2>1. Save => lock'.session = session'
    BY <1>1, SavedSession
  <2> QED
    BY <1>1, <1>2, <2>1 DEF PickSleep, PickRule, PickPlan, PickNothing
<1>6. session.kind = "sleep" /\ now < session.end => Backed(session, sleep')
  BY <1>1, <1>2, PromotedBacked DEF Told
<1>7. picked'.by = "sleep" => Backed(picked', sleep')
  <2>1. CASE PickSleep(sleep')
    <3>1. PICK occ \in SleepDue(sleep') :
            picked' = [by |-> "sleep", len |-> SleepLen(sleep'.config),
                       end |-> occ + SleepLen(sleep'.config), occ |-> occ]
      BY <2>1 DEF PickSleep
    <3>2. occ \in SleepNow(sleep'.config)
      BY DEF SleepDue
    <3>3. ~PendingDue(sleep')
      BY <1>2 DEF Promoted, PendingDue, NoSleep
    <3>4. Whole(sleep')
      BY <1>1, <1>4 DEF Whole
    <3>5. /\ occ \in SleepStarts(sleep'.config, {Date(occ)})
          /\ sleep'.queued => occ + SleepLen(sleep'.config) <= sleep'.applyAt
      BY <1>1, <1>4, <3>2, <3>3, <3>4, NightsAlign
    <3> QED
      BY <3>1, <3>5 DEF Backed
  <2>2. CASE PickRule(sleep')
    BY <2>2 DEF PickRule, Nothing
  <2>3. CASE PickPlan(sleep')
    BY <2>3 DEF PickPlan, Nothing
  <2>4. CASE PickNothing(sleep')
    BY <1>1, <2>4 DEF PickNothing, Nothing
  <2> QED
    BY <1>2, <2>1, <2>2, <2>3, <2>4
<1>8. Whole(sleepFile)'
  BY <1>3, <1>4 DEF Whole
<1> QED
  BY <1>1, <1>3, <1>5, <1>6, <1>7, <1>8 DEF Told

\* What is started was picked.
LEMMA StartPickedTold ==
  ASSUME TypeOK, Told, failures' = 0, StartPicked
  PROVE  Told'
<1>1. /\ up /\ picked' = Nothing /\ UNCHANGED <<now, up, sleep, sleepFile>>
      /\ sleepFile = sleep /\ lock.session = session /\ failures \in Nat
  BY DEF StartPicked, Told, TypeOK
<1>2. picked'.by # "sleep" /\ Whole(sleepFile)'
  BY <1>1 DEF Nothing, Told, Whole
<1>3. CASE UNCHANGED <<session, lock>>
  BY <1>1, <1>2, <1>3 DEF Told, Backed
<1>4. CASE session' = Regular(picked.by, picked.len) /\ lock' = Snapshot
  <2>1. lock'.session = session' /\ session'.kind = "regular"
    BY <1>4 DEF Snapshot, Regular
  <2> QED
    BY <1>1, <1>2, <2>1 DEF Told
<1>5. CASE /\ picked.by = "sleep"
           /\ session' = [kind |-> "sleep", by |-> "sleep", end |-> picked.end,
                          occ |-> picked.occ, unlock |-> Never]
           /\ lock' = Snapshot
  <2>1. lock'.session = session' /\ session'.occ = picked.occ /\ session'.end = picked.end
    BY <1>5 DEF Snapshot
  <2>2. Backed(session', sleepFile')
    BY <1>1, <1>5, <2>1 DEF Told, Backed
  <2> QED
    BY <1>1, <1>2, <2>1, <2>2 DEF Told
<1> QED
  BY <1>1, <1>3, <1>4, <1>5 DEF StartPicked, Fail

\* A session that is over takes nothing of the sleep schedule with it but a due edit.
LEMMA ExpireTold ==
  ASSUME TypeOK, Told, failures' = 0, Expire
  PROVE  Told'
<1>1. /\ up /\ picked = Nothing /\ picked' = picked /\ UNCHANGED <<now, up>>
      /\ session' = NoSession /\ sleepFile = sleep /\ failures \in Nat /\ sleep \in SleepStates
  BY DEF Expire, Ended, Told, TypeOK
<1>2. sleep' = SleptOut /\ sleepFile' = SleepSaved(SleptOut) /\ Save
  BY <1>1 DEF Expire, Fail
<1>3. sleepFile' = sleep'
  BY <1>1, <1>2 DEF SleepSaved
<1>4. lock'.session = NoSession
  BY <1>1, <1>2, SavedSession
<1>5. Whole(SleptOut)
  <2>1. Whole(sleep)
    BY <1>1 DEF Told
  <2>2. CASE StoppedEarly
    <3>1. SleptOut = [sleep EXCEPT !.stopped = sleep.stopped \cup {session.occ}]
      BY <2>2 DEF SleptOut
    <3> QED
      BY <1>1, <2>1, <3>1 DEF Whole, SleepStates
  <2>3. CASE ~StoppedEarly
    BY <1>1, <2>1, <2>3, PromotedWhole DEF SleptOut
  <2> QED
    BY <2>2, <2>3
<1>6. Whole(sleepFile)'
  BY <1>1, <1>2, <1>3, <1>5 DEF Whole
<1> QED
  BY <1>1, <1>3, <1>4, <1>6 DEF Told, NoSession, Nothing

\* A restart applies no edit that the session it finds waits for.
LEMMA BootTold ==
  ASSUME StopInv, Told, failures' = 0, Boot
  PROVE  Told'
<1> DEFINE saved == lock.session
           over == saved.kind # "none" /\ (saved.end <= now \/ (saved.unlock # Never /\ saved.unlock <= now))
<1>1. /\ ~up /\ up' /\ picked = Nothing /\ picked' = Nothing /\ now' = now
      /\ sleep' = Promoted(sleepFile) /\ sleepFile' = sleep'
      /\ failures \in Nat /\ now \in Nat /\ sleepFile \in SleepStates /\ saved \in Sessions
  BY DEF Boot, StopInv, DownIsEmpty, TypeOK
<1>2. /\ session' = IF over THEN NoSession ELSE saved
      /\ IF over \/ (saved.kind = "none" /\ plans' # {}) THEN Save ELSE UNCHANGED <<lock, failures>>
  BY Zenon DEF Boot
<1>3. lock'.session = session'
  <2>1. Save => lock'.session = session'
    BY <1>1, SavedSession
  <2> HIDE DEF over
  <2> QED
    BY <1>2, <2>1
<1>4. Whole(sleepFile)'
  <2>1. Whole(Promoted(sleepFile))
    BY <1>1, PromotedWhole DEF Told
  <2> QED
    BY <1>1, <2>1 DEF Whole
<1>5. session'.kind = "sleep" /\ now < session'.end => Backed(session', sleepFile')
  <2> HIDE DEF over
  <2>1. CASE session' = NoSession
    BY <2>1 DEF NoSession
  <2>2. CASE session' = saved
    <3>1. saved.kind = "sleep" /\ now < saved.end => Backed(saved, sleepFile)
      BY DEF Told
    <3> QED
      BY <1>1, <2>2, <3>1, PromotedBacked
  <2> QED
    BY <1>2, <2>1, <2>2
<1>6. picked'.by # "sleep"
  BY <1>1 DEF Nothing
<1> QED
  BY <1>1, <1>3, <1>4, <1>5, <1>6 DEF Told

LEMMA OtherTold ==
  ASSUME TypeOK, Told, Crash \/ Tick \/ UNCHANGED vars
  PROVE  Told'
<1>1. CASE Crash
  <2>1. ~up' /\ picked' = Nothing /\ UNCHANGED <<now, lock, sleepFile>>
    BY <1>1 DEF Crash
  <2> QED
    BY <2>1 DEF Told, Whole, Backed, Nothing
<1>2. CASE Tick \/ UNCHANGED vars
  <2>1. UNCHANGED <<up, session, sleep, sleepFile, lock, picked>> /\ now' \in {now, now + 1}
    BY <1>2 DEF Tick, vars
  <2>2. now \in Nat /\ sleepFile.applyAt \in Nat /\ lock.session.end \in Nat
    BY DEF TypeOK, SleepStates, Sessions, NoSession
  <2>3. Whole(sleepFile)'
    BY <2>1, <2>2 DEF Told, Whole
  <2>4. now' < lock.session.end => now < lock.session.end
    BY <2>1, <2>2
  <2> QED
    BY <2>1, <2>3, <2>4 DEF Told, Backed
<1> QED
  BY <1>1, <1>2

LEMMA RestoreStep == ASSUME RestoreInv, [Next]_vars PROVE RestoreInv'
<1>1. StopInv /\ StopInv' /\ TypeOK
  BY StopStep DEF RestoreInv, StopInv
<1>2. ASSUME ~raced', failures' = 0 PROVE Told'
  <2>1. Told
    BY <1>1, <1>2, FaultsRemain DEF RestoreInv
  <2> QED
    BY <1>1, <1>2, <2>1, CommandTold, WatchTold, StartPickedTold, ExpireTold, BootTold, OtherTold
    DEF Next
<1> QED
  BY <1>1, <1>2 DEF RestoreInv

\* A night that is on survives a restart, whatever was edited during it, unless an edit
\* came between the watchdog's picking and starting it, or a write failed.
THEOREM NightsSurvive == Spec => []Restorable
<1>1. Init => RestoreInv
  <2> SUFFICES ASSUME Init PROVE RestoreInv
    OBVIOUS
  <2>1. Told
    BY DEF Init, Told, Whole, NoSleep, NoSession, Nothing
  <2> QED
    BY <2>1, StopInit DEF RestoreInv
<1>2. RestoreInv => Restorable
  <2> SUFFICES ASSUME RestoreInv, ~raced, failures = 0, lock.session.kind = "sleep",
                      now < lock.session.end
               PROVE  Acceptable(lock.session, IF PendingDue(sleepFile) THEN sleepFile.pending
                                               ELSE sleepFile.config)
    <3>1. TypeOK => failures \in Nat
      BY DEF TypeOK
    <3> QED
      BY <3>1 DEF Restorable, RestoreInv, StopInv
  <2>1. TypeOK /\ Told
    BY DEF RestoreInv, StopInv
  <2>2. now \in Nat /\ lock.session.end \in Nat /\ sleepFile.applyAt \in Nat
    BY <2>1 DEF TypeOK, SleepStates, Sessions, NoSession
  <2>3. Backed(lock.session, sleepFile)
    BY <2>1 DEF Told
  <2>4. ~PendingDue(sleepFile)
    BY <2>2, <2>3 DEF PendingDue, Backed
  <2> QED
    BY <2>3, <2>4 DEF Acceptable, Backed
<1> QED
  BY <1>1, <1>2, RestoreStep, PTL DEF Spec


-----------------------------------------------------------------------------
(* Dates of what overlaps *)

\* A date begins before all of its times and ends after them.
LEMMA DateSpan ==
  ASSUME NEW t \in Int
  PROVE  Date(t) \in Int /\ Date(t) * Day <= t /\ t < Date(t) * Day + Day
BY ConstantsAssumption DEF Date

\* What starts on a date and lasts a day at most is over before that of the day after the next.
LEMMA DatesNear ==
  ASSUME NEW d \in Int, NEW at \in 0..(Day - 1), NEW len \in 1..Day,
         NEW from \in Int, NEW to \in Int,
         Overlap(d * Day + at, d * Day + at + len, from, to)
  PROVE  d \in (Date(from) - 1)..Date(to)
<1>0. Day \in Nat \ {0} /\ d * Day \in Int
  BY ConstantsAssumption
<1>1. d * Day + at < to /\ from < d * Day + at + len
  BY DEF Overlap
<1> DEFINE first == Date(from)
           last == Date(to)
<1>2. /\ first \in Int /\ first * Day \in Int /\ first * Day <= from
      /\ last \in Int /\ last * Day \in Int /\ to < last * Day + Day
  BY <1>0, DateSpan
<1> HIDE DEF first, last
<1>3. ~(last < d)
  <2> SUFFICES ASSUME last < d PROVE FALSE
    OBVIOUS
  <2>1. last * Day + Day <= d * Day
    BY <1>2, DayOrder
  <2> QED
    BY <1>0, <1>1, <1>2, <2>1
<1>4. ~(d < first - 1)
  <2> SUFFICES ASSUME d < first - 1 PROVE FALSE
    OBVIOUS
  <2>1. d * Day + Day <= (d + 1) * Day /\ (d + 1) * Day + Day <= first * Day
    BY <1>2, DayOrder
  <2>2. (d + 1) * Day \in Int
    BY <1>0
  <2> QED
    BY <1>0, <1>1, <1>2, <2>1, <2>2
<1>5. d \in (first - 1)..last
  BY <1>2, <1>3, <1>4
<1> QED
  BY <1>5 DEF first, last

\* What meets is on the same date or on neighbouring ones.
LEMMA Neighbours ==
  ASSUME NEW d \in Int, NEW at \in 0..(Day - 1), NEW len \in 1..Day,
         NEW e \in Int, NEW start \in 0..(Day - 1), NEW for \in 1..Day,
         Overlap(d * Day + at, d * Day + at + len, e * Day + start, e * Day + start + for)
  PROVE  d \in (e - 1)..(e + 1)
<1> DEFINE from == e * Day + start
           to == e * Day + start + for
<1>0. Day \in Nat \ {0} /\ e * Day \in Int /\ d * Day \in Int
  BY ConstantsAssumption
<1>1. from \in Int /\ to \in Int /\ Date(from) = e
  <2>1. Date(e * Day + start) = e
    BY DateOf
  <2> QED
    BY <1>0, <2>1
<1>2. d \in (e - 1)..Date(to)
  BY <1>1, DatesNear
<1>3. Date(to) \in Int /\ Date(to) * Day \in Int /\ Date(to) * Day <= to
  BY <1>0, <1>1, DateSpan
<1>4. ~(e + 1 < d)
  <2> SUFFICES ASSUME e + 1 < d PROVE FALSE
    OBVIOUS
  <2>1. e * Day + Day <= (e + 1) * Day /\ (e + 1) * Day + Day <= d * Day
    BY DayOrder
  <2>2. (e + 1) * Day \in Int
    BY <1>0
  <2>3. d * Day + at < to
    BY DEF Overlap
  <2> QED
    BY <1>0, <2>1, <2>2, <2>3
<1> QED
  BY <1>1, <1>2, <1>3, <1>4

\* What meets on two dates meets as much days later.
LEMMA Moved ==
  ASSUME NEW d \in Int, NEW e \in Int, NEW k \in Int,
         NEW at \in Int, NEW len \in Int, NEW start \in Int, NEW for \in Int,
         Overlap(d * Day + at, d * Day + at + len, e * Day + start, e * Day + start + for)
  PROVE  Overlap((d + k) * Day + at, (d + k) * Day + at + len,
                 (e + k) * Day + start, (e + k) * Day + start + for)
<1>0. Day \in Int /\ d * Day \in Int /\ e * Day \in Int /\ k * Day \in Int
  BY ConstantsAssumption
<1>1. (d + k) * Day = d * Day + k * Day /\ (e + k) * Day = e * Day + k * Day
  BY <1>0
<1>2. d * Day + at < e * Day + start + for /\ e * Day + start < d * Day + at + len
  BY DEF Overlap
<1> QED
  BY <1>0, <1>1, <1>2 DEF Overlap

\* Of the dates that are weeks apart one is in each week.
LEMMA SomeWeek ==
  ASSUME NEW d \in Int, NEW first \in Int
  PROVE  \E k \in Int : /\ d + 7 * k \in first..(first + 6)
                        /\ \A e \in Int : (e + 7 * k) % 7 = e % 7
<1> DEFINE k == (first + 6 - d) \div 7
<1>1. k \in Int /\ d + 7 * k <= first + 6 /\ first <= d + 7 * k
  OBVIOUS
<1>2. \A e \in Int : (e + 7 * k) % 7 = e % 7
  <2> HIDE DEF k
  <2> QED
    BY <1>1
<1> QED
  BY <1>1, <1>2

-----------------------------------------------------------------------------
(* Nothing is booked twice: what is accepted *)

\* No two plans overlap.
Apart(ps) == \A p \in ps, q \in ps : p # q => ~Overlap(p.start, p.end, q.start, q.end)

\* The runs of a rule on all dates, those after t that are not skipped.
RunMeets(r, d, from, to) == Overlap(RunStart(r, d), RunEnd(r, d), from, to)
RunClear(t, r, ps) ==
  \A d \in Int : d % 7 \in r.shape.days /\ d # r.skip /\ RunStart(r, d) > t =>
    \A p \in ps : ~RunMeets(r, d, p.start, p.end)
RunsClear(t, rs, ps) == \A id \in Ids : rs[id].on => RunClear(t, rs[id], ps)

\* No two rules have runs that overlap, whatever they skip.
TwoApart(r, q) ==
  \A d \in Int, e \in Int : d % 7 \in r.shape.days /\ e % 7 \in q.shape.days =>
    ~RunMeets(r, d, RunStart(q, e), RunEnd(q, e))
RulesApart(rs) ==
  \A id \in Ids : \A other \in Ids \ {id} :
    rs[id].on /\ rs[other].on => TwoApart(rs[id], rs[other])

\* No plan, and no run of a rule, whatever it skips, falls into a night.
Bed(c, e) == e * Day + c.sleep
NightsClear(c, ps) ==
  c.enabled =>
    \A e \in Int : e % 7 \in c.days =>
      \A p \in ps : ~Overlap(Bed(c, e), Bed(c, e) + SleepLen(c), p.start, p.end)
RuleAwake(c, r) ==
  c.enabled =>
    \A e \in Int, d \in Int : e % 7 \in c.days /\ d % 7 \in r.shape.days =>
      ~RunMeets(r, d, Bed(c, e), Bed(c, e) + SleepLen(c))
RulesAwake(c, rs) == \A id \in Ids : rs[id].on => RuleAwake(c, rs[id])

\* Plans, rules and a sleep schedule of which nothing overlaps, apart from what a queued edit
\* or a skipped run let through.
Booked(t, ps, rs, c, edited, hidden) ==
  /\ Apart(ps) /\ RunsClear(t, rs, ps) /\ RulesApart(rs)
  /\ ~edited => NightsClear(c, ps)
  /\ ~edited /\ ~hidden => RulesAwake(c, rs)

LEMMA OnRule ==
  ASSUME NEW rs \in AllRules, NEW id \in Ids, rs[id].on
  PROVE  rs[id] \in RuleRecords
BY DEF AllRules, NoRule

LEMMA ShapeType ==
  ASSUME NEW r \in RuleRecords
  PROVE  /\ r.shape \in Shapes /\ r.shape.days \subseteq 0..6
         /\ r.shape.at \in 0..(Day - 1) /\ r.shape.len \in 1..Day
<1>1. r.shape \in Shapes
  BY DEF RuleRecords
<1> QED
  BY <1>1, ConstantsAssumption

LEMMA RunType ==
  ASSUME NEW r \in RuleRecords, NEW d \in Int
  PROVE  RunStart(r, d) \in Int /\ RunEnd(r, d) \in Int
<1>1. d * Day \in Int /\ r.shape.at \in Int /\ r.shape.len \in Int
  BY ShapeType, ConstantsAssumption
<1> QED
  BY <1>1 DEF RunStart, RunEnd

LEMMA BedType ==
  ASSUME NEW c \in Configs, NEW e \in Int
  PROVE  Bed(c, e) \in Int /\ Bed(c, e) + SleepLen(c) \in Int /\ SleepLen(c) \in 1..Day
<1>1. e * Day \in Int /\ c.sleep \in Int
  BY ConfigType, ConstantsAssumption
<1>2. SleepLen(c) \in 1..Day
  BY SleepLenType, ConstantsAssumption
<1> QED
  BY <1>1, <1>2, ConstantsAssumption DEF Bed

\* _recurring_overlaps_interval looks at all the dates that count.
LEMMA AllRunsSeen ==
  ASSUME NEW r \in RuleRecords, r.on, NEW from \in Int, NEW to \in Int,
         ~RuleConflicts(r, from, to),
         NEW d \in Int, d % 7 \in r.shape.days, d # r.skip
  PROVE  ~RunMeets(r, d, from, to)
<1> SUFFICES ASSUME RunMeets(r, d, from, to) PROVE FALSE
  OBVIOUS
<1>1. Overlap(d * Day + r.shape.at, d * Day + r.shape.at + r.shape.len, from, to)
  BY DEF RunMeets, RunStart, RunEnd
<1>2. d \in (Date(from) - 1)..Date(to)
  BY <1>1, ShapeType, DatesNear
<1> QED
  BY <1>2 DEF RunMeets, RuleConflicts, Runs

\* conflicts_interval looks at all the nights that count.
LEMMA AllNightsSeen ==
  ASSUME NEW c \in Configs, c.enabled, NEW from \in Int, NEW len \in 1..Day,
         ~SleepConflicts(c, from, from + len),
         NEW e \in Int, e % 7 \in c.days
  PROVE  ~Overlap(Bed(c, e), Bed(c, e) + SleepLen(c), from, from + len)
<1> DEFINE to == from + len
           first == Date(from)
           last == Date(to)
<1> SUFFICES ASSUME Overlap(Bed(c, e), Bed(c, e) + SleepLen(c), from, to) PROVE FALSE
  OBVIOUS
<1>0. Day \in Nat \ {0} /\ to \in Int
  BY ConstantsAssumption
<1>1. e \in (first - 1)..last
  BY <1>0, ConfigType, BedType, DatesNear DEF Bed
<1>2. /\ first \in Int /\ first * Day \in Int /\ from < first * Day + Day
      /\ last \in Int /\ last * Day \in Int /\ last * Day <= to
  BY <1>0, DateSpan
<1>3. ~(first + 1 < last)
  <2> SUFFICES ASSUME first + 1 < last PROVE FALSE
    OBVIOUS
  <2> HIDE DEF first, last
  <2>1. first * Day + Day <= (first + 1) * Day /\ (first + 1) * Day + Day <= last * Day
    BY <1>2, DayOrder
  <2>2. (first + 1) * Day \in Int
    BY <1>0, <1>2
  <2> QED
    BY <1>0, <1>2, <2>1, <2>2
<1>4. e \in (first - 1)..(first + 8)
  <2> HIDE DEF first, last
  <2> QED
    BY <1>1, <1>2, <1>3
<1>5. Bed(c, e) \in SleepStarts(c, (first - 1)..(first + 8))
  BY <1>4 DEF SleepStarts, Bed
<1> QED
  BY <1>5 DEF SleepConflicts

\* A rule that skips nothing and meets none of the coming nights meets none at all.
LEMMA WeekAwake ==
  ASSUME NEW r \in RuleRecords, r.on, r.skip = Never, NEW c \in Configs, now \in Nat,
         \A s \in SleepStarts(c, (Date(now) - 1)..(Date(now) + 8)) :
           ~RuleConflicts(r, s, s + SleepLen(c))
  PROVE  RuleAwake(c, r)
<1> SUFFICES ASSUME c.enabled, NEW e \in Int, NEW d \in Int,
                    e % 7 \in c.days, d % 7 \in r.shape.days,
                    RunMeets(r, d, Bed(c, e), Bed(c, e) + SleepLen(c))
             PROVE  FALSE
  BY DEF RuleAwake
<1> DEFINE first == Date(now) + 1
<1>1. first \in Int /\ first >= 1
  BY ConstantsAssumption DEF Date
<1>2. PICK k \in Int : /\ e + 7 * k \in first..(first + 6)
                       /\ \A f \in Int : (f + 7 * k) % 7 = f % 7
  BY <1>1, SomeWeek
<1> DEFINE night == e + 7 * k
           day == d + 7 * k
<1>3. Overlap(d * Day + r.shape.at, d * Day + r.shape.at + r.shape.len,
              e * Day + c.sleep, e * Day + c.sleep + SleepLen(c))
  BY DEF RunMeets, RunStart, RunEnd, Bed
<1>4. d \in (e - 1)..(e + 1)
  BY <1>3, ShapeType, ConfigType, BedType, Neighbours
<1>5. day \in Int /\ night \in Int /\ day >= 0 /\ night % 7 \in c.days /\ day % 7 \in r.shape.days
  <2>1. night % 7 = e % 7 /\ day % 7 = d % 7
    BY <1>2
  <2>2. e + 7 * k >= 1
    <3> HIDE DEF first
    <3> QED
      BY <1>1, <1>2
  <2>3. d + 7 * k >= 0
    BY <1>4, <2>2
  <2> QED
    BY <2>1, <2>3
<1>6. RunMeets(r, day, Bed(c, night), Bed(c, night) + SleepLen(c))
  <2>1. 7 * k \in Int /\ r.shape.at \in Int /\ r.shape.len \in Int /\ c.sleep \in Int
        /\ SleepLen(c) \in Int
    BY ShapeType, ConfigType
  <2>2. Overlap((d + 7 * k) * Day + r.shape.at, (d + 7 * k) * Day + r.shape.at + r.shape.len,
                (e + 7 * k) * Day + c.sleep, (e + 7 * k) * Day + c.sleep + SleepLen(c))
    BY <1>3, <2>1, Moved
  <2> QED
    BY <2>2 DEF RunMeets, RunStart, RunEnd, Bed
<1>7. Bed(c, night) \in SleepStarts(c, (Date(now) - 1)..(Date(now) + 8))
  <2>1. night \in (Date(now) - 1)..(Date(now) + 8)
    <3>1. Date(now) \in Int
      BY DateType
    <3> QED
      BY <1>2, <3>1
  <2> QED
    BY <1>5, <2>1 DEF SleepStarts, Bed
<1>8. ~RuleConflicts(r, Bed(c, night), Bed(c, night) + SleepLen(c))
  BY <1>7
<1>9. day # r.skip
  BY <1>5 DEF Never
<1> HIDE DEF day, night
<1> QED
  BY <1>5, <1>6, <1>8, <1>9, BedType, AllRunsSeen

\* _recurring_rules_overlap: two rules that do not meet within a week never do.
LEMMA WeekApart ==
  ASSUME NEW r \in RuleRecords, NEW q \in RuleRecords, q.on, ~RulesConflict(r, q)
  PROVE  TwoApart(r, q)
<1> SUFFICES ASSUME NEW d \in Int, NEW e \in Int, d % 7 \in r.shape.days,
                    e % 7 \in q.shape.days, RunMeets(r, d, RunStart(q, e), RunEnd(q, e))
             PROVE  FALSE
  BY DEF TwoApart
<1>1. PICK k \in Int : d + 7 * k \in 8..14 /\ \A f \in Int : (f + 7 * k) % 7 = f % 7
  <2>0. 8 \in Int
    OBVIOUS
  <2>1. \E k \in Int : d + 7 * k \in 8..(8 + 6) /\ \A f \in Int : (f + 7 * k) % 7 = f % 7
    BY <2>0, SomeWeek, Zenon
  <2> QED
    BY <2>1
<1> DEFINE day == d + 7 * k
           other == e + 7 * k
           free == [q EXCEPT !.skip = Never]
<1>2. Overlap(d * Day + r.shape.at, d * Day + r.shape.at + r.shape.len,
              e * Day + q.shape.at, e * Day + q.shape.at + q.shape.len)
  BY DEF RunMeets, RunStart, RunEnd
<1>3. d \in (e - 1)..(e + 1)
  BY <1>2, ShapeType, Neighbours
<1>4. /\ day \in Int /\ other \in Int /\ day \in 7..14 /\ other >= 0
      /\ day % 7 \in r.shape.days /\ other % 7 \in q.shape.days
  BY <1>1, <1>3
<1>5. Overlap(day * Day + r.shape.at, day * Day + r.shape.at + r.shape.len,
              other * Day + q.shape.at, other * Day + q.shape.at + q.shape.len)
  <2>1. /\ 7 * k \in Int /\ r.shape.at \in Int /\ r.shape.len \in Int
        /\ q.shape.at \in Int /\ q.shape.len \in Int
    BY ShapeType
  <2> QED
    BY <1>2, <2>1, Moved
<1>6. free \in RuleRecords /\ free.on /\ free.shape = q.shape /\ free.skip = Never
  BY DEF RuleRecords, Never
<1> HIDE DEF day, other, free
<1>7. day \in Runs([r EXCEPT !.skip = Never], 7..14)
  <2>1. [r EXCEPT !.skip = Never].shape = r.shape /\ [r EXCEPT !.skip = Never].skip = Never
    BY DEF RuleRecords
  <2> QED
    BY <1>4, <2>1 DEF Runs, Never
<1>8. ~RuleConflicts(free, RunStart(r, day), RunEnd(r, day))
  BY <1>7 DEF RulesConflict, free
<1>9. ~RunMeets(free, other, RunStart(r, day), RunEnd(r, day))
  <2>1. other # free.skip /\ other % 7 \in free.shape.days
    BY <1>4, <1>6 DEF Never
  <2>2. RunStart(r, day) \in Int /\ RunEnd(r, day) \in Int
    BY <1>4, RunType
  <2> QED
    BY <1>4, <1>6, <1>8, <2>1, <2>2, AllRunsSeen
<1> QED
  BY <1>5, <1>6, <1>9 DEF RunMeets, RunStart, RunEnd, Overlap

LEMMA BothApart ==
  ASSUME NEW r, NEW q, TwoApart(r, q)
  PROVE  TwoApart(q, r)
BY DEF TwoApart, RunMeets, Overlap

\* rs with fewer rules on, the skips of which are cleared only once the run has started.
Follows(t, rs, new) ==
  \A id \in Ids : new[id].on =>
    /\ rs[id].on /\ new[id].shape = rs[id].shape
    /\ new[id].skip = rs[id].skip \/ RunStart(rs[id], rs[id].skip) <= t

\* Time, the loss of plans and rules, and runs skipped in time let nothing overlap.
LEMMA StillBooked ==
  ASSUME NEW t \in Int, NEW u \in Int, t <= u, NEW ps, NEW qs, ps \subseteq qs,
         NEW rs \in AllRules, NEW new, Follows(u, rs, new), NEW c, NEW config,
         NEW edited \in BOOLEAN, NEW hidden \in BOOLEAN, Booked(t, qs, rs, c, edited, hidden),
         NEW late \in BOOLEAN, NEW blind \in BOOLEAN, edited => late, hidden => blind,
         late \/ config = c
  PROVE  Booked(u, ps, new, config, late, blind)
<1>1. Apart(ps)
  BY DEF Booked, Apart
<1>2. ASSUME NEW id \in Ids, new[id].on, NEW d \in Int, d % 7 \in new[id].shape.days,
             d # new[id].skip, RunStart(new[id], d) > u, NEW p \in ps
      PROVE  ~RunMeets(new[id], d, p.start, p.end)
  <2>1. /\ rs[id].on /\ new[id].shape = rs[id].shape
        /\ new[id].skip = rs[id].skip \/ RunStart(rs[id], rs[id].skip) <= u
    BY <1>2 DEF Follows
  <2>2. RunStart(new[id], d) = RunStart(rs[id], d) /\ RunEnd(new[id], d) = RunEnd(rs[id], d)
    BY <2>1 DEF RunStart, RunEnd
  <2>3. RunStart(rs[id], d) \in Int
    BY <2>1, OnRule, RunType
  <2>4. d # rs[id].skip
    BY <1>2, <2>1, <2>2, <2>3
  <2>5. RunStart(rs[id], d) > t
    BY <1>2, <2>2, <2>3
  <2>6. ~RunMeets(rs[id], d, p.start, p.end)
    BY <1>2, <2>1, <2>4, <2>5 DEF Booked, RunsClear, RunClear
  <2> QED
    BY <2>2, <2>6 DEF RunMeets
<1>3. RunsClear(u, new, ps)
  BY <1>2 DEF RunsClear, RunClear
<1>4. RulesApart(new)
  BY DEF Booked, Follows, RulesApart, TwoApart, RunMeets, RunStart, RunEnd
<1>5. ~late => NightsClear(config, ps)
  BY DEF Booked, NightsClear
<1>6. ~late /\ ~blind => RulesAwake(config, new)
  BY DEF Booked, Follows, RulesAwake, RuleAwake, RunMeets, RunStart, RunEnd
<1> QED
  BY <1>1, <1>3, <1>4, <1>5, <1>6 DEF Booked

\* _start_session with a time accepts a plan that meets nothing.
LEMMA PlanAccepted ==
  ASSUME NEW t \in Int, NEW ps \in SUBSET Plans, NEW rs \in AllRules, NEW c \in Configs,
         NEW edited \in BOOLEAN, NEW hidden \in BOOLEAN, Booked(t, ps, rs, c, edited, hidden),
         NEW start \in Nat, NEW len \in Lengths,
         ~SleepConflicts(c, start, start + len),
         \A p \in ps : ~Overlap(start, start + len, p.start, p.end),
         \A id \in Ids : ~RuleConflicts(rs[id], start, start + len)
  PROVE  Booked(t, ps \cup {[start |-> start, end |-> start + len, len |-> len]}, rs, c,
                edited, hidden)
<1> DEFINE plan == [start |-> start, end |-> start + len, len |-> len]
           all == ps \cup {plan}
<1>0. len \in 1..Day /\ start + len \in Int /\ plan.start = start /\ plan.end = start + len
  BY ConstantsAssumption
<1> HIDE DEF plan
<1>1. Apart(all)
  BY <1>0 DEF Booked, Apart, Overlap
<1>2. ASSUME NEW id \in Ids, rs[id].on PROVE RunClear(t, rs[id], all)
  <2>1. rs[id] \in RuleRecords /\ ~RuleConflicts(rs[id], start, start + len)
    BY <1>2, OnRule
  <2>2. \A d \in Int : d % 7 \in rs[id].shape.days /\ d # rs[id].skip =>
          ~RunMeets(rs[id], d, plan.start, plan.end)
    BY <1>0, <1>2, <2>1, AllRunsSeen
  <2>3. RunClear(t, rs[id], ps)
    BY <1>2 DEF Booked, RunsClear
  <2> QED
    BY <2>2, <2>3 DEF RunClear
<1>3. ~edited => NightsClear(c, all)
  <2>1. ASSUME c.enabled, NEW e \in Int, e % 7 \in c.days
        PROVE  ~Overlap(Bed(c, e), Bed(c, e) + SleepLen(c), plan.start, plan.end)
    <3>1. start \in Int
      OBVIOUS
    <3>2. ~Overlap(Bed(c, e), Bed(c, e) + SleepLen(c), start, start + len)
      BY <1>0, <2>1, <3>1, AllNightsSeen
    <3> QED
      BY <1>0, <3>2
  <2> QED
    BY <2>1 DEF Booked, NightsClear
<1> QED
  BY <1>1, <1>2, <1>3 DEF Booked, RunsClear, plan

\* recurring_conflict_message accepts a rule that meets nothing, unless nights are hidden by a
\* skip.
LEMMA RuleAccepted ==
  ASSUME now \in Nat, plans \subseteq Plans, rules \in AllRules, sleep.config \in Configs,
         promoted \in BOOLEAN, masked \in BOOLEAN,
         \A p \in plans : p.end = p.start + p.len,
         Booked(now, plans, rules, sleep.config, promoted, masked),
         NEW id \in Ids, NEW r \in RuleRecords, RuleIsFree(id, r), NEW new,
         new = [rules EXCEPT ![id] = r], NEW blind \in BOOLEAN, masked => blind,
         sleep.config.enabled /\ r.on /\ r.skip # Never =>
           blind \/ (rules[id].on /\ r.shape = rules[id].shape)
  PROVE  Booked(now, plans, new, sleep.config, promoted, blind)
<1> DEFINE c == sleep.config
<1>0. new[id] = r /\ \A other \in Ids \ {id} : new[other] = rules[other]
  BY DEF AllRules
<1>1. ASSUME r.on PROVE RunClear(now, r, plans)
  <2>1. ASSUME NEW d \in Int, d % 7 \in r.shape.days, d # r.skip, NEW p \in plans
        PROVE  ~RunMeets(r, d, p.start, p.end)
    <3>1. ~RuleConflicts(r, p.start, p.end)
      BY <1>1 DEF RuleIsFree
    <3>2. p.start \in Int /\ p.end \in Int
      BY DEF Plans
    <3> QED
      BY <1>1, <2>1, <3>1, <3>2, AllRunsSeen
  <2> QED
    BY <2>1 DEF RunClear
<1>2. RunsClear(now, new, plans)
  BY <1>0, <1>1 DEF Booked, RunsClear
<1>3. ASSUME r.on, NEW other \in Ids \ {id}, rules[other].on
      PROVE  TwoApart(r, rules[other]) /\ TwoApart(rules[other], r)
  <2>1. rules[other] \in RuleRecords
    BY <1>3, OnRule
  <2>2. ~RulesConflict(r, rules[other])
    BY <1>3 DEF RuleIsFree
  <2> QED
    BY <1>3, <2>1, <2>2, WeekApart, BothApart
<1>4. RulesApart(new)
  BY <1>0, <1>3 DEF Booked, RulesApart
<1>5. ASSUME r.on, ~promoted, ~blind PROVE RuleAwake(c, r)
  <2>1. CASE ~c.enabled
    BY <2>1 DEF RuleAwake
  <2>2. CASE c.enabled /\ r.skip = Never
    <3>1. \A s \in SleepStarts(c, (Date(now) - 1)..(Date(now) + 8)) :
            ~RuleConflicts(r, s, s + SleepLen(c))
      BY <1>5 DEF RuleIsFree
    <3> QED
      BY <1>5, <2>2, <3>1, WeekAwake
  <2>3. CASE c.enabled /\ r.skip # Never
    <3>1. rules[id].on /\ r.shape = rules[id].shape
      BY <1>5, <2>3
    <3>2. RuleAwake(c, rules[id])
      BY <1>5, <3>1 DEF Booked, RulesAwake
    <3> QED
      BY <3>1, <3>2 DEF RuleAwake, RunMeets, RunStart, RunEnd
  <2> QED
    BY <2>1, <2>2, <2>3
<1>6. ~promoted /\ ~blind => RulesAwake(c, new)
  BY <1>0, <1>5 DEF Booked, RulesAwake
<1> QED
  BY <1>2, <1>4, <1>6 DEF Booked

\* _conflict_message accepts nights that meet nothing, with the same exception.
LEMMA NightsAccepted ==
  ASSUME now \in Nat, plans \subseteq Plans, rules \in AllRules,
         promoted \in BOOLEAN, masked \in BOOLEAN,
         \A p \in plans : p.end = p.start + p.len,
         Booked(now, plans, rules, sleep.config, promoted, masked),
         NEW c \in Configs, SleepIsFree(c), NEW blind \in BOOLEAN,
         c.enabled => blind \/ \A id \in Ids : rules[id].on => rules[id].skip = Never
  PROVE  Booked(now, plans, rules, c, promoted, blind)
<1>1. ASSUME c.enabled, NEW e \in Int, e % 7 \in c.days, NEW p \in plans
      PROVE  ~Overlap(Bed(c, e), Bed(c, e) + SleepLen(c), p.start, p.end)
  <2>1. p.start \in Int /\ p.len \in 1..Day /\ p.end = p.start + p.len
    <3>1. p \in Plans /\ p.end = p.start + p.len
      BY <1>1
    <3>2. p.start \in Nat /\ p.len \in Lengths
      BY <3>1 DEF Plans
    <3>3. p.len \in 1..Day
      BY <3>2, ConstantsAssumption
    <3> QED
      BY <3>1, <3>2, <3>3
  <2>2. ~SleepConflicts(c, p.start, p.start + p.len)
    BY <1>1, <2>1 DEF SleepIsFree
  <2>3. ~Overlap(Bed(c, e), Bed(c, e) + SleepLen(c), p.start, p.start + p.len)
    BY <1>1, <2>1, <2>2, AllNightsSeen
  <2> QED
    BY <2>1, <2>3
<1>2. NightsClear(c, plans)
  BY <1>1 DEF NightsClear
<1>3. ASSUME ~blind, NEW id \in Ids, rules[id].on PROVE RuleAwake(c, rules[id])
  <2>1. CASE ~c.enabled
    BY <2>1 DEF RuleAwake
  <2>2. CASE c.enabled
    <3>1. rules[id] \in RuleRecords /\ rules[id].skip = Never
      BY <1>3, <2>2, OnRule
    <3>2. \A s \in SleepStarts(c, (Date(now) - 1)..(Date(now) + 8)) :
            ~RuleConflicts(rules[id], s, s + SleepLen(c))
      BY DEF SleepIsFree
    <3> QED
      BY <1>3, <3>1, <3>2, WeekAwake
  <2> QED
    BY <2>1, <2>2
<1> QED
  BY <1>2, <1>3 DEF Booked, RulesAwake

-----------------------------------------------------------------------------
(* Nothing is booked twice: step by step *)

(* What makes NoDoubleBooking inductive: nothing overlaps in memory, on any date to  *)
(* come; as long as no write failed, session.lock has the same plans, those that are *)
(* over apart, and rules that differ in when they were triggered at most; and while  *)
(* the daemon is down nothing overlaps in its files.                                 *)
Waiting == {p \in lock.plans : now < p.end}
Agree(rs, new) ==
  \A id \in Ids : /\ new[id].on = rs[id].on /\ new[id].shape = rs[id].shape
                  /\ new[id].skip = rs[id].skip
Orderly == Booked(now, plans, rules, sleep.config, promoted, masked)
FilesOrderly == Booked(now, Waiting, lock.rules, sleepFile.config, promoted, masked)
InMemory == up /\ Clean => Orderly
FileAgrees == up /\ failures = 0 => Waiting \subseteq plans /\ Agree(rules, lock.rules)
OnDisk == ~up /\ failures = 0 => FilesOrderly
DownForgets == ~up => plans = {} /\ \A id \in Ids : ~rules[id].on
BookInv == StopInv /\ PlansEnd /\ InMemory /\ FileAgrees /\ OnDisk /\ DownForgets

\* Faults are not forgotten, histories neither.
LEMMA HistoryGrows ==
  ASSUME TypeOK, [Next]_vars
  PROVE  /\ Clean' => Clean
         /\ failures' = 0 => failures = 0
         /\ now <= now'
         /\ promoted => promoted'
         /\ masked => masked'
<1>0. failures \in Nat /\ crashes \in Nat /\ now \in Nat
  BY DEF TypeOK
<1>1. failures' = failures \/ failures' = failures + 1
  BY DEF Next, Command, SaveSleep, Schedule, Cancel, AddRule, RemoveRule, UpdateRule, StartNow,
         Merge, RequestStop, Watch, PickSleep, PickRule, PickPlan, PickNothing, StartPicked,
         Expire, Crash, Boot, Tick, vars, Save, Fail
<1>2. crashes' = crashes \/ crashes' = crashes + 1
  BY DEF Next, Command, SaveSleep, Schedule, Cancel, AddRule, RemoveRule, UpdateRule, StartNow,
         Merge, RequestStop, Watch, StartPicked, Expire, Crash, Boot, Tick, vars
<1>3. now' = now \/ now' = now + 1
  BY DEF Next, Command, SaveSleep, Schedule, Cancel, AddRule, RemoveRule, UpdateRule, StartNow,
         Merge, RequestStop, Watch, StartPicked, Expire, Crash, Boot, Tick, vars
<1>4. \/ promoted' = promoted
      \/ promoted' = (promoted \/ PendingDue(sleep))
      \/ promoted' = (promoted \/ PendingDue(sleepFile))
      \/ promoted' = (promoted \/ sleep'.config # sleep.config)
  BY DEF Next, Command, SaveSleep, Schedule, Cancel, AddRule, RemoveRule, UpdateRule, StartNow,
         Merge, RequestStop, Watch, StartPicked, Expire, Crash, Boot, Tick, vars, history
<1>5. masked => masked'
  BY DEF Next, Command, SaveSleep, Schedule, Cancel, AddRule, RemoveRule, UpdateRule, StartNow,
         Merge, RequestStop, Watch, StartPicked, Expire, Crash, Boot, Tick, vars, history
<1>6. (failures' = 0 => failures = 0) /\ (crashes' = 0 => crashes = 0) /\ now <= now'
  BY <1>0, <1>1, <1>2, <1>3
<1>7. Clean' => Clean
  BY <1>6 DEF Clean
<1>8. promoted => promoted'
  BY <1>4, Zenon
<1> QED
  BY <1>5, <1>6, <1>7, <1>8


LEMMA SameRules ==
  ASSUME NEW t, NEW rs, NEW new, \A id \in Ids : new[id].on => new[id] = rs[id]
  PROVE  Follows(t, rs, new)
BY DEF Follows

\* Runs are skipped once they are due.
LEMMA SkipsInTime ==
  ASSUME rules \in AllRules, NEW id \in Ids
  PROVE  /\ SkipDone[id].on = rules[id].on /\ SkipDone[id].shape = rules[id].shape
         /\ \/ SkipDone[id].skip = rules[id].skip
            \/ rules[id].on /\ RunStart(rules[id], rules[id].skip) <= now
<1>1. SkipDone[id] = IF Skipping(rules[id])
                     THEN [rules[id] EXCEPT !.skip = Never, !.triggered = Date(now)]
                     ELSE rules[id]
  BY DEF SkipDone
<1>2. CASE ~Skipping(rules[id])
  BY <1>1, <1>2
<1>3. CASE Skipping(rules[id])
  <2>1. rules[id].on /\ rules[id].skip = Date(now) /\ RunStart(rules[id], Date(now)) <= now
    BY <1>3 DEF Skipping, RunDue
  <2>2. rules[id] \in RuleRecords
    BY <2>1, OnRule
  <2>3. SkipDone[id].on = rules[id].on /\ SkipDone[id].shape = rules[id].shape
    BY <1>1, <1>3, <2>2 DEF RuleRecords
  <2> QED
    BY <2>1, <2>3
<1> QED
  BY <1>2, <1>3

LEMMA TriggeredFollows ==
  ASSUME now \in Nat, rules \in AllRules, NEW new,
         \A id \in Ids : \/ new[id] = SkipDone[id]
                         \/ rules[id].on /\ new[id] = [SkipDone[id] EXCEPT !.triggered = Date(now)]
  PROVE  Follows(now, rules, new)
<1>1. ASSUME NEW id \in Ids, new[id].on
      PROVE  /\ rules[id].on /\ new[id].shape = rules[id].shape
             /\ new[id].skip = rules[id].skip \/ RunStart(rules[id], rules[id].skip) <= now
  <2>1. CASE new[id] = SkipDone[id]
    BY <1>1, <2>1, SkipsInTime
  <2>2. CASE rules[id].on /\ new[id] = [SkipDone[id] EXCEPT !.triggered = Date(now)]
    <3>1. SkipDone[id] \in RuleRecords \cup {NoRule}
      BY SkipDoneType DEF AllRules
    <3>2. new[id].shape = SkipDone[id].shape /\ new[id].skip = SkipDone[id].skip
      BY <2>2, <3>1 DEF RuleRecords, NoRule
    <3> QED
      BY <2>2, <3>2, SkipsInTime
  <2> QED
    BY <1>1, <2>1, <2>2
<1> QED
  BY <1>1 DEF Follows

\* What is in memory after a step.
StillOrderly == Booked(now', plans', rules', sleep'.config, promoted', masked')

LEMMA MemoryTypes ==
  ASSUME TypeOK
  PROVE  /\ now \in Nat /\ now \in Int /\ plans \in SUBSET Plans /\ rules \in AllRules
         /\ sleep.config \in Configs /\ promoted \in BOOLEAN /\ masked \in BOOLEAN
BY DEF TypeOK, AllRules, SleepStates

LEMMA LessOrderly ==
  ASSUME TypeOK, TypeOK', [Next]_vars, Orderly, plans' \subseteq plans,
         Follows(now', rules, rules'), promoted' \/ sleep'.config = sleep.config
  PROVE  StillOrderly
<1>1. now' \in Int /\ promoted' \in BOOLEAN /\ masked' \in BOOLEAN
  BY DEF TypeOK
<1>2. now <= now' /\ (promoted => promoted') /\ (masked => masked')
  BY HistoryGrows
<1> QED
  BY <1>1, <1>2, MemoryTypes, StillBooked DEF Orderly, StillOrderly

LEMMA CommandOrderly ==
  ASSUME TypeOK, TypeOK', PlansEnd, Orderly, Command
  PROVE  StillOrderly
<1>0. [Next]_vars
  BY DEF Next
<1>1. ASSUME plans' \subseteq plans, \A id \in Ids : rules'[id].on => rules'[id] = rules[id],
             UNCHANGED sleep
      PROVE  StillOrderly
  BY <1>0, <1>1, SameRules, LessOrderly
<1>2. \A p \in plans : p.end = p.start + p.len
  BY DEF PlansEnd, Later
<1>3. ASSUME NEW c \in Configs, SaveSleep(c) PROVE StillOrderly
  <2>0. UNCHANGED <<now, plans, rules, promoted>> /\ SleepIsFree(c)
    BY <1>3 DEF SaveSleep
  <2>1. CASE session.kind = "sleep"
    <3>1. sleep' = [sleep EXCEPT !.queued = TRUE, !.pending = c, !.applyAt = session.end]
      BY <1>3, <2>1 DEF SaveSleep
    <3>2. sleep'.config = sleep.config
      BY <3>1 DEF TypeOK, SleepStates
    <3>3. Follows(now', rules, rules')
      BY <2>0, SameRules
    <3> QED
      BY <1>0, <2>0, <3>2, <3>3, LessOrderly
  <2>2. CASE session.kind # "sleep"
    <3>1. sleep'.config = c
      BY <1>3, <2>2 DEF SaveSleep, NoSleep
    <3>2. masked' = (masked \/ \E id \in Ids : c.enabled /\ rules[id].on /\ rules[id].skip # Never)
      BY <1>3 DEF SaveSleep
    <3>3. c.enabled => masked' \/ \A id \in Ids : rules[id].on => rules[id].skip = Never
      BY <3>2, Zenon
    <3>4. masked' \in BOOLEAN
      BY DEF TypeOK
    <3>5. Booked(now, plans, rules, c, promoted, masked')
      BY <1>2, <2>0, <3>3, <3>4, MemoryTypes, NightsAccepted DEF Orderly
    <3> QED
      BY <2>0, <3>1, <3>5 DEF StillOrderly
  <2> QED
    BY <2>1, <2>2
<1>4. ASSUME NEW ahead \in 1..Ahead, NEW len \in Lengths, Schedule(now + ahead, len)
      PROVE  StillOrderly
  <2> DEFINE start == now + ahead
             plan == [start |-> start, end |-> start + len, len |-> len]
  <2>1. /\ UNCHANGED <<now, rules, sleep, promoted, masked>> /\ plans' = plans \cup {plan}
        /\ ~SleepConflicts(sleep.config, start, start + len)
        /\ \A p \in plans : ~Overlap(start, start + len, p.start, p.end)
        /\ \A id \in Ids : ~RuleConflicts(rules[id], start, start + len)
    BY <1>4 DEF Schedule, history
  <2>2. start \in Nat
    BY MemoryTypes, ConstantsAssumption
  <2> HIDE DEF start
  <2>3. Booked(now, plans \cup {plan}, rules, sleep.config, promoted, masked)
    BY <2>1, <2>2, MemoryTypes, PlanAccepted DEF Orderly
  <2> QED
    BY <2>1, <2>3 DEF StillOrderly
<1>5. ASSUME NEW plan \in plans, Cancel(plan) PROVE StillOrderly
  BY <1>1, <1>5 DEF Cancel
<1>6. ASSUME NEW id \in Ids, NEW shape \in Shapes, AddRule(id, shape) PROVE StillOrderly
  <2> DEFINE r == [on |-> TRUE, shape |-> shape, skip |-> Never, triggered |-> Never]
  <2>1. /\ UNCHANGED <<now, plans, sleep, promoted, masked>> /\ rules' = [rules EXCEPT ![id] = r]
        /\ RuleIsFree(id, r)
    BY <1>6 DEF AddRule, history
  <2>2. r \in RuleRecords /\ r.skip = Never
    BY DEF RuleRecords, Never
  <2> HIDE DEF r
  <2>3. Booked(now, plans, rules', sleep.config, promoted, masked)
    BY <1>2, <2>1, <2>2, MemoryTypes, RuleAccepted DEF Orderly
  <2> QED
    BY <2>1, <2>3 DEF StillOrderly
<1>7. ASSUME NEW id \in Ids, RemoveRule(id) PROVE StillOrderly
  <2>1. UNCHANGED <<plans, sleep>> /\ rules' = [rules EXCEPT ![id] = NoRule]
    BY <1>7 DEF RemoveRule
  <2>2. ASSUME NEW other \in Ids, rules'[other].on PROVE rules'[other] = rules[other]
    BY <2>1, <2>2, MemoryTypes DEF AllRules, NoRule
  <2> QED
    BY <1>1, <2>1, <2>2
<1>8. ASSUME NEW id \in Ids, NEW new \in Edits(rules[id]), UpdateRule(id, new)
      PROVE  StillOrderly
  <2>1. /\ UNCHANGED <<now, plans, sleep, promoted>> /\ rules' = [rules EXCEPT ![id] = new]
        /\ RuleIsFree(id, new) /\ rules[id] # NoRule
    BY <1>8 DEF UpdateRule
  <2>2. masked' = (masked \/ (/\ sleep.config.enabled /\ new.on /\ new.skip # Never
                              /\ ~rules[id].on \/ new.shape # rules[id].shape))
    BY <1>8 DEF UpdateRule
  <2>3. /\ masked => masked'
        /\ sleep.config.enabled /\ new.on /\ new.skip # Never =>
             masked' \/ (rules[id].on /\ new.shape = rules[id].shape)
    BY <2>2, Zenon
  <2>4. new \in RuleRecords /\ masked' \in BOOLEAN
    <3>1. rules[id] \in RuleRecords
      BY <2>1, MemoryTypes DEF AllRules
    <3> QED
      BY <1>8, <3>1, EditsType DEF TypeOK
  <2>5. Booked(now, plans, rules', sleep.config, promoted, masked')
    BY <1>2, <2>1, <2>3, <2>4, MemoryTypes, RuleAccepted DEF Orderly
  <2> QED
    BY <2>1, <2>5 DEF StillOrderly
<1>9. ASSUME NEW len \in Lengths, StartNow(len) \/ Merge(len) PROVE StillOrderly
  BY <1>1, <1>9 DEF StartNow, Merge
<1>10. ASSUME RequestStop PROVE StillOrderly
  BY <1>1, <1>10 DEF RequestStop
<1> QED
  BY <1>3, <1>4, <1>5, <1>6, <1>7, <1>8, <1>9, <1>10 DEF Command

\* The watchdog forgets what is over and marks what it skips or starts.
LEMMA WatchOrderly ==
  ASSUME TypeOK, TypeOK', Orderly, Watch
  PROVE  StillOrderly
<1>0. [Next]_vars /\ UNCHANGED now
  BY DEF Next, Watch
<1>1. CASE /\ sleep' = Promoted(sleep) /\ promoted' = (promoted \/ PendingDue(sleep))
           /\ PickSleep(sleep') \/ PickRule(sleep') \/ PickPlan(sleep') \/ PickNothing(sleep')
  <2>1. promoted' \/ sleep'.config = sleep.config
    <3>1. CASE PendingDue(sleep)
      BY <1>1, <3>1, Zenon
    <3>2. CASE ~PendingDue(sleep)
      BY <1>1, <3>2 DEF Promoted
    <3> QED
      BY <3>1, <3>2
  <2>2. plans' \subseteq plans
    BY <1>1 DEF PickSleep, PickRule, PickPlan, PickNothing, Current
  <2>3. Follows(now, rules, rules')
    <3>1. CASE PickSleep(sleep')
      BY <3>1, SameRules DEF PickSleep
    <3>2. CASE PickRule(sleep')
      <4>1. PICK id \in RulesDue : rules' = [SkipDone EXCEPT ![id].triggered = Date(now)]
        BY <3>2 DEF PickRule
      <4>2. id \in Ids /\ rules[id].on
        BY DEF RulesDue, RunDue
      <4>3. /\ rules'[id] = [SkipDone[id] EXCEPT !.triggered = Date(now)]
            /\ \A other \in Ids \ {id} : rules'[other] = SkipDone[other]
        BY <4>1, <4>2 DEF SkipDone
      <4> QED
        BY <4>2, <4>3, MemoryTypes, TriggeredFollows
    <3>3. CASE PickPlan(sleep') \/ PickNothing(sleep')
      <4>1. rules' = SkipDone
        BY <3>3 DEF PickPlan, PickNothing
      <4> QED
        BY <4>1, MemoryTypes, TriggeredFollows
    <3> QED
      BY <1>1, <3>1, <3>2, <3>3
  <2> QED
    BY <1>0, <2>1, <2>2, <2>3, LessOrderly
<1>2. CASE UNCHANGED <<sleep, plans, rules>>
  BY <1>0, <1>2, SameRules, LessOrderly
<1> QED
  BY <1>1, <1>2 DEF Watch

LEMMA OtherOrderly ==
  ASSUME TypeOK, TypeOK', Orderly, StartPicked \/ Expire \/ Tick \/ UNCHANGED vars
  PROVE  StillOrderly
<1>1. UNCHANGED <<plans, rules>> /\ [Next]_vars
  BY DEF Next, StartPicked, Expire, Tick, vars
<1>2. promoted' \/ sleep'.config = sleep.config
  <2>1. CASE Expire
    <3>1. promoted' = (promoted \/ sleep'.config # sleep.config)
      BY <2>1 DEF Expire
    <3> QED
      BY <3>1, Zenon
  <2>2. CASE StartPicked \/ Tick \/ UNCHANGED vars
    BY <2>2 DEF StartPicked, Tick, vars
  <2> QED
    BY <2>1, <2>2
<1> QED
  BY <1>1, <1>2, SameRules, LessOrderly

\* A restart takes what the files have.
LEMMA BootOrderly ==
  ASSUME TypeOK, TypeOK', Boot, FilesOrderly
  PROVE  StillOrderly
<1>1. /\ sleep' = Promoted(sleepFile) /\ promoted' = (promoted \/ PendingDue(sleepFile))
      /\ plans' = Waiting /\ rules' = [id \in Ids |-> RestoredRule(lock.rules[id])]
      /\ UNCHANGED <<now, masked>>
  BY DEF Boot, Waiting
<1>2. promoted' \/ sleep'.config = sleepFile.config
  <2>1. CASE PendingDue(sleepFile)
    BY <1>1, <2>1, Zenon
  <2>2. CASE ~PendingDue(sleepFile)
    BY <1>1, <2>2 DEF Promoted
  <2> QED
    BY <2>1, <2>2
<1>3. lock.rules \in AllRules
  BY DEF TypeOK, AllRules
<1>4. ASSUME NEW id \in Ids
      PROVE  /\ rules'[id].on = lock.rules[id].on /\ rules'[id].shape = lock.rules[id].shape
             /\ rules'[id].skip = lock.rules[id].skip
  <2>1. rules'[id] = [lock.rules[id] EXCEPT !.triggered = Never]
    BY <1>1 DEF RestoredRule
  <2> QED
    BY <1>3, <2>1 DEF AllRules, RuleRecords, NoRule
<1>5. Follows(now, lock.rules, rules')
  BY <1>4 DEF Follows
<1>6. promoted => promoted'
  BY <1>1, Zenon
<1>7. promoted' \in BOOLEAN
  BY DEF TypeOK
<1>8. Booked(now, Waiting, rules', sleep'.config, promoted', masked)
  BY <1>2, <1>3, <1>5, <1>6, <1>7, MemoryTypes, StillBooked DEF FilesOrderly
<1> QED
  BY <1>1, <1>8 DEF StillOrderly

\* What a step that succeeds saves.
LEMMA FilesFollow ==
  ASSUME TypeOK, [Next]_vars, up, up', failures' = 0
  PROVE  lock' = Snapshot \/ (UNCHANGED <<lock, rules>> /\ plans' \in {plans, Current})
<1>0. failures \in Nat
  BY DEF TypeOK
<1>1. Save => lock' = Snapshot
  BY <1>0 DEF Save, Fail
<1>2. CASE Command
  BY <1>1, <1>2 DEF Command, SaveSleep, Schedule, Cancel, AddRule, RemoveRule, UpdateRule,
                    StartNow, Merge, RequestStop
<1>3. CASE Watch
  <2>1. CASE PickSleep(sleep') \/ PickRule(sleep') \/ PickPlan(sleep')
    BY <1>1, <2>1 DEF PickSleep, PickRule, PickPlan
  <2>2. CASE PickNothing(sleep')
    BY <1>1, <2>2 DEF PickNothing
  <2>3. CASE UNCHANGED <<lock, rules, plans>>
    BY <2>3
  <2> QED
    BY <1>3, <2>1, <2>2, <2>3 DEF Watch
<1>4. CASE StartPicked
  BY <1>4 DEF StartPicked
<1>5. CASE Expire
  BY <1>1, <1>5 DEF Expire
<1>6. CASE Tick \/ UNCHANGED vars
  BY <1>6 DEF Tick, vars
<1>7. ~Crash /\ ~Boot
  BY DEF Crash, Boot
<1> QED
  BY <1>2, <1>3, <1>4, <1>5, <1>6, <1>7 DEF Next

LEMMA FilesAgree ==
  ASSUME TypeOK, TypeOK', [Next]_vars, up', failures' = 0, up => FileAgrees
  PROVE  FileAgrees'
<1>1. CASE up
  <2>1. failures = 0 /\ now <= now' /\ now \in Nat
    BY HistoryGrows, MemoryTypes
  <2>2. CASE lock' = Snapshot
    <3>1. lock'.plans = plans' /\ lock'.rules = rules'
      BY <2>2 DEF Snapshot
    <3> QED
      BY <3>1 DEF FileAgrees, Waiting, Agree
  <2>3. CASE UNCHANGED <<lock, rules>> /\ plans' \in {plans, Current}
    <3>1. Waiting \subseteq plans /\ Agree(rules, lock.rules)
      BY <1>1, <2>1 DEF FileAgrees
    <3>2. ASSUME NEW p \in lock.plans, now' < p.end PROVE p \in plans'
      <4>1. p.end \in Nat /\ now' \in Nat
        <5>1. lock.plans \subseteq Plans /\ now' \in Nat
          BY DEF TypeOK
        <5> QED
          BY <3>2, <5>1 DEF Plans
      <4>2. now < p.end
        BY <2>1, <3>2, <4>1
      <4>3. p \in plans /\ p \in Current
        BY <3>1, <4>2 DEF Waiting, Current
      <4> QED
        BY <2>3, <4>3
    <3>3. Waiting' \subseteq plans'
      BY <2>3, <3>2 DEF Waiting
    <3>4. Agree(rules', lock'.rules)
      BY <2>3, <3>1
    <3> QED
      BY <3>3, <3>4 DEF FileAgrees
  <2> QED
    BY <1>1, <2>2, <2>3, FilesFollow
<1>2. CASE ~up
  <2>1. Boot
    BY <1>2 DEF Next, Command, SaveSleep, Schedule, Cancel, AddRule, RemoveRule, UpdateRule,
                StartNow, Merge, RequestStop, Watch, StartPicked, Expire, Crash, Tick, vars
  <2>2. lock' = Snapshot \/ UNCHANGED lock
    BY <2>1 DEF Boot, Save
  <2>3. CASE lock' = Snapshot
    <3>1. lock'.plans = plans' /\ lock'.rules = rules'
      BY <2>3 DEF Snapshot
    <3> QED
      BY <3>1 DEF FileAgrees, Waiting, Agree
  <2>4. CASE UNCHANGED lock
    <3>1. Waiting' = plans' /\ rules' = [id \in Ids |-> RestoredRule(lock.rules[id])]
      BY <2>1, <2>4 DEF Boot, Waiting
    <3>2. lock.rules \in AllRules
      BY DEF TypeOK, AllRules
    <3>3. ASSUME NEW id \in Ids
          PROVE  /\ rules'[id].on = lock.rules[id].on /\ rules'[id].shape = lock.rules[id].shape
                 /\ rules'[id].skip = lock.rules[id].skip
      <4>1. rules'[id] = [lock.rules[id] EXCEPT !.triggered = Never]
        BY <3>1 DEF RestoredRule
      <4> QED
        BY <3>2, <4>1 DEF AllRules, RuleRecords, NoRule
    <3>4. Agree(rules', lock'.rules)
      BY <2>4, <3>3 DEF Agree
    <3> QED
      BY <3>1, <3>4 DEF FileAgrees
  <2> QED
    BY <2>2, <2>3, <2>4
<1> QED
  BY <1>1, <1>2

\* Between a crash and the restart there are only the files.
LEMMA DownOrderly ==
  ASSUME BookInv, TypeOK', [Next]_vars, ~up', failures' = 0
  PROVE  FilesOrderly'
<1>0. TypeOK /\ failures = 0 /\ now <= now' /\ now \in Nat /\ now' \in Nat /\ Clean
  BY HistoryGrows DEF BookInv, StopInv, TypeOK, Clean
<1>1. /\ UNCHANGED <<lock, sleepFile, promoted, masked>>
      /\ up => Crash
  <2>1. up => Crash
    BY DEF Next, Command, SaveSleep, Schedule, Cancel, AddRule, RemoveRule, UpdateRule, StartNow,
           Merge, RequestStop, Watch, StartPicked, Expire, Boot, Tick, vars
  <2>2. ~up => Tick \/ UNCHANGED vars
    BY DEF Next, Command, SaveSleep, Schedule, Cancel, AddRule, RemoveRule, UpdateRule, StartNow,
           Merge, RequestStop, Watch, StartPicked, Expire, Boot, Crash
  <2> QED
    BY <2>1, <2>2 DEF Crash, Tick, vars, history
<1>2. Waiting' \subseteq Waiting
  <2>1. lock.plans \subseteq Plans
    BY <1>0 DEF TypeOK
  <2> QED
    BY <1>0, <1>1, <2>1 DEF Waiting, Plans
<1>3. lock.rules \in AllRules /\ promoted \in BOOLEAN /\ masked \in BOOLEAN
  BY <1>0 DEF TypeOK, AllRules
<1>4. CASE up
  <2>1. Orderly /\ Waiting \subseteq plans /\ Agree(rules, lock.rules) /\ sleepFile = sleep
    BY <1>0, <1>4 DEF BookInv, InMemory, FileAgrees, StopInv, FileIsSleep
  <2>2. Follows(now', rules, lock.rules)
    BY <2>1 DEF Agree, Follows
  <2>3. Booked(now', Waiting', lock.rules, sleep.config, promoted, masked)
    BY <1>0, <1>2, <1>3, <2>1, <2>2, MemoryTypes, StillBooked DEF Orderly
  <2> QED
    BY <1>1, <2>1, <2>3 DEF FilesOrderly
<1>5. CASE ~up
  <2>1. FilesOrderly
    BY <1>0, <1>5 DEF BookInv, OnDisk
  <2>2. Follows(now', lock.rules, lock.rules)
    BY SameRules
  <2>3. Booked(now', Waiting', lock.rules, sleepFile.config, promoted, masked)
    BY <1>0, <1>2, <1>3, <2>1, <2>2, StillBooked DEF FilesOrderly
  <2> QED
    BY <1>1, <2>3 DEF FilesOrderly
<1> QED
  BY <1>4, <1>5

LEMMA BookStep == ASSUME BookInv, [Next]_vars PROVE BookInv'
<1>1. StopInv' /\ PlansEnd' /\ TypeOK /\ TypeOK' /\ PlansEnd
  BY StopStep, PlansEndStep, TypeStep DEF BookInv, StopInv
<1>2. InMemory'
  <2> SUFFICES ASSUME up', Clean' PROVE StillOrderly
    BY DEF InMemory, Orderly, StillOrderly
  <2>1. Clean /\ (failures' = 0 => failures = 0)
    BY <1>1, HistoryGrows
  <2>2. CASE up
    <3>1. Orderly
      BY <2>1, <2>2 DEF BookInv, InMemory
    <3>2. ~Boot /\ ~Crash
      BY <2>2 DEF Boot, Crash
    <3> QED
      BY <1>1, <3>1, <3>2, CommandOrderly, WatchOrderly, OtherOrderly DEF Next
  <2>3. CASE ~up
    <3>1. Boot
      BY <2>3 DEF Next, Command, SaveSleep, Schedule, Cancel, AddRule, RemoveRule, UpdateRule,
                  StartNow, Merge, RequestStop, Watch, StartPicked, Expire, Crash, Tick, vars
    <3>2. crashes > 0 /\ crashes \in Nat /\ crashes' = crashes
      BY <1>1, <2>3, <3>1 DEF BookInv, StopInv, DownIsEmpty, TypeOK, Boot
    <3>3. failures = 0
      BY <2>1, <3>2 DEF Clean
    <3>4. FilesOrderly
      BY <2>3, <3>3 DEF BookInv, OnDisk
    <3> QED
      BY <1>1, <3>1, <3>4, BootOrderly
  <2> QED
    BY <2>2, <2>3
<1>3. FileAgrees'
  <2> SUFFICES ASSUME up', failures' = 0 PROVE FileAgrees'
    BY DEF FileAgrees
  <2> QED
    BY <1>1, FilesAgree DEF BookInv
<1>4. OnDisk'
  BY <1>1, DownOrderly DEF OnDisk
<1>5. DownForgets'
  <2>1. up' \/ Crash \/ UNCHANGED <<up, plans, rules>>
    <3>1. Command => up /\ UNCHANGED up
      BY DEF Command, SaveSleep, Schedule, Cancel, AddRule, RemoveRule, UpdateRule, StartNow,
             Merge, RequestStop, history
    <3>2. Watch \/ StartPicked \/ Expire \/ Boot => up'
      BY DEF Watch, StartPicked, Expire, Boot
    <3>3. Tick \/ UNCHANGED vars => UNCHANGED <<up, plans, rules>>
      BY DEF Tick, vars
    <3> QED
      BY <3>1, <3>2, <3>3 DEF Next
  <2>2. CASE Crash
    <3>1. plans' = {} /\ \A id \in Ids : rules'[id] = NoRule
      BY <2>2 DEF Crash
    <3>2. ~NoRule.on
      BY DEF NoRule
    <3> QED
      BY <3>1, <3>2 DEF DownForgets
  <2>3. CASE up' \/ UNCHANGED <<up, plans, rules>>
    BY <2>3 DEF BookInv, DownForgets
  <2> QED
    BY <2>1, <2>2, <2>3
<1> QED
  BY <1>1, <1>2, <1>3, <1>4, <1>5 DEF BookInv

LEMMA BookInit == Init => BookInv
<1> SUFFICES ASSUME Init PROVE BookInv
  OBVIOUS
<1>1. StopInv
  BY StopInit
<1>2. /\ up /\ plans = {} /\ sleep = NoSleep /\ \A id \in Ids : rules[id] = NoRule
      /\ lock.plans = {} /\ lock.rules = rules
  BY DEF Init
<1>3. PlansEnd
  BY <1>1, <1>2 DEF PlansEnd, Later, StopInv
<1>4. Orderly
  BY <1>2 DEF Orderly, Booked, Apart, RunsClear, RulesApart, NightsClear, RulesAwake, NoRule,
              NoSleep, NoConfig
<1> QED
  BY <1>1, <1>2, <1>3, <1>4
  DEF BookInv, InMemory, FileAgrees, Waiting, Agree, OnDisk, DownForgets

LEMMA BookInvariant == Spec => []BookInv
BY BookInit, BookStep, PTL DEF Spec

\* Whatever is scheduled, edited, skipped, paused and resumed, the plans, the coming runs of
\* rules and the nights that are accepted do not overlap; across crashes, too.
THEOREM NothingTwice == Spec => []NoDoubleBooking
<1>1. BookInv => NoDoubleBooking
  <2> SUFFICES ASSUME BookInv, Clean PROVE NoDoubleBooking
    BY DEF NoDoubleBooking, Clean
  <2>1. Date(now) \in Int
    BY MemoryTypes, DateType DEF BookInv, StopInv
  <2>2. CASE ~up
    <3>1. plans = {} /\ \A id \in Ids : ~rules[id].on
      BY <2>2 DEF BookInv, DownForgets
    <3> QED
      BY <3>1 DEF NoDoubleBooking
  <2>3. CASE up
    <3>1. Orderly
      BY <2>3 DEF BookInv, InMemory
    <3>2. ASSUME NEW p \in plans, NEW q \in plans, p # q
          PROVE  ~Overlap(p.start, p.end, q.start, q.end)
      BY <3>1, <3>2 DEF Orderly, Booked, Apart
    <3>3. ASSUME NEW id \in Ids, rules[id].on,
                 NEW d \in Runs(rules[id], Date(now)..(Date(now) + 7)),
                 RunStart(rules[id], d) > now, NEW p \in plans
          PROVE  ~Overlap(RunStart(rules[id], d), RunEnd(rules[id], d), p.start, p.end)
      <4>1. d \in Int /\ d % 7 \in rules[id].shape.days /\ d # rules[id].skip
        BY <2>1, <3>3 DEF Runs
      <4>2. RunClear(now, rules[id], plans)
        BY <3>1, <3>3 DEF Orderly, Booked, RunsClear
      <4> QED
        BY <3>3, <4>1, <4>2 DEF RunClear, RunMeets
    <3>4. ASSUME ~promoted, NEW s \in SleepStarts(sleep.config, (Date(now) - 1)..(Date(now) + 8))
          PROVE  /\ sleep.config.enabled
                 /\ \E e \in Int : e % 7 \in sleep.config.days /\ s = Bed(sleep.config, e)
      BY <2>1, <3>4 DEF SleepStarts, Bed
    <3>5. ASSUME ~promoted, NEW s \in SleepStarts(sleep.config, (Date(now) - 1)..(Date(now) + 8)),
                 NEW p \in plans
          PROVE  ~Overlap(s, s + SleepLen(sleep.config), p.start, p.end)
      <4>1. NightsClear(sleep.config, plans)
        BY <3>1, <3>5 DEF Orderly, Booked
      <4> QED
        BY <3>4, <3>5, <4>1 DEF NightsClear
    <3>6. ASSUME ~promoted, ~masked,
                 NEW s \in SleepStarts(sleep.config, (Date(now) - 1)..(Date(now) + 8)),
                 NEW id \in Ids, rules[id].on,
                 NEW d \in Runs(rules[id], Date(now)..(Date(now) + 7))
          PROVE  ~Overlap(s, s + SleepLen(sleep.config), RunStart(rules[id], d),
                          RunEnd(rules[id], d))
      <4>1. d \in Int /\ d % 7 \in rules[id].shape.days
        BY <2>1, <3>6 DEF Runs
      <4>2. RuleAwake(sleep.config, rules[id])
        BY <3>1, <3>6 DEF Orderly, Booked, RulesAwake
      <4>3. ~RunMeets(rules[id], d, s, s + SleepLen(sleep.config))
        BY <3>4, <3>6, <4>1, <4>2 DEF RuleAwake
      <4> QED
        BY <4>3 DEF RunMeets, Overlap
    <3> QED
      BY <3>2, <3>3, <3>5, <3>6 DEF NoDoubleBooking
  <2> QED
    BY <2>2, <2>3
<1> QED
  BY <1>1, BookInvariant, PTL

\* No two rules that are on have runs that overlap, on whichever dates and whatever they skip,
\* although recurring_conflict_message compares them over one week only.
THEOREM RulesStayApart == Spec => [](failures = 0 \/ crashes = 0 => RulesApart(rules))
<1>1. BookInv => (failures = 0 \/ crashes = 0 => RulesApart(rules))
  BY DEF BookInv, InMemory, DownForgets, Clean, Orderly, Booked, RulesApart
<1> QED
  BY <1>1, BookInvariant, PTL
=============================================================================
