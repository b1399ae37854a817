----------------------------- MODULE Scheduler ------------------------------
(***************************************************************************)
(* What starts sessions besides the user's own hand: one-off schedules,    *)
(* recurring rules and the sleep schedule.  The watchdog picks what is due *)
(* under the daemon's lock, lets go of it, and takes it again to start the *)
(* session; commands may come in between.  Schedules, rules and the        *)
(* session are kept in session.lock, the sleep schedule in a file of its   *)
(* own.  Of a session only its kind, its end and its unlock request        *)
(* matter here; the module FocusSession has the rest.                      *)
(***************************************************************************)
EXTENDS Integers, FiniteSets

CONSTANTS
  Day,                       \* length of a day
  Lengths,                   \* of sessions that are asked for
  Ids, Shapes,               \* of recurring rules; their days, time of day and length
  SleepConfigs,              \* that are saved: enabled, days, time to sleep, time to wake
  Ahead,                     \* how far ahead one-offs are scheduled (bound)
  Lockout,                   \* time before its start in which a plan is not withdrawn (20 min)
  Grace,                     \* RECURRING_START_GRACE_S
  UnlockDelay,
  MaxTime, MaxPlans, MaxFaults  \* bounds; of crashes and failed writes together

ASSUME ConstantsAssumption ==
  /\ Day \in Nat \ {0} /\ Lengths \subseteq 1..Day /\ UnlockDelay \in Nat \ {0}
  /\ Lockout \in Nat /\ Grace \in Nat /\ Ahead \in Nat
  /\ MaxTime \in Nat /\ MaxPlans \in Nat /\ MaxFaults \in Nat
  /\ \A s \in Shapes : s.days \subseteq 0..6 /\ s.at \in 0..(Day - 1) /\ s.len \in 1..Day
  /\ \A c \in SleepConfigs : /\ c.enabled \in BOOLEAN /\ c.days \subseteq 0..6
                             /\ c.sleep \in 0..(Day - 1) /\ c.wake \in 0..(Day - 1)

VARIABLES
  now, up,
  session,                   \* the session in memory
  plans,                     \* daemon.schedules
  rules,                     \* daemon.recurring_schedules
  sleep,                     \* the sleep schedule in memory
  lock, sleepFile,           \* session.lock and sleep_schedule.json
  picked,                    \* what the watchdog is about to start, or Nothing
  seen,                      \* the watchdog has found nothing to start since time last passed
  early, forgotten,          \* occurrences of sleep stopped early; those by a restart (history)
  raced,                     \* sleep edited while an occurrence was about to start (history)
  promoted,                  \* a queued edit of the sleep schedule took effect (history)
  masked,                    \* a rule was compared with sleep while it skipped a run (history)
  crashes, failures

history == <<early, forgotten, raced, promoted, masked>>
vars == <<now, up, session, plans, rules, sleep, lock, sleepFile, picked, seen, history,
          crashes, failures>>

Never == -1
NoConfig == [enabled |-> FALSE, days |-> {}, sleep |-> 0, wake |-> 0]
Configs == SleepConfigs \cup {NoConfig}

NoSession == [kind |-> "none", by |-> "none", end |-> 0, occ |-> Never, unlock |-> Never]
Nothing == [by |-> "none", len |-> 0, end |-> 0, occ |-> Never]
NoShape == [days |-> {}, at |-> 0, len |-> 1]
NoRule == [on |-> FALSE, shape |-> NoShape, skip |-> Never, triggered |-> Never]

NoSleep == [config |-> NoConfig, stopped |-> {}, queued |-> FALSE, pending |-> NoConfig,
            applyAt |-> 0]

-----------------------------------------------------------------------------
(* Times *)

Date(t) == t \div Day

\* _intervals_overlap; intervals that touch do not overlap.
Overlap(from, to, start, end) == from < end /\ start < to

\* _interval_for_date: the wake time is that of the next day unless it is later than the start.
SleepLen(c) == IF c.wake > c.sleep THEN c.wake - c.sleep ELSE c.wake - c.sleep + Day

\* The starts of the occurrences of a sleep schedule on the given dates.
SleepStarts(c, dates) ==
  IF c.enabled THEN {d * Day + c.sleep : d \in {d \in dates : d % 7 \in c.days}} ELSE {}

\* active_occurrence
SleepNow(c) ==
  {s \in SleepStarts(c, {Date(now), Date(now) - 1}) : s <= now /\ now < s + SleepLen(c)}

\* conflicts_interval
SleepConflicts(c, from, to) ==
  \E s \in SleepStarts(c, (Date(from) - 1)..(Date(from) + 8)) :
    Overlap(s, s + SleepLen(c), from, to)

\* The run of a rule on a date.
RunStart(r, date) == date * Day + r.shape.at
RunEnd(r, date) == RunStart(r, date) + r.shape.len
Runs(r, dates) == {d \in dates : d % 7 \in r.shape.days /\ d # r.skip}

\* Mutant: a run that starts after midnight is overlooked.
RuleConflictsToday(r, from, to) ==
  /\ r.on
  /\ \E d \in Runs(r, (Date(from) - 1)..Date(from)) :
       Overlap(RunStart(r, d), RunEnd(r, d), from, to)

\* _recurring_overlaps_interval
RuleConflicts(r, from, to) ==
  /\ r.on
  /\ \E d \in Runs(r, (Date(from) - 1)..Date(to)) :
       Overlap(RunStart(r, d), RunEnd(r, d), from, to)

\* _recurring_rules_overlap, over some week, in which the rules skip nothing.
RulesConflict(r, q) ==
  \E d \in Runs([r EXCEPT !.skip = Never], 7..14) :
    RuleConflicts([q EXCEPT !.skip = Never], RunStart(r, d), RunEnd(r, d))

\* recurring_conflict_message, for the rule r with the given id.
RuleIsFree(id, r) ==
  r.on => /\ \A other \in Ids \ {id} : rules[other].on => ~RulesConflict(r, rules[other])
          /\ \A p \in plans : ~RuleConflicts(r, p.start, p.end)
          /\ \A s \in SleepStarts(sleep.config, (Date(now) - 1)..(Date(now) + 8)) :
               ~RuleConflicts(r, s, s + SleepLen(sleep.config))

\* _conflict_message, for a sleep schedule.
SleepIsFree(c) ==
  /\ session.kind = "regular" => ~SleepConflicts(c, now, session.end)
  /\ \A p \in plans : ~SleepConflicts(c, p.start, p.end)
  /\ \A id \in Ids : \A s \in SleepStarts(c, (Date(now) - 1)..(Date(now) + 8)) :
       ~RuleConflicts(rules[id], s, s + SleepLen(c))

\* _next_recurring_run, over the eight days it looks at.
NextRuns(r) == {RunStart(r, d) : d \in Runs(r, Date(now)..(Date(now) + 7))} \cap {t \in Int : t > now}

-----------------------------------------------------------------------------
(* Files.  A command that cannot save what it is asked for answers with an error and *)
(* changes nothing; those steps are left out.                                        *)

Fail == crashes + failures < MaxFaults /\ failures' = failures + 1

\* The document _persist_session_lock writes.
Snapshot == [session |-> session', plans |-> plans', rules |-> rules']

\* _persist_session_lock, whose callers go on when it fails.
Save == \/ lock' = Snapshot /\ UNCHANGED failures
        \/ Fail /\ UNCHANGED lock

-----------------------------------------------------------------------------
(* The sleep schedule *)

\* Mutant: a queued edit waits for the session it was queued in to reach its end.
PendingDueAwake(s) == s.queued /\ now >= s.applyAt /\ session.kind = "sleep"

PendingDue(s) == s.queued /\ now >= s.applyAt

\* promote_pending_if_due: the occurrences stopped early are carried over.
Promoted(s) ==
  IF PendingDue(s)
  THEN [NoSleep EXCEPT !.config = s.pending, !.stopped = s.stopped]
  ELSE s

\* start_if_due
SleepDue(s) == IF session.kind = "none" THEN SleepNow(s.config) \ s.stopped ELSE {}

\* Mutant: an edit takes effect at once.
SaveSleepAtOnce(c) ==
  /\ up /\ SleepIsFree(c)
  /\ sleep' = [NoSleep EXCEPT !.config = c, !.stopped = sleep.stopped]
  /\ sleepFile' = sleep'
  /\ UNCHANGED <<now, up, session, plans, rules, lock, picked, seen, history, crashes, failures>>

\* cmd_save_sleep_schedule: queued until its wake time while an occurrence is on.
SaveSleep(c) ==
  /\ up /\ SleepIsFree(c)
  /\ sleep' = IF session.kind = "sleep"
              THEN [sleep EXCEPT !.queued = TRUE, !.pending = c, !.applyAt = session.end]
              ELSE [NoSleep EXCEPT !.config = c, !.stopped = sleep.stopped]
  /\ sleepFile' = sleep'
  /\ raced' = (raced \/ picked.by = "sleep")
  /\ masked' = (masked \/ \E id \in Ids : c.enabled /\ rules[id].on /\ rules[id].skip # Never)
  /\ UNCHANGED <<now, up, session, plans, rules, lock, picked, seen, early, forgotten, promoted,
                 crashes, failures>>

-----------------------------------------------------------------------------
(* Commands about schedules and rules *)

\* _start_session with a time: against the sleep schedule, the session, the other
\* schedules and the rules.
Schedule(start, len) ==
  LET plan == [start |-> start, end |-> start + len, len |-> len] IN
  /\ up /\ start > now /\ Cardinality(plans) < MaxPlans
  /\ ~SleepConflicts(sleep.config, start, plan.end)
  /\ session.kind = "none" \/ start >= session.end
  /\ \A p \in plans : ~Overlap(start, plan.end, p.start, p.end)
  /\ \A id \in Ids : ~RuleConflicts(rules[id], start, plan.end)
  /\ plans' = plans \cup {plan}
  /\ UNCHANGED <<session, rules>> /\ lock' = Snapshot
  /\ UNCHANGED <<now, up, sleep, sleepFile, picked, seen, history, crashes,
                 failures>>

\* cmd_cancel_schedule
Cancel(plan) ==
  /\ up /\ plan \in plans /\ plan.start - now > Lockout
  /\ plans' = plans \ {plan}
  /\ UNCHANGED <<session, rules>> /\ Save
  /\ UNCHANGED <<now, up, sleep, sleepFile, picked, seen, history, crashes>>

\* cmd_add_recurring_schedule
AddRule(id, shape) ==
  LET r == [on |-> TRUE, shape |-> shape, skip |-> Never, triggered |-> Never] IN
  /\ up /\ rules[id] = NoRule /\ RuleIsFree(id, r)
  /\ rules' = [rules EXCEPT ![id] = r]
  /\ UNCHANGED <<session, plans>> /\ Save
  /\ UNCHANGED <<now, up, sleep, sleepFile, picked, seen, history, crashes>>

\* Mutant: a run may be skipped at any time.
PauseLockedForPauses(r, new) ==
  /\ r.on /\ ~new.on
  /\ \E t \in NextRuns(r) : t - now <= Lockout

\* _recurring_pause_is_locked
PauseLocked(r, new) ==
  /\ r.on
  /\ ~new.on \/ (new.skip # Never /\ new.skip # r.skip)
  /\ \E t \in NextRuns(r) : t - now <= Lockout

\* cmd_update_recurring_schedule, by which a rule is also paused, resumed and skipped.
UpdateRule(id, new) ==
  /\ up /\ rules[id] # NoRule /\ new # rules[id] /\ new.triggered = rules[id].triggered
  /\ ~PauseLocked(rules[id], new) /\ RuleIsFree(id, new)
  /\ rules' = [rules EXCEPT ![id] = new]
  /\ masked' = (masked \/ (/\ sleep.config.enabled /\ new.on /\ new.skip # Never
                           /\ ~rules[id].on \/ new.shape # rules[id].shape))
  /\ UNCHANGED <<session, plans>> /\ Save
  /\ UNCHANGED <<now, up, sleep, sleepFile, picked, seen, early, forgotten, raced, promoted,
                 crashes>>

\* cmd_remove_recurring_schedule
RemoveRule(id) ==
  /\ up /\ rules[id] # NoRule
  /\ rules' = [rules EXCEPT ![id] = NoRule]
  /\ UNCHANGED <<session, plans>> /\ Save
  /\ UNCHANGED <<now, up, sleep, sleepFile, picked, seen, history, crashes>>

-----------------------------------------------------------------------------
(* Sessions *)

Regular(by, len) ==
  [kind |-> "regular", by |-> by, end |-> now + len, occ |-> Never, unlock |-> Never]

\* _start_session by hand; nothing is said of schedules and rules.
StartNow(len) ==
  /\ up /\ session.kind = "none" /\ ~SleepConflicts(sleep.config, now, now + len)
  /\ session' = Regular("hand", len)
  /\ UNCHANGED <<plans, rules>>
  /\ lock' = Snapshot
  /\ UNCHANGED <<now, up, sleep, sleepFile, picked, seen, history, crashes, failures>>

\* _start_session merging into a session.
Merge(len) ==
  /\ up /\ session.kind = "regular" /\ ~SleepConflicts(sleep.config, now, now + len)
  /\ now + len > session.end
  /\ session' = [session EXCEPT !.end = now + len, !.by = "hand"]
  /\ UNCHANGED <<plans, rules>>
  /\ lock' = Snapshot
  /\ UNCHANGED <<now, up, sleep, sleepFile, picked, seen, history, crashes, failures>>

\* _request_stop
RequestStop ==
  /\ up /\ session.kind # "none" /\ session.unlock = Never
  /\ session' = [session EXCEPT !.unlock = now + UnlockDelay]
  /\ UNCHANGED <<plans, rules>>
  /\ lock' = Snapshot
  /\ UNCHANGED <<now, up, sleep, sleepFile, picked, seen, history, crashes, failures>>

-----------------------------------------------------------------------------
(* The watchdog *)

RunDue(r) ==
  /\ r.on /\ Date(now) % 7 \in r.shape.days /\ r.triggered # Date(now)
  /\ RunStart(r, Date(now)) <= now /\ now <= RunStart(r, Date(now)) + Grace

\* Rules whose due run is to be skipped have it behind them.
Skipping(r) == RunDue(r) /\ r.skip = Date(now)
SkipDone ==
  [id \in Ids |-> IF Skipping(rules[id])
                  THEN [rules[id] EXCEPT !.skip = Never, !.triggered = Date(now)]
                  ELSE rules[id]]

RulesDue == {id \in Ids : RunDue(rules[id]) /\ ~Skipping(rules[id])}

\* Plans whose end has passed are dropped.
Current == {p \in plans : now < p.end}
PlansDue == {p \in Current : p.start <= now}

\* What is due and sleep, in the order in which the watchdog looks: the sleep schedule, ...
PickSleep(s) ==
  /\ \E occ \in SleepDue(s) :
       picked' = [by |-> "sleep", len |-> SleepLen(s.config), end |-> occ + SleepLen(s.config),
                  occ |-> occ]
  /\ UNCHANGED <<plans, rules, lock, seen, failures>>

\* ... a rule, whose run is then behind it, ...
PickRule(s) ==
  /\ SleepDue(s) = {}
  /\ \E id \in RulesDue :
       /\ rules' = [SkipDone EXCEPT ![id].triggered = Date(now)]
       /\ picked' = [Nothing EXCEPT !.by = "rule", !.len = rules[id].shape.len]
  /\ UNCHANGED <<session, plans>> /\ Save
  /\ UNCHANGED seen

\* ... a plan, which is then gone from the list.
PickPlan(s) ==
  /\ SleepDue(s) = {} /\ RulesDue = {}
  /\ \E p \in PlansDue :
       plans' = Current \ {p} /\ picked' = [Nothing EXCEPT !.by = "plan", !.len = p.len]
  /\ rules' = SkipDone /\ UNCHANGED session /\ Save
  /\ UNCHANGED seen

PickNothing(s) ==
  /\ SleepDue(s) = {} /\ RulesDue = {} /\ PlansDue = {}
  /\ plans' = Current /\ rules' = SkipDone /\ UNCHANGED <<session, picked>>
  /\ IF SkipDone # rules THEN Save ELSE UNCHANGED <<lock, failures>>
  /\ seen' = TRUE

\* watchdog_tick, as long as it holds the lock for the first time.  When a queued edit
\* cannot be saved the tick ends.
Watch ==
  /\ up /\ picked = Nothing
  /\ \/ /\ sleep' = Promoted(sleep)
        /\ sleepFile' = IF PendingDue(sleep) THEN sleep' ELSE sleepFile
        /\ promoted' = (promoted \/ PendingDue(sleep))
        /\ PickSleep(sleep') \/ PickRule(sleep') \/ PickPlan(sleep') \/ PickNothing(sleep')
     \/ /\ PendingDue(sleep) /\ Fail
        /\ UNCHANGED <<sleep, sleepFile, promoted, plans, rules, lock, picked, seen>>
  /\ UNCHANGED <<now, up, session, early, forgotten, raced, masked, crashes>>

\* _start_session for the watchdog: refused while a session is on, and inside sleep.
Refused ==
  \/ session.kind # "none"
  \/ picked.by # "sleep" /\ SleepConflicts(sleep.config, now, now + picked.len)

\* _handle_scheduled_start.  When the session cannot be saved there is none.
StartPicked ==
  /\ up /\ picked # Nothing /\ picked' = Nothing
  /\ UNCHANGED <<plans, rules>>
  /\ IF Refused THEN UNCHANGED <<session, lock, failures>>
     ELSE \/ /\ session' = IF picked.by = "sleep"
                           THEN [kind |-> "sleep", by |-> "sleep", end |-> picked.end,
                                 occ |-> picked.occ, unlock |-> Never]
                           ELSE Regular(picked.by, picked.len)
             /\ lock' = Snapshot
             /\ UNCHANGED failures
          \/ Fail /\ UNCHANGED <<session, lock>>
  /\ UNCHANGED <<now, up, sleep, sleepFile, seen, history, crashes>>

\* Mutant: what the session was is left behind.
EndedMarked == [session EXCEPT !.kind = "none"]

\* The session once it is over.
Ended == NoSession

SessionOver ==
  session.kind # "none" /\ (session.end <= now \/ (session.unlock # Never /\ session.unlock <= now))

StoppedEarly == session.kind = "sleep" /\ session.unlock # Never /\ now < session.end

\* The sleep schedule once the session is over: suppress_current_occurrence or, at its wake
\* time, promote_pending_if_due.
SleptOut ==
  IF StoppedEarly THEN [sleep EXCEPT !.stopped = @ \cup {session.occ}]
  ELSE IF session.kind = "sleep" THEN Promoted(sleep) ELSE sleep

\* Mutant: the occurrence is only remembered.
SleepSavedNever(new) == sleepFile

\* Its file once it is saved, which it is when it changes.
SleepSaved(new) == IF new # sleep THEN new ELSE sleepFile

\* _check_session_expiry and _cleanup_session, in a tick that had nothing to start.  When
\* the sleep schedule cannot be saved, a stopped occurrence is remembered all the same, and
\* a queued edit keeps the session from being cleaned up.
Expire ==
  /\ up /\ seen /\ SessionOver /\ picked = Nothing
  /\ session' = Ended /\ UNCHANGED <<plans, rules>>
  /\ \/ sleep' = SleptOut /\ sleepFile' = SleepSaved(SleptOut) /\ Save
     \/ /\ SleptOut # sleep /\ Fail /\ UNCHANGED sleepFile
        /\ IF StoppedEarly THEN sleep' = SleptOut /\ lock' = Snapshot
                           ELSE UNCHANGED <<sleep, lock>>
  /\ early' = IF StoppedEarly THEN early \cup {session.occ} ELSE early
  /\ promoted' = (promoted \/ sleep'.config # sleep.config)
  /\ seen' = FALSE
  /\ UNCHANGED <<now, up, picked, forgotten, raced, masked, crashes>>

-----------------------------------------------------------------------------
(* Down and up again *)

Crash ==
  /\ up /\ crashes + failures < MaxFaults /\ crashes' = crashes + 1
  /\ up' = FALSE /\ picked' = Nothing /\ seen' = FALSE
  /\ session' = NoSession /\ plans' = {} /\ rules' = [id \in Ids |-> NoRule] /\ sleep' = NoSleep
  /\ UNCHANGED <<now, lock, sleepFile, history, failures>>

\* _validate_restored_sleep_session
Acceptable(saved, config) ==
  saved.kind = "sleep" =>
    /\ now < saved.end
    /\ saved.occ \in SleepStarts(config, {Date(saved.occ)})
    /\ saved.end = saved.occ + SleepLen(config)

\* _restore_session takes a rule for a new one, which has not been triggered.
RestoredRule(r) == [r EXCEPT !.triggered = Never]

\* SleepScheduleManager.load and _restore_session.  A session that is over or whose unlock
\* request has matured is cleaned up, before its occurrence is known.
Boot ==
  /\ ~up /\ up' = TRUE
  /\ sleep' = Promoted(sleepFile) /\ sleepFile' = sleep'
  /\ promoted' = (promoted \/ PendingDue(sleepFile))
  /\ Acceptable(lock.session, sleep'.config)
  /\ plans' = {p \in lock.plans : now < p.end}
  /\ rules' = [id \in Ids |-> RestoredRule(lock.rules[id])]
  /\ LET saved == lock.session
         matured == saved.unlock # Never /\ saved.unlock <= now
         over == saved.kind # "none" /\ (saved.end <= now \/ matured)
     IN /\ session' = IF over THEN NoSession ELSE saved
        /\ early' = IF over /\ saved.kind = "sleep" THEN early \cup {saved.occ} ELSE early
        /\ forgotten' = IF over /\ saved.kind = "sleep" THEN forgotten \cup {saved.occ}
                        ELSE forgotten
        /\ IF over \/ (saved.kind = "none" /\ plans' # {}) THEN Save
           ELSE UNCHANGED <<lock, failures>>
  /\ UNCHANGED <<now, picked, seen, raced, masked, crashes>>

-----------------------------------------------------------------------------

\* Time only passes after the watchdog has found nothing to do, unless the daemon is down.
Tick ==
  /\ now < MaxTime /\ now' = now + 1
  /\ up => seen /\ picked = Nothing /\ ~SessionOver
  /\ seen' = FALSE
  /\ UNCHANGED <<up, session, plans, rules, sleep, lock, sleepFile, picked, history, crashes,
                 failures>>

Init ==
  /\ now = Day /\ up = TRUE /\ session = NoSession /\ plans = {}
  /\ rules = [id \in Ids |-> NoRule] /\ sleep = NoSleep /\ sleepFile = NoSleep
  /\ lock = [session |-> NoSession, plans |-> {}, rules |-> rules]
  /\ picked = Nothing /\ seen = FALSE
  /\ early = {} /\ forgotten = {} /\ raced = FALSE /\ promoted = FALSE
  /\ masked = FALSE
  /\ crashes = 0 /\ failures = 0

RuleRecords ==
  [on : BOOLEAN, shape : Shapes, skip : Int, triggered : Int]

\* What rules are edited to; what is skipped is the next run.
Edits(r) ==
  LET next == {t \in NextRuns(r) : r.on /\ r.skip = Never /\ \A u \in NextRuns(r) : t <= u}
  IN [on : BOOLEAN, shape : Shapes, triggered : {r.triggered},
      skip : {Never, r.skip} \cup {Date(t) : t \in next}]

\* The commands of the interfaces.
Command ==
  \/ \E c \in Configs : SaveSleep(c)
  \/ \E ahead \in 1..Ahead, len \in Lengths : Schedule(now + ahead, len)
  \/ \E plan \in plans : Cancel(plan)
  \/ \E id \in Ids, shape \in Shapes : AddRule(id, shape)
  \/ \E id \in Ids : \/ RemoveRule(id)
                     \/ \E new \in Edits(rules[id]) : UpdateRule(id, new)
  \/ \E len \in Lengths : StartNow(len) \/ Merge(len)
  \/ RequestStop

Next == Command \/ Watch \/ StartPicked \/ Expire \/ Crash \/ Boot \/ Tick

Spec == Init /\ [][Next]_vars

\* The watchdog loops, and launchd starts the daemon again.
FairSpec ==
  Spec /\ WF_vars(Watch) /\ WF_vars(StartPicked) /\ WF_vars(Expire) /\ WF_vars(Boot)

-----------------------------------------------------------------------------
(* Properties *)

\* Occurrences of sleep are told by when they start, plans by what they are.
Sessions ==
  {NoSession}
  \cup [kind : {"regular"}, by : {"hand", "plan", "rule"}, end : Nat, occ : {Never},
        unlock : {Never} \cup Nat]
  \cup [kind : {"sleep"}, by : {"sleep"}, end : Nat, occ : Int, unlock : {Never} \cup Nat]

Plans == [start : Nat, end : Nat, len : Lengths]

SleepStates ==
  [config : Configs, stopped : SUBSET Int, queued : BOOLEAN, pending : Configs, applyAt : Nat]

Picks ==
  {Nothing}
  \cup [by : {"rule", "plan"}, len : Nat, end : {0}, occ : {Never}]
  \cup [by : {"sleep"}, len : Nat, end : Nat, occ : Int]

\* The type invariant.
TypeOK ==
  /\ now \in Nat /\ up \in BOOLEAN /\ seen \in BOOLEAN
  /\ session \in Sessions /\ plans \subseteq Plans
  /\ rules \in [Ids -> RuleRecords \cup {NoRule}]
  /\ sleep \in SleepStates /\ sleepFile \in SleepStates
  /\ lock \in [session : Sessions, plans : SUBSET Plans,
               rules : [Ids -> RuleRecords \cup {NoRule}]]
  /\ picked \in Picks
  /\ early \subseteq Int /\ forgotten \subseteq early
  /\ raced \in BOOLEAN /\ promoted \in BOOLEAN /\ masked \in BOOLEAN
  /\ crashes \in Nat /\ failures \in Nat

\* Of the plans that are accepted, the runs of rules that are to come and the times of sleep
\* no two overlap in the week ahead, whatever is scheduled, edited, skipped, paused and resumed
\* in which order, unless a crash followed a failed write.  For sleep there are two more
\* exceptions: a queued edit of it took effect; a rule was compared with it while a run of that
\* rule was to be skipped, which hides the same run of the weeks after.
NoDoubleBooking ==
  failures = 0 \/ crashes = 0 =>
    /\ \A p \in plans, q \in plans : p # q => ~Overlap(p.start, p.end, q.start, q.end)
    /\ \A id \in Ids :
         rules[id].on => \A d \in Runs(rules[id], Date(now)..(Date(now) + 7)) :
           RunStart(rules[id], d) > now =>
             \A p \in plans : ~Overlap(RunStart(rules[id], d), RunEnd(rules[id], d), p.start, p.end)
    /\ ~promoted =>
         \A s \in SleepStarts(sleep.config, (Date(now) - 1)..(Date(now) + 8)) :
           /\ \A p \in plans : ~Overlap(s, s + SleepLen(sleep.config), p.start, p.end)
           /\ ~masked => \A id \in Ids : rules[id].on =>
                \A d \in Runs(rules[id], Date(now)..(Date(now) + 7)) :
                  RunStart(rules[id], d) > now =>
                    ~Overlap(s, s + SleepLen(sleep.config), RunStart(rules[id], d),
                             RunEnd(rules[id], d))

\* From Lockout before its start on, no command takes back a plan, and none pauses or skips
\* the run of a rule that keeps its shape.
LockedIn ==
  [][ up /\ up' /\ now' = now =>
        /\ \A p \in plans : p.start \in (now + 1)..(now + Lockout) => p \in plans'
        /\ \A id \in Ids :
             rules[id].on /\ rules'[id].shape = rules[id].shape =>
               \A d \in Runs(rules[id], Date(now)..(Date(now) + 1)) :
                 RunStart(rules[id], d) \in (now + 1)..(now + Lockout) =>
                   rules'[id].on /\ rules'[id].skip # d ]_vars

\* An occurrence of sleep that was stopped early does not start again, not after edits of the
\* schedule nor after a failed write or a crash, unless there were both or the stop took effect
\* at a restart.
StaysStopped ==
  session.kind = "sleep" => session.occ \notin early \/ session.occ \in forgotten
                              \/ (failures > 0 /\ crashes > 0)

\* Until it wakes, a session of sleep in the lock file is one that a restart accepts, which
\* compares it with the sleep schedule in the other file; unless the schedule was edited
\* between the watchdog's picking and starting it, or a write failed.
Restorable ==
  LET saved == lock.session
      file == IF PendingDue(sleepFile) THEN sleepFile.pending ELSE sleepFile.config
  IN saved.kind = "sleep" /\ now < saved.end =>
       Acceptable(saved, file) \/ raced \/ failures > 0

\* A queued edit of the sleep schedule is applied once the occurrence it waits for is over, or
\* replaced, also when the session was stopped early and whatever the watchdog finds to
\* start, unless the daemon goes down first.
EditsApply == sleep.queued /\ now >= sleep.applyAt ~> ~sleep.queued \/ ~up

=============================================================================
