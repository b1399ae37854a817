---------------------------- MODULE FocusSession ----------------------------
(***************************************************************************)
(* The life of a regular focus session in the daemon: starting, merging,   *)
(* the delayed unlock, prayer suspension, pomodoro phases, the watchdog,   *)
(* session.lock on disk, crashes and restarts.                             *)
(*                                                                         *)
(* Handlers run under the daemon's lock, so each is one action.  A tick of *)
(* the watchdog takes the lock twice, so its two halves are actions of     *)
(* their own.  One clock stands for the wall clock and the                 *)
(* continuous clock (steps of the wall clock are not modelled).  Time      *)
(* starts at 1 and 0 is "not set", as 0.0 and None are in the code.        *)
(* Sleep sessions and schedules are other modules' subject; what a session *)
(* blocks is reduced to whether its block is installed.                    *)
(***************************************************************************)
EXTENDS Integers

CONSTANTS
  Durations,            \* lengths a client asks for
  FocusLen, BreakLen,   \* the pomodoro phases
  DoneLen,              \* the two-second pause between phases
  Cycles,               \* pomodoro rounds
  UnlockDelay,          \* DELAYED_UNLOCK_S
  KeepLock,             \* schedules exist, so the lock file outlives the session
  Types,                \* session types in use: "standard" (and rescue), "pomodoro"
  PrayerLen,            \* length of a prayer window
  Horizon,              \* latest deadline a client asks for (bound)
  MaxTime,              \* the clock stops here (bound)
  MaxCrashes, MaxPrayers, MaxFailures,   \* how often each may happen (bounds)
  Prompt                \* the watchdog runs between any two units of time

ASSUME ConstantsAssumption ==
  /\ Durations \subseteq Nat \ {0}
  /\ FocusLen \in Nat \ {0} /\ BreakLen \in Nat \ {0} /\ DoneLen \in Nat \ {0}
  /\ Cycles \in Nat \ {0}
  /\ UnlockDelay \in Nat \ {0}
  /\ PrayerLen \in Nat \ {0}
  /\ KeepLock \in BOOLEAN /\ Prompt \in BOOLEAN
  /\ Types \subseteq {"standard", "pomodoro"}
  /\ Horizon \in Nat /\ MaxTime \in Nat
  /\ MaxCrashes \in Nat /\ MaxPrayers \in Nat /\ MaxFailures \in Nat

VARIABLES
  now,                          \* the clock
  windowEnd,                    \* end of the current prayer window
  up,                           \* the daemon runs
  mem,                          \* its memory
  lock,                         \* session.lock
  crashes, prayers, failures    \* how often each happened

vars == <<now, windowEnd, up, mem, lock, crashes, prayers, failures>>

Phases == {"focus", "break", "done", "none"}

Memory ==
  [active : BOOLEAN, type : {"standard", "pomodoro"},
   expiry : Nat, end : Nat,                  \* session_expiry, _mono_session_end
   unlockAt : Nat, unlockEnd : Nat,          \* pending_unlock_at, _mono_unlock_end
   phase : Phases, next : Phases,            \* pomo_phase, pomo_next_phase
   phaseExpiry : Nat, phaseEnd : Nat,        \* pomo_phase_expiry, _mono_pomo_phase_end
   cycle : Nat,                              \* pomo_current_cycle
   prayer : BOOLEAN,                         \* prayer_ban_active
   suspended : BOOLEAN, left : Nat, phaseLeft : Nat,   \* prayer_suspension
   blocked : BOOLEAN]                        \* the session's block is installed

\* What session.lock says of the session.  deadline is last_persist_wall plus
\* total_duration_seconds - mono_elapsed: the end as the continuous clock saw it.
LockFile ==
  [kind : {"absent", "schedules", "session"}, type : {"standard", "pomodoro"},
   expiry : Nat, deadline : Nat, unlockAt : Nat,
   phase : Phases, phaseExpiry : Nat, cycle : Nat,
   suspended : BOOLEAN, left : Nat, phaseLeft : Nat]

Later(a, b) == IF a > b THEN a ELSE b
\* Mutant: the clamp at zero is forgotten.
UntilUnclamped(deadline, t) == deadline - t

Until(deadline, t) == Later(deadline - t, 0)

InWindow(t) == t < windowEnd       \* active_prayer_window(now) is not None

-----------------------------------------------------------------------------
(* Memory and disk *)

\* The state a daemon process starts from.
Fresh ==
  [active |-> FALSE, type |-> "standard", expiry |-> 0, end |-> 0,
   unlockAt |-> 0, unlockEnd |-> 0, phase |-> "focus", next |-> "none",
   phaseExpiry |-> 0, phaseEnd |-> 0, cycle |-> 0, prayer |-> FALSE,
   suspended |-> FALSE, left |-> 0, phaseLeft |-> 0, blocked |-> FALSE]

EmptyLock(kind) ==
  [kind |-> kind, type |-> "standard", expiry |-> 0, deadline |-> 0, unlockAt |-> 0,
   phase |-> "focus", phaseExpiry |-> 0, cycle |-> 0,
   suspended |-> FALSE, left |-> 0, phaseLeft |-> 0]

\* What _persist_session_lock writes.  Pomodoro fields only go with a pomodoro,
\* and what is left of a phase only with a suspended one.
Snapshot(m) ==
  IF ~m.active THEN EmptyLock("schedules")
  ELSE [kind |-> "session", type |-> m.type, expiry |-> m.expiry, deadline |-> m.end,
        unlockAt |-> m.unlockAt,
        phase |-> IF m.type = "pomodoro" THEN m.phase ELSE "focus",
        phaseExpiry |-> IF m.type = "pomodoro" THEN m.phaseExpiry ELSE 0,
        cycle |-> IF m.type = "pomodoro" THEN m.cycle ELSE 0,
        suspended |-> m.suspended, left |-> m.left, phaseLeft |-> m.phaseLeft]

\* A write whose failure is logged and otherwise ignored.
Save(doc) ==
  \/ lock' = doc /\ UNCHANGED failures
  \/ failures < MaxFailures /\ failures' = failures + 1 /\ UNCHANGED lock

\* A write the handler answers for: on failure it rolls memory back.  The file
\* may have been replaced all the same, when only the sync of the directory failed.
Commit(m, rolledBack) ==
  \/ mem' = m /\ lock' = Snapshot(m) /\ UNCHANGED failures
  \/ /\ failures < MaxFailures /\ failures' = failures + 1
     /\ mem' = rolledBack
     /\ lock' \in {lock, Snapshot(m)}

\* _cleanup_session.  pomo_next_phase is the one field it does not reset, and the
\* file goes away unless schedules live in it.
Cleanup(m) == [Fresh EXCEPT !.next = m.next, !.prayer = m.prayer]

SaveCleanup == IF KeepLock THEN Save(EmptyLock("schedules"))
               ELSE lock' = EmptyLock("absent") /\ UNCHANGED failures

-----------------------------------------------------------------------------
(* Prayer takes over and gives back *)

\* _suspend_session_for_prayer: the remainders are captured and the advertised
\* deadlines are re-stated from them.
Suspend(m, t) ==
  IF ~m.active \/ m.suspended THEN m
  ELSE LET pomo == m.type = "pomodoro" IN
       [m EXCEPT !.suspended = TRUE,
                 !.left = Until(m.end, t),
                 !.phaseLeft = IF pomo THEN Until(m.phaseEnd, t) ELSE 0,
                 !.expiry = t + Until(m.end, t),
                 !.phaseExpiry = IF pomo THEN t + Until(m.phaseEnd, t) ELSE m.phaseExpiry]

\* Mutant: the session is not shifted by the length of the window.
ResumeUnshifted(m, t) ==
  [m EXCEPT !.suspended = FALSE, !.left = 0, !.phaseLeft = 0]

\* _resume_session_after_prayer
Resume(m, t) ==
  IF ~m.suspended \/ ~m.active THEN [m EXCEPT !.suspended = FALSE, !.left = 0, !.phaseLeft = 0]
  ELSE LET pomo == m.type = "pomodoro" IN
       [m EXCEPT !.end = t + m.left, !.expiry = t + m.left,
                 !.phaseEnd = IF pomo THEN t + m.phaseLeft ELSE m.phaseEnd,
                 !.phaseExpiry = IF pomo THEN t + m.phaseLeft ELSE m.phaseExpiry,
                 !.suspended = FALSE, !.left = 0, !.phaseLeft = 0]

-----------------------------------------------------------------------------
(* Pomodoro *)

PhaseLen(phase) == IF phase = "focus" THEN FocusLen ELSE BreakLen

InBreak(m) == m.phase = "break" \/ (m.phase = "done" /\ m.next = "break")

\* The phase that follows starts now, for len.
EnterPhase(m, phase, next, len, t) ==
  [m EXCEPT !.phase = phase, !.next = next, !.phaseExpiry = t + len, !.phaseEnd = t + len]

LastBreakEnds(m) == m.phase = "break" /\ m.cycle + 1 > Cycles

\* Mutant: the block is not restored when a break ends.
TransitionUnblocked(m, t) ==
  CASE m.phase = "focus" ->
         [EnterPhase(m, "done", "break", DoneLen, t) EXCEPT !.blocked = FALSE]
    [] m.phase = "break" /\ LastBreakEnds(m) -> Cleanup(m)
    [] m.phase = "break" /\ ~LastBreakEnds(m) ->
         [EnterPhase(m, "done", "focus", DoneLen, t) EXCEPT !.cycle = @ + 1]
    [] m.phase = "done" -> EnterPhase(m, m.next, "none", PhaseLen(m.next), t)
    [] OTHER -> m

\* _transition_pomodoro_phase.  A focus phase that ends lifts the block, a break
\* that ends restores it (unless a prayer window holds it up).  Leaving "done"
\* with no next phase recorded leads nowhere; that phase keeps the pause it came
\* from for its length, taken here as over.
Transition(m, t) ==
  CASE m.phase = "focus" ->
         [EnterPhase(m, "done", "break", DoneLen, t) EXCEPT !.blocked = FALSE]
    [] m.phase = "break" /\ LastBreakEnds(m) -> Cleanup(m)
    [] m.phase = "break" /\ ~LastBreakEnds(m) ->
         [EnterPhase(m, "done", "focus", DoneLen, t) EXCEPT
            !.cycle = m.cycle + 1, !.blocked = IF m.prayer THEN m.blocked ELSE TRUE]
    [] m.phase = "done" /\ m.next # "none" -> EnterPhase(m, m.next, "none", PhaseLen(m.next), t)
    [] m.phase = "done" /\ m.next = "none" -> EnterPhase(m, "none", "none", 0, t)
    [] OTHER -> m

\* Mutant: a transition is not saved.
SaveTransitionLate(m, after) ==
  IF LastBreakEnds(m) THEN SaveCleanup ELSE UNCHANGED <<lock, failures>>

\* The document the transition leaves on disk: none of its branches runs when
\* there is no phase, and the last break removes the session.
SaveTransition(m, after) ==
  CASE m.phase = "none" -> UNCHANGED <<lock, failures>>
    [] LastBreakEnds(m) -> SaveCleanup
    [] OTHER -> Save(Snapshot(after))

-----------------------------------------------------------------------------
(* Commands *)

\* The memory of a session of the given length that starts at t.
Started(m, type, len, t) ==
  LET pomo == type = "pomodoro"
      total == IF pomo THEN (FocusLen + BreakLen) * Cycles ELSE len
  IN [m EXCEPT !.active = TRUE, !.type = type, !.expiry = t + total, !.end = t + total,
               !.unlockAt = 0, !.unlockEnd = 0,
               !.phase = IF pomo THEN "focus" ELSE @,
               !.phaseExpiry = IF pomo THEN t + FocusLen ELSE @,
               !.phaseEnd = IF pomo THEN t + FocusLen ELSE @,
               !.cycle = IF pomo THEN 1 ELSE @,
               !.blocked = IF m.prayer THEN @ ELSE TRUE]

\* _rollback_failed_session_start
RolledBackStart(m) == [Fresh EXCEPT !.prayer = m.prayer]

\* _start_session when idle.  The first write must succeed; a session that starts
\* inside a prayer window is then suspended at once, with a second write that may not.
Start(type, len) ==
  /\ up /\ ~mem.active
  /\ LET begun == Started(mem, type, len, now)
         m == IF mem.prayer THEN Suspend(begun, now) ELSE begun
     IN /\ begun.expiry <= Horizon
        /\ \/ mem' = m /\ lock' = Snapshot(m) /\ UNCHANGED failures
           \/ /\ mem.prayer /\ failures < MaxFailures /\ failures' = failures + 1
              /\ mem' = m /\ lock' = Snapshot(begun)
           \/ /\ failures < MaxFailures /\ failures' = failures + 1
              /\ mem' = RolledBackStart(mem)
              /\ lock' \in {lock, Snapshot(begun)}
  /\ UNCHANGED <<now, windowEnd, up, crashes, prayers>>

\* Mutant: a merge moves the advertised deadline only.
MergedOnPaper(m, len, t) ==
  IF t + len > m.expiry THEN [m EXCEPT !.expiry = t + len] ELSE m

\* The merge branch of _start_session: a compatible request moves the deadline out,
\* never in.  When it names groups of a blacklist the block is applied afresh.
Merged(m, len, t) ==
  IF t + len > m.expiry THEN [m EXCEPT !.expiry = t + len, !.end = t + len] ELSE m

Merge(type, len, groups) ==
  /\ up /\ mem.active /\ mem.type = type
  /\ now + len <= Horizon
  /\ LET m == Merged(mem, len, now)
     IN Commit(IF groups /\ ~mem.prayer THEN [m EXCEPT !.blocked = TRUE] ELSE m, mem)
  /\ UNCHANGED <<now, windowEnd, up, crashes, prayers>>

\* _request_stop with the right passphrase: a request already waiting is not re-armed.
RequestStop ==
  /\ up /\ mem.active
  /\ ~(mem.unlockAt > 0 /\ mem.unlockEnd > now)
  /\ Commit([mem EXCEPT !.unlockAt = now + UnlockDelay, !.unlockEnd = now + UnlockDelay], mem)
  /\ UNCHANGED <<now, windowEnd, up, crashes, prayers>>

\* Mutant: a cancelled unlock stays on disk.
CancelStopUnsaved ==
  /\ up /\ mem.active /\ mem.unlockAt > 0
  /\ mem' = [mem EXCEPT !.unlockAt = 0, !.unlockEnd = 0]
  /\ UNCHANGED <<now, windowEnd, up, lock, crashes, prayers, failures>>

\* _cancel_stop
CancelStop ==
  /\ up /\ mem.active /\ mem.unlockAt > 0
  /\ Commit([mem EXCEPT !.unlockAt = 0, !.unlockEnd = 0], mem)
  /\ UNCHANGED <<now, windowEnd, up, crashes, prayers>>

TimerDone(m, t) == m.end > 0 /\ t >= m.end
UnlockDone(m, t) == m.unlockEnd > 0 /\ t >= m.unlockEnd

\* cmd_get_status ends a session the watchdog has not got round to ending; during
\* a prayer window it reports the window instead.
StatusPoll ==
  /\ up /\ mem.active /\ ~mem.prayer
  /\ TimerDone(mem, now)
  /\ mem' = Cleanup(mem) /\ SaveCleanup
  /\ UNCHANGED <<now, windowEnd, up, crashes, prayers>>

-----------------------------------------------------------------------------
(* The watchdog *)

\* Its first critical section: _check_prayer_blocks.  The end of a window always
\* re-applies the block of a session.
PrayerStarts ==
  /\ up /\ InWindow(now) /\ ~mem.prayer
  /\ LET m == Suspend([mem EXCEPT !.prayer = TRUE], now)
     IN /\ mem' = m
        /\ IF m.suspended THEN Save(Snapshot(m)) ELSE UNCHANGED <<lock, failures>>
  /\ UNCHANGED <<now, windowEnd, up, crashes, prayers>>

PrayerEnds ==
  /\ up /\ ~InWindow(now) /\ mem.prayer
  /\ LET m == [Resume([mem EXCEPT !.prayer = FALSE], now) EXCEPT !.blocked = mem.active]
     IN /\ mem' = m
        /\ IF mem.active /\ mem.suspended THEN Save(Snapshot(m)) ELSE UNCHANGED <<lock, failures>>
  /\ UNCHANGED <<now, windowEnd, up, crashes, prayers>>

\* Its second critical section, for a session that is not suspended: the session's
\* end, else the end of a phase, else (outside breaks) the tamper checks, which
\* re-install a missing block and a missing lock file.  Every 120th tick saves.
SessionEnds ==
  /\ up /\ mem.active /\ ~mem.suspended
  /\ TimerDone(mem, now) \/ UnlockDone(mem, now)
  /\ mem' = Cleanup(mem) /\ SaveCleanup
  /\ UNCHANGED <<now, windowEnd, up, crashes, prayers>>

PhaseDue(m, t) == m.type = "pomodoro" /\ m.phaseEnd > 0 /\ t >= m.phaseEnd

PhaseEnds ==
  /\ up /\ mem.active /\ ~mem.suspended
  /\ ~TimerDone(mem, now) /\ ~UnlockDone(mem, now)
  /\ PhaseDue(mem, now)
  /\ mem' = Transition(mem, now) /\ SaveTransition(mem, mem')
  /\ UNCHANGED <<now, windowEnd, up, crashes, prayers>>

TamperCheck ==
  /\ up /\ mem.active /\ ~mem.suspended
  /\ ~TimerDone(mem, now) /\ ~UnlockDone(mem, now) /\ ~PhaseDue(mem, now)
  /\ LET break == mem.type = "pomodoro" /\ InBreak(mem)
     IN /\ mem' = [mem EXCEPT !.blocked = @ \/ ~break]
        /\ \/ Save(Snapshot(mem))
           \/ (break \/ lock.kind # "absent") /\ UNCHANGED <<lock, failures>>
  /\ UNCHANGED <<now, windowEnd, up, crashes, prayers>>

-----------------------------------------------------------------------------
(* Crashes and restarts *)

\* The process stops; SIGTERM and SIGINT save nothing either.  The block it leaves
\* in the hosts file is as good as gone: the next process strips it before it looks
\* for a session to restore (_recover_stale_hosts_lock).
Crash ==
  /\ up /\ crashes < MaxCrashes
  /\ up' = FALSE /\ mem' = Fresh /\ crashes' = crashes + 1
  /\ UNCHANGED <<now, windowEnd, lock, prayers, failures>>

\* Mutant: the captured remainder of a suspended session is ignored.
RestoredByDeadline(f, t) ==
  [Fresh EXCEPT
     !.active = TRUE, !.type = f.type, !.expiry = f.expiry, !.end = Later(f.deadline, t),
     !.unlockAt = f.unlockAt, !.unlockEnd = f.unlockAt,
     !.phase = f.phase, !.cycle = f.cycle, !.phaseExpiry = f.phaseExpiry,
     !.phaseEnd = IF f.phaseExpiry > 0 THEN Later(f.phaseExpiry, t) ELSE 0,
     !.suspended = f.suspended, !.left = Until(f.deadline, t), !.phaseLeft = f.phaseLeft]

\* Mutant: the anchor of the continuous clock is not set again.
RestoredUnarmed(f, t) ==
  [Fresh EXCEPT
     !.active = TRUE, !.type = f.type, !.expiry = f.expiry,
     !.unlockAt = f.unlockAt, !.unlockEnd = f.unlockAt,
     !.phase = f.phase, !.cycle = f.cycle,
     !.suspended = f.suspended, !.left = f.left, !.phaseLeft = f.phaseLeft]

\* A suspended session is restored from its captured remainder, any other from the
\* earlier of its two deadlines.  pomo_next_phase is not on disk.
Restored(f, t) ==
  LET expiry == IF f.suspended THEN t + f.left ELSE f.expiry
      remaining == IF f.suspended THEN f.left
                   ELSE IF f.expiry < f.deadline THEN f.expiry - t ELSE Until(f.deadline, t)
      pomo == f.type = "pomodoro"
      phaseExpiry == IF f.suspended /\ pomo THEN t + f.phaseLeft ELSE f.phaseExpiry
  IN [Fresh EXCEPT
        !.active = TRUE, !.type = f.type, !.expiry = expiry, !.end = t + remaining,
        !.unlockAt = f.unlockAt, !.unlockEnd = f.unlockAt,
        !.phase = f.phase, !.cycle = f.cycle, !.phaseExpiry = phaseExpiry,
        !.phaseEnd = IF phaseExpiry > 0 THEN Later(phaseExpiry, t) ELSE 0,
        !.suspended = f.suspended, !.left = f.left, !.phaseLeft = f.phaseLeft]

LockExpired(f, t) ==
  \/ IF f.suspended THEN f.left = 0 ELSE f.expiry <= t
  \/ f.unlockAt > 0 /\ f.unlockAt <= t

\* Mutant: a suspension whose window has closed meanwhile is kept.
ReconciledNever(m, t) ==
  IF m.suspended /\ InWindow(t) THEN [m EXCEPT !.prayer = TRUE] ELSE m

\* restore_prayer_suspension
Reconciled(m, t) ==
  IF ~m.suspended THEN m
  ELSE IF InWindow(t) THEN [m EXCEPT !.prayer = TRUE]
  ELSE Resume(m, t)

\* _restore_session finds nothing to restore.
RestartIdle ==
  /\ ~up /\ up' = TRUE
  /\ lock.kind # "session"
  /\ UNCHANGED <<now, windowEnd, mem, lock, crashes, prayers, failures>>

\* The session, or its unlock delay, ran out while the daemon was down.
RestartExpired ==
  /\ ~up /\ up' = TRUE
  /\ lock.kind = "session" /\ LockExpired(lock, now)
  /\ SaveCleanup
  /\ UNCHANGED <<now, windowEnd, mem, crashes, prayers>>

\* Leaving the phase that ran out, after a resumption has saved itself (so that the
\* resumed session is on disk even if the transition's own write fails).
SaveLate(m, resumed) ==
  \/ ~(resumed /\ m.phase = "none") /\ SaveTransition(m, Transition(m, now))
  \/ resumed /\ m.phase = "none" /\ Save(Snapshot(m))
  \/ /\ resumed /\ m.phase # "none" /\ (LastBreakEnds(m) => KeepLock)
     /\ failures < MaxFailures /\ failures' = failures + 1
     /\ lock' = Snapshot(m)

\* Mutant: a restored session is not enforced.
RestartUnenforced ==
  /\ ~up /\ up' = TRUE
  /\ lock.kind = "session" /\ ~LockExpired(lock, now)
  /\ mem' = Reconciled(Restored(lock, now), now)
  /\ Save(Snapshot(mem'))
  /\ UNCHANGED <<now, windowEnd, crashes, prayers>>

\* A phase that ran out while the daemon was down is left once, and nothing else is
\* done; otherwise the block goes up, except in a break or a prayer window.
Restart ==
  /\ ~up /\ up' = TRUE
  /\ lock.kind = "session" /\ ~LockExpired(lock, now)
  /\ LET m == Reconciled(Restored(lock, now), now)
         late == m.type = "pomodoro" /\ m.phaseExpiry > 0 /\ m.phaseExpiry <= now
         resumed == lock.suspended /\ ~m.suspended
     IN IF late
        THEN mem' = Transition(m, now) /\ SaveLate(m, resumed)
        ELSE /\ mem' = [m EXCEPT !.blocked = ~m.prayer /\ m.phase # "break"]
             /\ IF resumed THEN Save(Snapshot(m)) ELSE UNCHANGED <<lock, failures>>
  /\ UNCHANGED <<now, windowEnd, crashes, prayers>>

-----------------------------------------------------------------------------
(* The world *)

PrayerOpens ==
  /\ prayers < MaxPrayers /\ ~InWindow(now)
  /\ prayers' = prayers + 1 /\ windowEnd' = now + PrayerLen
  /\ UNCHANGED <<now, up, mem, lock, crashes, failures>>

\* Somebody deletes session.lock under a running daemon (nothing watches the file
\* while the daemon is down).
LockDeleted ==
  /\ up
  /\ failures < MaxFailures /\ failures' = failures + 1
  /\ lock' = EmptyLock("absent")
  /\ UNCHANGED <<now, windowEnd, up, mem, crashes, prayers>>

Overdue ==
  \/ InWindow(now) # mem.prayer
  \/ mem.active /\ ~mem.suspended /\
     (TimerDone(mem, now) \/ UnlockDone(mem, now) \/ (PhaseDue(mem, now) /\ mem.phase # "none"))

\* With Prompt no unit of time passes over an overdue watchdog, nor is the daemon
\* left down for good.
Tick ==
  /\ now < MaxTime
  /\ Prompt => IF up THEN ~Overdue ELSE now < Horizon
  /\ now' = now + 1
  /\ UNCHANGED <<windowEnd, up, mem, lock, crashes, prayers, failures>>

Init ==
  /\ now = 1 /\ windowEnd = 0
  /\ up = TRUE /\ mem = Fresh
  /\ lock = EmptyLock(IF KeepLock THEN "schedules" ELSE "absent")
  /\ crashes = 0 /\ prayers = 0 /\ failures = 0

Command ==
  \/ \E type \in Types, len \in Durations :
       Start(type, len) \/ \E groups \in BOOLEAN : Merge(type, len, groups)
  \/ RequestStop \/ CancelStop \/ StatusPoll

Watchdog == PrayerStarts \/ PrayerEnds \/ SessionEnds \/ PhaseEnds \/ TamperCheck

Boot == RestartIdle \/ RestartExpired \/ Restart

Next == Command \/ Watchdog \/ Crash \/ Boot \/ PrayerOpens \/ LockDeleted \/ Tick

Spec == Init /\ [][Next]_vars

\* The watchdog thread loops every quarter of a second, launchd restarts the daemon
\* and time passes.  Nobody has to send a command.
FairSpec ==
  /\ Spec
  /\ WF_vars(Tick) /\ WF_vars(Boot)
  /\ WF_vars(PrayerStarts) /\ WF_vars(PrayerEnds)
  /\ WF_vars(SessionEnds) /\ WF_vars(PhaseEnds)

-----------------------------------------------------------------------------
(* Properties *)

\* The type invariant.
TypeOK ==
  /\ now \in Nat \ {0} /\ windowEnd \in Nat
  /\ up \in BOOLEAN
  /\ mem \in Memory
  /\ lock \in LockFile
  /\ crashes \in Nat /\ prayers \in Nat /\ failures \in Nat

\* The two clocks of the session never come apart, through merges, prayer windows
\* and restarts: what the user is shown (session_expiry, pending_unlock_at) is what
\* the watchdog acts on, in memory and on disk.  (A session that a prayer window
\* caught past its end, before the watchdog did, is shown to end at once.)
DeadlinesAgree ==
  /\ mem.expiry = mem.end \/ (mem.suspended /\ mem.left = 0)
  /\ mem.unlockAt = mem.unlockEnd
  /\ ~lock.suspended => lock.expiry = lock.deadline

\* A prayer window and the suspension of the session go together: no session runs
\* down inside a window the daemon knows of, and none stays frozen outside one.
\* Starts, merges, unlocks, restarts and both ends of the window all take part.
PrayerFreezes ==
  /\ mem.active => mem.suspended = mem.prayer
  /\ ~mem.active => ~mem.suspended

\* What session.lock would bring back is the commitment in memory.
Durable ==
  up => /\ (lock.kind = "session") = mem.active
        /\ mem.active =>
             /\ lock.suspended = mem.suspended
             /\ IF mem.suspended THEN lock.left = mem.left ELSE lock.expiry = mem.expiry
             /\ lock.unlockAt = mem.unlockAt
             /\ lock.type = mem.type
             /\ lock.cycle = IF mem.type = "pomodoro" THEN mem.cycle ELSE 0

\* Unless a write failed (or the file was deleted), every handler that changes the
\* commitment has put it on disk before it lets go of the lock, so a crash at any
\* moment loses nothing.
DurableUnlessFailed == failures = 0 => Durable

\* Sites stay blocked for the whole of a standard session, in every focus phase and in
\* the pause that leads to one: through merges, phase changes, prayer windows that come
\* and go, crashes and restarts.
FocusIsBlocked ==
  /\ up /\ mem.active /\ ~mem.prayer
  /\ mem.type = "pomodoro" => "focus" \in {mem.phase, mem.next}
  => mem.blocked

\* A pomodoro is always in a phase that will lead to the next one.
PhaseLeadsOn ==
  mem.active /\ mem.type = "pomodoro" =>
     \/ mem.phase \in {"focus", "break"}
     \/ mem.phase = "done" /\ mem.next \in {"focus", "break"}

-----------------------------------------------------------------------------
(* The session in memory, or while the daemon is down the one on disk, keeps the *)
(* promise of the module Commitment.                                             *)

On == IF up THEN mem.active ELSE lock.kind = "session"

Owed ==
  IF up THEN IF mem.suspended THEN mem.left ELSE Until(mem.end, now)
  ELSE IF lock.suspended THEN lock.left ELSE Until(lock.expiry, now)

UnlockIn ==
  LET at == IF up THEN mem.unlockEnd ELSE lock.unlockAt
  IN IF at = 0 THEN -1 ELSE Until(at, now)

Rounds ==
  IF up THEN IF mem.active /\ mem.type = "pomodoro" THEN Cycles + 1 - mem.cycle ELSE 0
  ELSE IF lock.kind = "session" /\ lock.type = "pomodoro" THEN Cycles + 1 - lock.cycle ELSE 0

Paused == IF up THEN mem.suspended ELSE lock.suspended

Promise == INSTANCE Commitment WITH
             Delay <- UnlockDelay, on <- On, owed <- Owed, unlock <- UnlockIn,
             rounds <- Rounds, paused <- Paused, durable <- Durable

\* A session is shortened by nothing but time spent in it, and ends for no reason
\* but a paid debt, a matured unlock or its last round, across crashes, restarts,
\* failed writes and prayer windows.
KeepsPromise == Promise!Spec

\* Every session ends.
SessionIsLeft == mem.active ~> ~mem.active
=============================================================================
