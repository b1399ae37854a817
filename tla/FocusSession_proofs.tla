------------------------ MODULE FocusSession_proofs ------------------------
(***************************************************************************)
(* Proofs about FocusSession, for every value of its constants: the types, *)
(* the agreement of the two clocks, the freezing of sessions by prayer     *)
(* windows, durability, and that focus is blocked.  Everything rests on    *)
(* one inductive invariant, IInv, made of a condition on a memory (MemOK)  *)
(* and one on a lock file (LockOK), so that what the operators on them do  *)
(* is shown once, in a lemma each.                                         *)
(***************************************************************************)
EXTENDS FocusSession, TLAPS

(* What holds of a memory, whoever is about to use it.  Frozen is kept apart:    *)
(* it is not true halfway through Start and PrayerStarts.                        *)
MemOK(m) ==
  /\ m \in Memory
  /\ m.expiry = m.end \/ (m.suspended /\ m.left = 0)
  /\ m.unlockAt = m.unlockEnd
  /\ m.active /\ m.type = "pomodoro" => m.cycle \in 1..Cycles
  /\ ~m.active => ~m.suspended /\ m.end = 0 /\ m.unlockEnd = 0

Frozen(m) == m.active => m.suspended = m.prayer

LockOK(f) ==
  /\ f \in LockFile
  /\ ~f.suspended => f.expiry = f.deadline
  /\ f.kind # "session" => ~f.suspended /\ f.expiry = 0 /\ f.unlockAt = 0
  /\ f.kind = "session" /\ f.type = "pomodoro" => f.cycle \in 1..Cycles
  /\ f.type = "standard" => f.cycle = 0

IInv ==
  /\ now \in Nat \ {0} /\ windowEnd \in Nat
  /\ up \in BOOLEAN
  /\ crashes \in Nat /\ prayers \in Nat /\ failures \in Nat
  /\ MemOK(mem) /\ Frozen(mem)
  /\ LockOK(lock)
  /\ ~up => mem = Fresh

-----------------------------------------------------------------------------
(* What the operators on a memory or a lock file do *)

LEMMA UntilNat ==
  ASSUME NEW a \in Nat, NEW t \in Nat
  PROVE  /\ Until(a, t) \in Nat
         /\ a <= t => Until(a, t) = 0
         /\ a >= t => Until(a, t) = a - t
BY DEF Until, Later

LEMMA FreshOK == MemOK(Fresh) /\ Frozen(Fresh)
BY DEF MemOK, Frozen, Fresh, Memory, Phases

LEMMA EmptyLockOK ==
  ASSUME NEW kind \in {"absent", "schedules"}
  PROVE  LockOK(EmptyLock(kind))
BY DEF LockOK, EmptyLock, LockFile, Phases

LEMMA SnapshotOK ==
  ASSUME NEW m, MemOK(m)
  PROVE  LockOK(Snapshot(m))
<1>1. CASE ~m.active
  BY <1>1, EmptyLockOK DEF Snapshot
<1>2. CASE m.active
  BY <1>2 DEF Snapshot, LockOK, LockFile, MemOK, Memory, Phases
<1> QED BY <1>1, <1>2 DEF MemOK, Memory

LEMMA CleanupOK ==
  ASSUME NEW m, MemOK(m)
  PROVE  MemOK(Cleanup(m)) /\ ~Cleanup(m).active
BY DEF MemOK, Memory, Cleanup, Fresh, Phases

\* Suspending freezes a session that was not, and leaves another memory alone.
LEMMA SuspendOK ==
  ASSUME NEW m, MemOK(m), NEW t \in Nat
  PROVE  /\ MemOK(Suspend(m, t))
         /\ Suspend(m, t).suspended = m.active
         /\ Suspend(m, t).prayer = m.prayer
         /\ Suspend(m, t).active = m.active
<1>1. CASE ~m.active \/ m.suspended
  BY <1>1 DEF Suspend, MemOK, Memory
<1>2. CASE m.active /\ ~m.suspended
  <2> DEFINE left == Until(m.end, t)
             expiry == t + left
             phaseLeft == IF m.type = "pomodoro" THEN Until(m.phaseEnd, t) ELSE 0
             phaseExpiry == IF m.type = "pomodoro" THEN t + Until(m.phaseEnd, t)
                            ELSE m.phaseExpiry
             s == [m EXCEPT !.suspended = TRUE, !.left = left, !.phaseLeft = phaseLeft,
                            !.expiry = expiry, !.phaseExpiry = phaseExpiry]
  <2>1. m \in Memory
    BY DEF MemOK
  <2>2. m.end \in Nat /\ m.phaseEnd \in Nat /\ m.phaseExpiry \in Nat
    BY <2>1 DEF Memory
  <2>3. /\ left \in Nat /\ expiry \in Nat /\ phaseLeft \in Nat /\ phaseExpiry \in Nat
        /\ m.end <= t => left = 0
        /\ m.end >= t => expiry = m.end
    <3>1. /\ Until(m.end, t) \in Nat /\ Until(m.phaseEnd, t) \in Nat
          /\ m.end <= t => Until(m.end, t) = 0
          /\ m.end >= t => Until(m.end, t) = m.end - t
      BY <2>2, UntilNat
    <3> QED BY <2>2, <3>1
  <2>4. Suspend(m, t) = s
    BY <1>2, Zenon DEF Suspend
  <2> HIDE DEF left, expiry, phaseLeft, phaseExpiry
  <2>5. s \in Memory
    BY <2>1, <2>3, Zenon DEF Memory
  <2>6. MemOK(s)
    BY <1>2, <2>2, <2>3, <2>5 DEF MemOK, Memory
  <2> QED BY <1>2, <2>1, <2>4, <2>6 DEF Memory
<1> QED BY <1>1, <1>2 DEF MemOK, Memory
\* Resuming thaws a session with what was left of it.
LEMMA ResumeOK ==
  ASSUME NEW m, MemOK(m), NEW t \in Nat
  PROVE  /\ MemOK(Resume(m, t))
         /\ ~Resume(m, t).suspended
         /\ Resume(m, t).prayer = m.prayer
         /\ Resume(m, t).active = m.active
         /\ m.active /\ m.suspended => Resume(m, t).end = t + m.left
         /\ ~m.suspended => Resume(m, t).end = m.end /\ Resume(m, t).expiry = m.expiry
<1> m \in Memory
  BY DEF MemOK
<1>1. CASE ~m.suspended \/ ~m.active
  <2> DEFINE s == [m EXCEPT !.suspended = FALSE, !.left = 0, !.phaseLeft = 0]
  <2>1. Resume(m, t) = s
    BY <1>1, Zenon DEF Resume
  <2>2. s \in Memory
    BY Zenon DEF Memory
  <2>3. MemOK(s)
    BY <1>1, <2>2 DEF MemOK, Memory
  <2> QED BY <1>1, <2>1, <2>3 DEF Memory
<1>2. CASE m.suspended /\ m.active
  <2> DEFINE end == t + m.left
             phaseEnd == IF m.type = "pomodoro" THEN t + m.phaseLeft ELSE m.phaseEnd
             phaseExpiry == IF m.type = "pomodoro" THEN t + m.phaseLeft ELSE m.phaseExpiry
             s == [m EXCEPT !.end = end, !.expiry = end,
                            !.phaseEnd = phaseEnd, !.phaseExpiry = phaseExpiry,
                            !.suspended = FALSE, !.left = 0, !.phaseLeft = 0]
  <2>1. Resume(m, t) = s
    BY <1>2, Zenon DEF Resume
  <2>2. end \in Nat /\ phaseEnd \in Nat /\ phaseExpiry \in Nat
    BY DEF Memory
  <2> HIDE DEF phaseEnd, phaseExpiry
  <2>3. s \in Memory
    <3> HIDE DEF end
    <3> QED BY <2>2, Zenon DEF Memory
  <2>4. MemOK(s)
    BY <1>2, <2>2, <2>3 DEF MemOK, Memory
  <2> QED BY <1>2, <2>1, <2>4 DEF Memory
<1> QED BY <1>1, <1>2 DEF Memory

LEMMA TimesNat ==
  ASSUME NEW a \in Nat, NEW b \in Nat \ {0}, NEW c \in Nat \ {0}
  PROVE  (a + b) * c \in Nat \ {0}
OBVIOUS

LEMMA StartedOK ==
  ASSUME NEW m, MemOK(m), ~m.active, NEW type \in Types, NEW len \in Durations,
         NEW t \in Nat
  PROVE  /\ MemOK(Started(m, type, len, t))
         /\ Started(m, type, len, t).active
         /\ ~Started(m, type, len, t).suspended
         /\ Started(m, type, len, t).prayer = m.prayer
         /\ Started(m, type, len, t).unlockEnd = 0
         /\ Started(m, type, len, t).end > t
<1> DEFINE pomo == type = "pomodoro"
           total == IF pomo THEN (FocusLen + BreakLen) * Cycles ELSE len
           end == t + total
           phase == IF pomo THEN "focus" ELSE m.phase
           phaseExpiry == IF pomo THEN t + FocusLen ELSE m.phaseExpiry
           phaseEnd == IF pomo THEN t + FocusLen ELSE m.phaseEnd
           cycle == IF pomo THEN 1 ELSE m.cycle
           blocked == IF m.prayer THEN m.blocked ELSE TRUE
           r == [m EXCEPT !.active = TRUE, !.type = type, !.expiry = end, !.end = end,
                          !.unlockAt = 0, !.unlockEnd = 0]
           s == [m EXCEPT !.active = TRUE, !.type = type, !.expiry = end, !.end = end,
                          !.unlockAt = 0, !.unlockEnd = 0, !.phase = phase,
                          !.phaseExpiry = phaseExpiry, !.phaseEnd = phaseEnd,
                          !.cycle = cycle, !.blocked = blocked]
<1>1. m \in Memory
  BY DEF MemOK
<1>2. Started(m, type, len, t) = s
  BY Zenon DEF Started
<1>3. total \in Nat \ {0}
  BY ConstantsAssumption, TimesNat
<1>4. /\ end \in Nat /\ end > t
      /\ phase \in Phases /\ phaseExpiry \in Nat /\ phaseEnd \in Nat
      /\ cycle \in Nat
      /\ pomo => cycle \in 1..Cycles
  <2> HIDE DEF total
  <2> QED BY <1>1, <1>3, ConstantsAssumption DEF Memory, Phases
<1>5. blocked \in BOOLEAN /\ type \in {"standard", "pomodoro"}
  <2>1. m.blocked \in BOOLEAN
    BY <1>1, Zenon DEF Memory
  <2>2. blocked \in BOOLEAN
    BY <2>1, Zenon
  <2> QED BY <2>2, ConstantsAssumption
<1> HIDE DEF end, phase, phaseExpiry, phaseEnd, cycle, blocked, pomo, total
<1>6. s \in Memory
  <2>1. r \in Memory
    BY <1>1, <1>4, <1>5, Zenon DEF Memory
  <2>2. s = [r EXCEPT !.phase = phase, !.phaseExpiry = phaseExpiry, !.phaseEnd = phaseEnd,
                      !.cycle = cycle, !.blocked = blocked]
    BY Zenon
  <2> HIDE DEF r, s
  <2> QED BY <1>4, <1>5, <2>1, <2>2, Zenon DEF Memory
<1>7. s.active /\ s.suspended = m.suspended /\ s.prayer = m.prayer /\ s.type = type
      /\ s.cycle = cycle /\ s.expiry = end /\ s.end = end /\ s.unlockAt = 0 /\ s.unlockEnd = 0
  BY <1>1, ZenonT(60) DEF Memory
<1>8. ~m.suspended
  BY DEF MemOK
<1> HIDE DEF s
<1>9. MemOK(s)
  BY <1>4, <1>6, <1>7, <1>8 DEF MemOK, pomo
<1> QED BY <1>2, <1>4, <1>7, <1>8, <1>9

\* s is m but for its phase and its block.
SamePact(s, m) ==
  /\ s.active = m.active /\ s.type = m.type
  /\ s.end = m.end /\ s.unlockEnd = m.unlockEnd
  /\ s.suspended = m.suspended /\ s.left = m.left /\ s.prayer = m.prayer

LEMMA BlockOK ==
  ASSUME NEW m, MemOK(m), NEW b \in BOOLEAN
  PROVE  LET s == [m EXCEPT !.blocked = b] IN
         /\ MemOK(s) /\ SamePact(s, m) /\ s.cycle = m.cycle
         /\ Snapshot(s) = Snapshot(m)
<1> DEFINE s == [m EXCEPT !.blocked = b]
<1>1. m \in Memory
  BY DEF MemOK
<1>2. s \in Memory
  BY <1>1, Zenon DEF Memory
<1>3. /\ SamePact(s, m) /\ s.cycle = m.cycle
      /\ s.expiry = m.expiry /\ s.unlockAt = m.unlockAt
      /\ s.phase = m.phase /\ s.phaseExpiry = m.phaseExpiry /\ s.phaseLeft = m.phaseLeft
  BY <1>1, Zenon DEF Memory, SamePact
<1> HIDE DEF s
<1>4. MemOK(s)
  BY <1>2, <1>3 DEF MemOK, SamePact
<1>5. Snapshot(s) = Snapshot(m)
  BY <1>3, Zenon DEF Snapshot, SamePact
<1> QED BY <1>3, <1>4, <1>5 DEF s

LEMMA UnlockOK ==
  ASSUME NEW m, MemOK(m), m.active, NEW at \in Nat
  PROVE  LET s == [m EXCEPT !.unlockAt = at, !.unlockEnd = at] IN
         /\ MemOK(s)
         /\ s.active /\ s.suspended = m.suspended /\ s.prayer = m.prayer
         /\ s.end = m.end /\ s.left = m.left /\ s.unlockEnd = at
         /\ s.type = m.type /\ s.cycle = m.cycle
<1> DEFINE s == [m EXCEPT !.unlockAt = at, !.unlockEnd = at]
<1>1. m \in Memory
  BY DEF MemOK
<1>2. s \in Memory
  BY <1>1, Zenon DEF Memory
<1> QED BY <1>1, <1>2 DEF MemOK, Memory

LEMMA MergedOK ==
  ASSUME NEW m, MemOK(m), m.active, NEW len \in Durations, NEW t \in Nat
  PROVE  LET s == Merged(m, len, t) IN
         /\ MemOK(s)
         /\ s.active /\ s.suspended = m.suspended /\ s.prayer = m.prayer
         /\ s.left = m.left /\ s.unlockEnd = m.unlockEnd
         /\ s.type = m.type /\ s.cycle = m.cycle
         /\ s.end = m.end \/ (s.end = t + len /\ t + len > m.expiry)
<1> DEFINE end == t + len
           s == [m EXCEPT !.expiry = end, !.end = end]
<1>1. m \in Memory /\ end \in Nat
  BY ConstantsAssumption DEF MemOK
<1>2. s \in Memory
  <2> HIDE DEF end
  <2> QED BY <1>1, Zenon DEF Memory
<1>3. MemOK(s)
  BY <1>1, <1>2 DEF MemOK, Memory
<1> QED BY <1>1, <1>3 DEF Merged, Memory

LEMMA EnterPhaseOK ==
  ASSUME NEW m, MemOK(m), NEW phase \in Phases, NEW next \in Phases, NEW len \in Nat,
         NEW t \in Nat
  PROVE  LET s == EnterPhase(m, phase, next, len, t) IN
         MemOK(s) /\ SamePact(s, m) /\ s.cycle = m.cycle /\ s.blocked = m.blocked
<1> DEFINE end == t + len
           s == [m EXCEPT !.phase = phase, !.next = next, !.phaseExpiry = end, !.phaseEnd = end]
<1>1. m \in Memory /\ end \in Nat
  BY DEF MemOK
<1>2. s \in Memory
  <2> HIDE DEF end
  <2> QED BY <1>1, Zenon DEF Memory
<1>3. EnterPhase(m, phase, next, len, t) = s
  BY Zenon DEF EnterPhase
<1> HIDE DEF end
<1>4. /\ s.expiry = m.expiry /\ s.unlockAt = m.unlockAt
      /\ SamePact(s, m) /\ s.cycle = m.cycle /\ s.blocked = m.blocked
  BY <1>1, Zenon DEF Memory, SamePact
<1> HIDE DEF s
<1>5. MemOK(s)
  BY <1>2, <1>4 DEF MemOK, SamePact
<1> QED BY <1>3, <1>4, <1>5

\* A transition moves to another phase, to the next round, or ends the session
\* after its last round.
LEMMA TransitionOK ==
  ASSUME NEW m, MemOK(m), m.active, m.type = "pomodoro", NEW t \in Nat
  PROVE  LET s == Transition(m, t) IN
         /\ MemOK(s)
         /\ LastBreakEnds(m) => s = Cleanup(m) /\ m.cycle = Cycles
         /\ ~LastBreakEnds(m) => SamePact(s, m)
         /\ ~LastBreakEnds(m) => s.cycle = m.cycle \/ (s.cycle = m.cycle + 1 /\ s.cycle <= Cycles)
         /\ m.phase = "none" => s = m
<1>1. m \in Memory /\ m.phase \in Phases /\ m.next \in Phases /\ m.cycle \in 1..Cycles
  BY DEF MemOK, Memory
<1>2. DoneLen \in Nat /\ "focus" \in Phases /\ "break" \in Phases /\ "done" \in Phases
  BY ConstantsAssumption DEF Phases
<1>0. PhaseLen(m.next) \in Nat /\ Cycles \in Nat /\ "none" \in Phases
  BY ConstantsAssumption DEF PhaseLen, Phases
<1>3. CASE m.phase = "focus"
  <2> DEFINE e == EnterPhase(m, "done", "break", DoneLen, t)
  <2>1. Transition(m, t) = [e EXCEPT !.blocked = FALSE]
    BY <1>3, Zenon DEF Transition
  <2>2. MemOK(e) /\ SamePact(e, m) /\ e.cycle = m.cycle
    BY <1>2, EnterPhaseOK
  <2> HIDE DEF e
  <2>3. /\ MemOK(Transition(m, t)) /\ SamePact(Transition(m, t), e)
        /\ Transition(m, t).cycle = e.cycle
    BY <2>1, <2>2, BlockOK
  <2> HIDE DEF Transition
  <2>4. SamePact(Transition(m, t), m) /\ Transition(m, t).cycle = m.cycle
    BY <2>2, <2>3 DEF SamePact
  <2> QED BY <1>3, <2>3, <2>4 DEF LastBreakEnds
<1>4. CASE LastBreakEnds(m)
  <2>1. Transition(m, t) = Cleanup(m) /\ m.phase # "none"
    BY <1>4 DEF Transition, LastBreakEnds
  <2>2. m.cycle = Cycles
    BY <1>0, <1>1, <1>4 DEF LastBreakEnds
  <2> QED BY <1>4, <2>1, <2>2, CleanupOK
<1>5. CASE m.phase = "break" /\ ~LastBreakEnds(m)
  <2> DEFINE e == EnterPhase(m, "done", "focus", DoneLen, t)
             b == IF e.prayer THEN e.blocked ELSE TRUE
             cycle == e.cycle + 1
             c == [e EXCEPT !.cycle = cycle]
             s == Transition(m, t)
  <2>1. s = [c EXCEPT !.blocked = b]
    <3>1. e.prayer = m.prayer /\ e.blocked = m.blocked /\ e.cycle = m.cycle
      BY <1>2, EnterPhaseOK DEF SamePact
    <3>2. s = [e EXCEPT !.cycle = m.cycle + 1,
                        !.blocked = IF m.prayer THEN m.blocked ELSE TRUE]
      BY <1>5, Zenon DEF Transition
    <3> HIDE DEF e
    <3> QED BY <3>1, <3>2, Zenon
  <2>2. MemOK(e) /\ SamePact(e, m) /\ e.cycle = m.cycle
    BY <1>2, EnterPhaseOK
  <2> HIDE DEF e
  <2>3. e \in Memory /\ cycle \in Nat /\ cycle \in 1..Cycles
    <3>1. ~(m.cycle + 1 > Cycles)
      BY <1>5 DEF LastBreakEnds
    <3> QED BY <1>0, <1>1, <2>2, <3>1 DEF MemOK
  <2>4. b \in BOOLEAN
    BY <2>3, Zenon DEF Memory
  <2> HIDE DEF b, cycle
  <2>5. c \in Memory
    BY <2>3, Zenon DEF Memory
  <2>6. SamePact(c, e) /\ c.cycle = cycle /\ c.expiry = e.expiry /\ c.unlockAt = e.unlockAt
    BY <2>3, Zenon DEF Memory, SamePact
  <2> HIDE DEF c
  <2>7. MemOK(c)
    BY <2>2, <2>3, <2>5, <2>6 DEF MemOK, SamePact
  <2>8. MemOK(s) /\ SamePact(s, c) /\ s.cycle = c.cycle
    BY <2>1, <2>4, <2>7, BlockOK
  <2>9. cycle = m.cycle + 1
    BY <2>2 DEF cycle
  <2> HIDE DEF s
  <2>10. SamePact(s, m) /\ s.cycle = m.cycle + 1 /\ s.cycle <= Cycles
    BY <1>0, <2>2, <2>3, <2>6, <2>8, <2>9 DEF SamePact
  <2> QED BY <1>5, <2>8, <2>10 DEF s
<1>6. CASE m.phase = "done"
  <2>1. PICK next \in Phases, len \in Nat : Transition(m, t) = EnterPhase(m, next, "none", len, t)
    BY <1>0, <1>1, <1>2, <1>6 DEF Transition, LastBreakEnds
  <2> QED BY <1>0, <1>2, <1>6, <2>1, EnterPhaseOK DEF LastBreakEnds
<1>7. CASE m.phase = "none"
  BY <1>7 DEF Transition, LastBreakEnds, SamePact
<1> QED BY <1>1, <1>3, <1>4, <1>5, <1>6, <1>7 DEF Phases, LastBreakEnds

\* What is restored from a lock file owes what the file says, and is not in prayer yet.
LEMMA RestoredOK ==
  ASSUME NEW f, LockOK(f), f.kind = "session", NEW t \in Nat, ~LockExpired(f, t)
  PROVE  LET r == Restored(f, t) IN
         /\ MemOK(r) /\ r.active /\ ~r.prayer
         /\ r.type = f.type /\ r.cycle = f.cycle
         /\ r.suspended = f.suspended /\ r.left = f.left
         /\ r.unlockEnd = f.unlockAt
         /\ r.expiry = IF f.suspended THEN t + f.left ELSE f.expiry
         /\ r.end = r.expiry
<1> DEFINE expiry == IF f.suspended THEN t + f.left ELSE f.expiry
           remaining == IF f.suspended THEN f.left
                        ELSE IF f.expiry < f.deadline THEN f.expiry - t ELSE Until(f.deadline, t)
           phaseExpiry == IF f.suspended /\ f.type = "pomodoro" THEN t + f.phaseLeft
                          ELSE f.phaseExpiry
           phaseEnd == IF phaseExpiry > 0 THEN Later(phaseExpiry, t) ELSE 0
           end == t + remaining
           q == [Fresh EXCEPT
                   !.active = TRUE, !.type = f.type, !.expiry = expiry, !.end = end,
                   !.unlockAt = f.unlockAt, !.unlockEnd = f.unlockAt]
           r == [Fresh EXCEPT
                   !.active = TRUE, !.type = f.type, !.expiry = expiry, !.end = end,
                   !.unlockAt = f.unlockAt, !.unlockEnd = f.unlockAt,
                   !.phase = f.phase, !.cycle = f.cycle, !.phaseExpiry = phaseExpiry,
                   !.phaseEnd = phaseEnd,
                   !.suspended = f.suspended, !.left = f.left, !.phaseLeft = f.phaseLeft]
<1>1. Restored(f, t) = r
  BY Zenon DEF Restored
<1>2. f \in LockFile
  BY DEF LockOK
<1>3. /\ f.type \in {"standard", "pomodoro"} /\ f.unlockAt \in Nat /\ f.phase \in Phases
      /\ f.cycle \in Nat /\ f.suspended \in BOOLEAN /\ f.left \in Nat /\ f.phaseLeft \in Nat
      /\ f.expiry \in Nat /\ f.deadline \in Nat /\ f.phaseExpiry \in Nat
  BY <1>2, Zenon DEF LockFile
<1>4. expiry \in Nat /\ phaseExpiry \in Nat
  BY <1>3
<1>5. phaseEnd \in Nat
  <2> HIDE DEF phaseExpiry
  <2> QED BY <1>4 DEF Later
<1>6. end = expiry
  <2>1. CASE f.suspended
    BY <2>1
  <2>2. CASE ~f.suspended
    <3>1. f.expiry = f.deadline /\ f.expiry > t
      BY <1>3, <2>2 DEF LockOK, LockExpired
    <3>2. Until(f.deadline, t) = f.expiry - t
      BY <1>3, <3>1, UntilNat
    <3> QED BY <1>3, <2>2, <3>1, <3>2
  <2> QED BY <2>1, <2>2
<1> HIDE DEF end, expiry, phaseExpiry, phaseEnd, remaining
<1>7. Fresh \in Memory
  BY FreshOK DEF MemOK
<1>8. r \in Memory
  <2>1. q \in Memory
    BY <1>3, <1>4, <1>6, <1>7, Zenon DEF Memory
  <2>2. r = [q EXCEPT !.phase = f.phase, !.cycle = f.cycle, !.phaseExpiry = phaseExpiry,
                      !.phaseEnd = phaseEnd,
                      !.suspended = f.suspended, !.left = f.left, !.phaseLeft = f.phaseLeft]
    BY Zenon
  <2> HIDE DEF q, r
  <2> QED BY <1>3, <1>4, <1>5, <2>1, <2>2, ZenonT(60) DEF Memory
<1>9. /\ r.active /\ ~r.prayer /\ r.type = f.type /\ r.cycle = f.cycle
      /\ r.suspended = f.suspended /\ r.left = f.left
      /\ r.unlockEnd = f.unlockAt /\ r.unlockAt = f.unlockAt
      /\ r.expiry = expiry /\ r.end = end
  BY DEF Fresh
<1> HIDE DEF r
<1>10. f.type = "pomodoro" => f.cycle \in 1..Cycles
  BY DEF LockOK
<1>11. MemOK(r)
  BY <1>6, <1>8, <1>9, <1>10 DEF MemOK
<1> QED BY <1>1, <1>6, <1>9, <1>11 DEF expiry

\* Reconciling a restored session with the prayer calendar leaves its debt alone.
LEMMA ReconciledOK ==
  ASSUME NEW m, MemOK(m), m.active, ~m.prayer, NEW t \in Nat, m.end = m.expiry,
         m.suspended => m.end = t + m.left
  PROVE  LET r == Reconciled(m, t) IN
         /\ MemOK(r) /\ Frozen(r) /\ r.active
         /\ r.type = m.type /\ r.cycle = m.cycle /\ r.unlockEnd = m.unlockEnd
         /\ r.end = m.end /\ r.expiry = m.expiry
         /\ r.suspended => m.suspended /\ r.left = m.left
<1>0. m \in Memory
  BY DEF MemOK
<1>1. CASE ~m.suspended
  <2>1. Reconciled(m, t) = m
    BY <1>1 DEF Reconciled
  <2>2. m.suspended = m.prayer
    BY <1>0, <1>1, Zenon DEF Memory
  <2> QED BY <1>1, <2>1, <2>2 DEF Frozen
<1>2. CASE m.suspended /\ InWindow(t)
  <2> DEFINE r == [m EXCEPT !.prayer = TRUE]
  <2>1. Reconciled(m, t) = r
    BY <1>2 DEF Reconciled
  <2>2. r \in Memory
    BY <1>0, Zenon DEF Memory
  <2>3. /\ r.prayer /\ r.suspended = m.suspended /\ r.active = m.active
        /\ r.type = m.type /\ r.cycle = m.cycle /\ r.left = m.left
        /\ r.unlockEnd = m.unlockEnd /\ r.unlockAt = m.unlockAt
        /\ r.end = m.end /\ r.expiry = m.expiry
    BY <1>0, Zenon DEF Memory
  <2> HIDE DEF r
  <2>4. MemOK(r)
    BY <2>2, <2>3 DEF MemOK
  <2>5. r.suspended = r.prayer
    BY <1>2, <2>2, <2>3, Zenon DEF Memory
  <2> QED BY <2>1, <2>3, <2>4, <2>5 DEF Frozen
<1>3. CASE m.suspended /\ ~InWindow(t)
  <2> DEFINE r == Resume(m, t)
  <2>1. Reconciled(m, t) = r
    BY <1>3 DEF Reconciled
  <2>2. /\ MemOK(r) /\ ~r.suspended /\ r.prayer = m.prayer /\ r.active = m.active
        /\ r.end = t + m.left
    BY <1>3, ResumeOK
  <2>3. r.type = m.type /\ r.cycle = m.cycle /\ r.unlockEnd = m.unlockEnd
    BY <1>0, <1>3 DEF Resume, Memory
  <2> HIDE DEF r
  <2>4. r \in Memory
    BY <2>2 DEF MemOK
  <2>5. r.suspended = r.prayer
    BY <2>2, <2>4, Zenon DEF Memory
  <2>6. r.expiry = r.end /\ r.end = m.end
    BY <1>3, <2>2 DEF MemOK
  <2> QED BY <2>1, <2>2, <2>3, <2>5, <2>6 DEF Frozen
<1> QED BY <1>1, <1>2, <1>3

-----------------------------------------------------------------------------
(* The invariant *)

LEMMA SaveOK ==
  ASSUME LockOK(lock), failures \in Nat, NEW doc, LockOK(doc), Save(doc)
  PROVE  LockOK(lock') /\ failures' \in Nat
BY DEF Save

LEMMA SaveCleanupOK ==
  ASSUME LockOK(lock), failures \in Nat, SaveCleanup
  PROVE  LockOK(lock') /\ failures' \in Nat
<1>1. LockOK(EmptyLock("schedules")) /\ LockOK(EmptyLock("absent"))
  BY EmptyLockOK
<1>2. CASE KeepLock
  BY <1>1, <1>2, SaveOK DEF SaveCleanup
<1>3. CASE ~KeepLock
  BY <1>1, <1>3 DEF SaveCleanup
<1> QED BY <1>2, <1>3

LEMMA CommitOK ==
  ASSUME LockOK(lock), failures \in Nat, NEW m, MemOK(m), Frozen(m),
         NEW old, MemOK(old), Frozen(old), Commit(m, old)
  PROVE  /\ MemOK(mem') /\ Frozen(mem')
         /\ LockOK(lock') /\ failures' \in Nat
BY SnapshotOK DEF Commit

LEMMA InitIInv == Init => IInv
<1>1. LockOK(EmptyLock("schedules")) /\ LockOK(EmptyLock("absent"))
  BY EmptyLockOK
<1> QED BY <1>1, FreshOK DEF Init, IInv

\* The steps that change neither the clock, the window, up nor the counts of crashes
\* and prayers keep the invariant when the memory and the lock file stay sound.
LEMMA HandlerOK ==
  ASSUME IInv, up, UNCHANGED <<now, windowEnd, up, crashes, prayers>>,
         MemOK(mem'), Frozen(mem'), LockOK(lock'), failures' \in Nat
  PROVE  IInv'
BY DEF IInv

LEMMA StartIInv ==
  ASSUME IInv, NEW type \in Types, NEW len \in Durations, Start(type, len)
  PROVE  IInv'
<1> DEFINE begun == Started(mem, type, len, now)
           m == IF mem.prayer THEN Suspend(begun, now) ELSE begun
<1>1. /\ up /\ ~mem.active /\ MemOK(mem) /\ LockOK(lock) /\ now \in Nat /\ failures \in Nat
      /\ mem.prayer \in BOOLEAN
      /\ UNCHANGED <<now, windowEnd, up, crashes, prayers>>
  BY DEF IInv, Start, MemOK, Memory
<1>2. MemOK(begun) /\ begun.active /\ ~begun.suspended /\ begun.prayer = mem.prayer
  BY <1>1, StartedOK
<1>3. /\ \/ mem' = m /\ lock' = Snapshot(m) /\ UNCHANGED failures
         \/ /\ mem.prayer /\ failures < MaxFailures /\ failures' = failures + 1
            /\ mem' = m /\ lock' = Snapshot(begun)
         \/ /\ failures < MaxFailures /\ failures' = failures + 1
            /\ mem' = RolledBackStart(mem)
            /\ lock' \in {lock, Snapshot(begun)}
  BY DEF Start
<1>4. MemOK(m) /\ Frozen(m)
  <2>1. begun.prayer \in BOOLEAN /\ begun.suspended \in BOOLEAN
    BY <1>2 DEF MemOK, Memory
  <2> HIDE DEF begun
  <2>2. CASE mem.prayer
    BY <1>1, <1>2, <2>2, SuspendOK DEF Frozen
  <2>3. CASE ~mem.prayer
    BY <1>2, <2>1, <2>3 DEF Frozen
  <2> QED BY <1>1, <2>2, <2>3
<1>5. MemOK(RolledBackStart(mem)) /\ Frozen(RolledBackStart(mem))
  BY <1>1 DEF RolledBackStart, MemOK, Frozen, Memory, Fresh, Phases
<1> HIDE DEF begun, m
<1>6. /\ MemOK(mem') /\ Frozen(mem') /\ LockOK(lock') /\ failures' \in Nat
  BY <1>1, <1>2, <1>3, <1>4, <1>5, SnapshotOK
<1> QED BY <1>1, <1>6, HandlerOK

LEMMA MergeIInv ==
  ASSUME IInv, NEW type \in Types, NEW len \in Durations, NEW groups \in BOOLEAN,
         Merge(type, len, groups)
  PROVE  IInv'
<1> DEFINE s == Merged(mem, len, now)
           m == IF groups /\ ~mem.prayer THEN [s EXCEPT !.blocked = TRUE] ELSE s
<1>1. /\ up /\ mem.active /\ MemOK(mem) /\ Frozen(mem) /\ LockOK(lock)
      /\ now \in Nat /\ failures \in Nat
      /\ UNCHANGED <<now, windowEnd, up, crashes, prayers>>
  BY DEF IInv, Merge
<1>2. Commit(m, mem)
  BY DEF Merge
<1>3. MemOK(s) /\ s.suspended = mem.suspended /\ s.prayer = mem.prayer
  BY <1>1, MergedOK
<1>4. Frozen(s)
  BY <1>1, <1>3 DEF Frozen
<1> HIDE DEF s
<1>5. /\ MemOK([s EXCEPT !.blocked = TRUE])
      /\ SamePact([s EXCEPT !.blocked = TRUE], s)
  BY <1>3, BlockOK
<1>6. MemOK(m) /\ Frozen(m)
  BY <1>3, <1>4, <1>5 DEF Frozen, SamePact
<1> HIDE DEF m
<1> QED BY <1>1, <1>2, <1>6, CommitOK, HandlerOK

LEMMA StopIInv ==
  ASSUME IInv, RequestStop \/ CancelStop
  PROVE  IInv'
<1>1. /\ up /\ mem.active /\ MemOK(mem) /\ Frozen(mem) /\ LockOK(lock)
      /\ now \in Nat /\ failures \in Nat
      /\ UNCHANGED <<now, windowEnd, up, crashes, prayers>>
  BY DEF IInv, RequestStop, CancelStop
<1>2. PICK at \in Nat : Commit([mem EXCEPT !.unlockAt = at, !.unlockEnd = at], mem)
  <2>1. now + UnlockDelay \in Nat /\ 0 \in Nat
    BY <1>1, ConstantsAssumption
  <2> QED BY <2>1, Zenon DEF RequestStop, CancelStop
<1> DEFINE m == [mem EXCEPT !.unlockAt = at, !.unlockEnd = at]
<1>3. MemOK(m) /\ m.suspended = mem.suspended /\ m.prayer = mem.prayer
  BY <1>1, UnlockOK
<1> HIDE DEF m
<1>4. Frozen(m)
  BY <1>1, <1>3 DEF Frozen
<1>5. Commit(m, mem)
  BY <1>2 DEF m
<1> QED BY <1>1, <1>3, <1>4, <1>5, CommitOK, HandlerOK

LEMMA EndIInv ==
  ASSUME IInv, StatusPoll \/ SessionEnds
  PROVE  IInv'
<1>1. /\ up /\ MemOK(mem) /\ LockOK(lock) /\ failures \in Nat
      /\ mem' = Cleanup(mem) /\ SaveCleanup
      /\ UNCHANGED <<now, windowEnd, up, crashes, prayers>>
  BY DEF IInv, StatusPoll, SessionEnds
<1>2. MemOK(mem') /\ Frozen(mem')
  BY <1>1, CleanupOK DEF Frozen
<1>3. LockOK(lock') /\ failures' \in Nat
  BY <1>1, SaveCleanupOK
<1> QED BY <1>1, <1>2, <1>3, HandlerOK

\* Being told of the window, and of its end.
LEMMA PrayerFlagOK ==
  ASSUME NEW m, MemOK(m), NEW b \in BOOLEAN
  PROVE  LET s == [m EXCEPT !.prayer = b] IN
         /\ MemOK(s) /\ s.prayer = b
         /\ s.active = m.active /\ s.type = m.type /\ s.cycle = m.cycle
         /\ s.end = m.end /\ s.expiry = m.expiry /\ s.unlockEnd = m.unlockEnd
         /\ s.suspended = m.suspended /\ s.left = m.left
<1> DEFINE s == [m EXCEPT !.prayer = b]
<1>1. m \in Memory
  BY DEF MemOK
<1>2. s \in Memory
  BY <1>1, Zenon DEF Memory
<1>3. /\ s.active = m.active /\ s.suspended = m.suspended /\ s.type = m.type
      /\ s.cycle = m.cycle /\ s.left = m.left /\ s.prayer = b
      /\ s.unlockEnd = m.unlockEnd /\ s.unlockAt = m.unlockAt
      /\ s.end = m.end /\ s.expiry = m.expiry
  BY <1>1, Zenon DEF Memory
<1> HIDE DEF s
<1>4. MemOK(s)
  BY <1>2, <1>3 DEF MemOK
<1> QED BY <1>3, <1>4 DEF s

LEMMA PrayerStartsIInv ==
  ASSUME IInv, PrayerStarts
  PROVE  IInv'
<1> DEFINE p == [mem EXCEPT !.prayer = TRUE]
           m == Suspend(p, now)
<1>1. /\ up /\ MemOK(mem) /\ LockOK(lock) /\ failures \in Nat /\ now \in Nat
      /\ mem' = m
      /\ IF m.suspended THEN Save(Snapshot(m)) ELSE UNCHANGED <<lock, failures>>
      /\ UNCHANGED <<now, windowEnd, up, crashes, prayers>>
  BY DEF IInv, PrayerStarts
<1>2. MemOK(p) /\ p.prayer
  BY <1>1, PrayerFlagOK
<1> HIDE DEF p
<1>3. MemOK(m) /\ m.suspended = p.active /\ m.active = p.active /\ m.prayer = p.prayer
  BY <1>1, <1>2, SuspendOK
<1> HIDE DEF m
<1>4. Frozen(m)
  <2>1. m \in Memory
    BY <1>3 DEF MemOK
  <2> QED BY <1>2, <1>3, <2>1 DEF Frozen, Memory
<1>5. LockOK(lock') /\ failures' \in Nat
  BY <1>1, <1>3, SnapshotOK, SaveOK
<1> QED BY <1>1, <1>3, <1>4, <1>5, HandlerOK

LEMMA PrayerEndsIInv ==
  ASSUME IInv, PrayerEnds
  PROVE  IInv'
<1> DEFINE p == [mem EXCEPT !.prayer = FALSE]
           r == Resume(p, now)
           b == mem.active
           m == [r EXCEPT !.blocked = b]
<1>1. /\ up /\ MemOK(mem) /\ LockOK(lock) /\ failures \in Nat /\ now \in Nat
      /\ b \in BOOLEAN
      /\ mem' = m
      /\ IF mem.active /\ mem.suspended THEN Save(Snapshot(m)) ELSE UNCHANGED <<lock, failures>>
      /\ UNCHANGED <<now, windowEnd, up, crashes, prayers>>
  BY DEF IInv, PrayerEnds, MemOK, Memory
<1> HIDE DEF b
<1>2. MemOK(p) /\ ~p.prayer
  BY <1>1, PrayerFlagOK
<1> HIDE DEF p
<1>3. MemOK(r) /\ ~r.suspended /\ r.prayer = p.prayer
  BY <1>1, <1>2, ResumeOK
<1> HIDE DEF r
<1>4. MemOK(m) /\ SamePact(m, r)
  BY <1>1, <1>3, BlockOK
<1> HIDE DEF m
<1>5. Frozen(m)
  <2>1. m \in Memory
    BY <1>4 DEF MemOK
  <2>2. m.suspended = m.prayer
    BY <1>2, <1>3, <1>4, <2>1 DEF SamePact, Memory
  <2> QED BY <2>2 DEF Frozen
<1>6. LockOK(lock') /\ failures' \in Nat
  BY <1>1, <1>4, SnapshotOK, SaveOK
<1> QED BY <1>1, <1>4, <1>5, <1>6, HandlerOK

LEMMA PhaseEndsIInv ==
  ASSUME IInv, PhaseEnds
  PROVE  IInv'
<1>1. /\ up /\ mem.active /\ MemOK(mem) /\ Frozen(mem) /\ LockOK(lock)
      /\ failures \in Nat /\ now \in Nat
      /\ mem.type = "pomodoro"
      /\ mem' = Transition(mem, now) /\ SaveTransition(mem, mem')
      /\ UNCHANGED <<now, windowEnd, up, crashes, prayers>>
  BY DEF IInv, PhaseEnds, PhaseDue
<1>2. /\ MemOK(mem')
      /\ LastBreakEnds(mem) => mem' = Cleanup(mem)
      /\ ~LastBreakEnds(mem) => SamePact(mem', mem)
  BY <1>1, TransitionOK
<1>3. Frozen(mem')
  BY <1>1, <1>2, CleanupOK DEF Frozen, SamePact
<1>4. LockOK(lock') /\ failures' \in Nat
  BY <1>1, <1>2, SnapshotOK, SaveOK, SaveCleanupOK DEF SaveTransition
<1> QED BY <1>1, <1>2, <1>3, <1>4, HandlerOK

LEMMA TamperCheckIInv ==
  ASSUME IInv, TamperCheck
  PROVE  IInv'
<1>1. PICK b \in BOOLEAN : mem' = [mem EXCEPT !.blocked = b]
  <2> DEFINE b == mem.blocked \/ ~(mem.type = "pomodoro" /\ InBreak(mem))
  <2>1. mem' = [mem EXCEPT !.blocked = b]
    BY Zenon DEF TamperCheck
  <2>2. b \in BOOLEAN
    BY Zenon
  <2> QED BY <2>1, <2>2
<1>2. /\ up /\ MemOK(mem) /\ Frozen(mem) /\ LockOK(lock) /\ failures \in Nat
      /\ Save(Snapshot(mem)) \/ UNCHANGED <<lock, failures>>
      /\ UNCHANGED <<now, windowEnd, up, crashes, prayers>>
  BY DEF IInv, TamperCheck
<1>3. MemOK(mem') /\ SamePact(mem', mem)
  BY <1>1, <1>2, BlockOK
<1>4. Frozen(mem')
  BY <1>2, <1>3 DEF Frozen, SamePact
<1>5. LockOK(lock') /\ failures' \in Nat
  BY <1>2, SnapshotOK, SaveOK
<1> QED BY <1>2, <1>3, <1>4, <1>5, HandlerOK

\* What a restart makes of the lock file.
Back == Reconciled(Restored(lock, now), now)

LEMMA BackOK ==
  ASSUME IInv, lock.kind = "session", ~LockExpired(lock, now)
  PROVE  /\ MemOK(Back) /\ Frozen(Back) /\ Back.active
         /\ Back.type = lock.type /\ Back.cycle = lock.cycle
         /\ Back.unlockEnd = lock.unlockAt
         /\ Back.end = IF lock.suspended THEN now + lock.left ELSE lock.expiry
         /\ Back.expiry = Back.end
         /\ Back.suspended => lock.suspended /\ Back.left = lock.left
<1> DEFINE r == Restored(lock, now)
<1>1. LockOK(lock) /\ now \in Nat
  BY DEF IInv
<1>2. /\ MemOK(r) /\ r.active /\ ~r.prayer
      /\ r.type = lock.type /\ r.cycle = lock.cycle
      /\ r.suspended = lock.suspended /\ r.left = lock.left
      /\ r.unlockEnd = lock.unlockAt
      /\ r.expiry = IF lock.suspended THEN now + lock.left ELSE lock.expiry
      /\ r.end = r.expiry
  BY <1>1, RestoredOK
<1> HIDE DEF r
<1>3. r.suspended => r.end = now + r.left
  BY <1>2
<1>4. LET b == Reconciled(r, now) IN
         /\ MemOK(b) /\ Frozen(b) /\ b.active
         /\ b.type = r.type /\ b.cycle = r.cycle /\ b.unlockEnd = r.unlockEnd
         /\ b.end = r.end /\ b.expiry = r.expiry
         /\ b.suspended => r.suspended /\ b.left = r.left
  BY <1>1, <1>2, <1>3, ReconciledOK
<1>5. Back = Reconciled(r, now)
  BY DEF Back, r
<1> QED BY <1>2, <1>4, <1>5

LEMMA RestartIInv ==
  ASSUME IInv, Restart
  PROVE  IInv'
<1> DEFINE late == Back.type = "pomodoro" /\ Back.phaseExpiry > 0 /\ Back.phaseExpiry <= now
           resumed == lock.suspended /\ ~Back.suspended
           b == ~Back.prayer /\ Back.phase # "break"
<1>1. /\ lock.kind = "session" /\ ~LockExpired(lock, now) /\ LockOK(lock)
      /\ failures \in Nat /\ now \in Nat /\ up' = TRUE
      /\ UNCHANGED <<now, windowEnd, crashes, prayers>>
      /\ IF late
         THEN mem' = Transition(Back, now) /\ SaveLate(Back, resumed)
         ELSE /\ mem' = [Back EXCEPT !.blocked = b]
              /\ IF resumed THEN Save(Snapshot(Back)) ELSE UNCHANGED <<lock, failures>>
  BY DEF IInv, Restart, Back
<1>2. MemOK(Back) /\ Frozen(Back) /\ Back.active
  BY <1>1, BackOK
<1>3. LockOK(Snapshot(Back))
  BY <1>2, SnapshotOK
<1>4. /\ MemOK(mem') /\ Frozen(mem')
      /\ LockOK(lock') /\ failures' \in Nat
  <2>1. CASE late
    <3>1. /\ MemOK(mem')
          /\ LastBreakEnds(Back) => mem' = Cleanup(Back)
          /\ ~LastBreakEnds(Back) => SamePact(mem', Back)
      BY <1>1, <1>2, <2>1, TransitionOK
    <3>2. Frozen(mem')
      BY <1>2, <3>1, CleanupOK DEF Frozen, SamePact
    <3>3. LockOK(Snapshot(mem'))
      BY <3>1, SnapshotOK
    <3>4. mem' = Transition(Back, now) /\ SaveLate(Back, resumed)
      BY <1>1, <2>1
    <3>5. LockOK(lock') /\ failures' \in Nat
      BY <1>1, <1>3, <3>3, <3>4, SaveOK, SaveCleanupOK DEF SaveLate, SaveTransition
    <3> QED BY <3>1, <3>2, <3>5
  <2>2. CASE ~late
    <3>1. b \in BOOLEAN
      BY Zenon
    <3>2. mem' = [Back EXCEPT !.blocked = b]
      BY <1>1, <2>2
    <3> HIDE DEF b
    <3>3. MemOK(mem') /\ SamePact(mem', Back)
      BY <1>2, <3>1, <3>2, BlockOK
    <3>4. Frozen(mem')
      BY <1>2, <3>3 DEF Frozen, SamePact
    <3>5. LockOK(lock') /\ failures' \in Nat
      BY <1>1, <1>3, <2>2, SaveOK
    <3> QED BY <3>3, <3>4, <3>5
  <2> QED BY <2>1, <2>2
<1> QED BY <1>1, <1>4 DEF IInv

\* The rest: the daemon stops, starts with nothing to restore, and the world moves on.
LEMMA OtherIInv ==
  ASSUME IInv, Crash \/ RestartIdle \/ RestartExpired \/ PrayerOpens \/ LockDeleted \/ Tick
  PROVE  IInv'
<1>1. CASE Crash
  <2>1. MemOK(mem') /\ Frozen(mem')
    BY <1>1, FreshOK DEF Crash
  <2>2. crashes' \in Nat
    BY <1>1 DEF Crash, IInv
  <2>3. up' = FALSE /\ mem' = Fresh /\ UNCHANGED <<now, windowEnd, lock, prayers, failures>>
    BY <1>1, Zenon DEF Crash
  <2> QED BY <2>1, <2>2, <2>3 DEF IInv
<1>2. CASE RestartIdle
  BY <1>2 DEF RestartIdle, IInv
<1>3. CASE RestartExpired
  <2>1. LockOK(lock') /\ failures' \in Nat
    BY <1>3, SaveCleanupOK DEF RestartExpired, IInv
  <2> QED BY <1>3, <2>1 DEF RestartExpired, IInv
<1>4. CASE PrayerOpens
  <2>1. windowEnd' \in Nat
    BY <1>4, ConstantsAssumption DEF PrayerOpens, IInv
  <2> QED BY <1>4, <2>1 DEF PrayerOpens, IInv
<1>5. CASE LockDeleted
  <2>1. LockOK(lock')
    BY <1>5, EmptyLockOK DEF LockDeleted
  <2> QED BY <1>5, <2>1 DEF LockDeleted, IInv
<1>6. CASE Tick
  BY <1>6 DEF Tick, IInv
<1> QED BY <1>1, <1>2, <1>3, <1>4, <1>5, <1>6

LEMMA NextIInv == IInv /\ [Next]_vars => IInv'
<1> SUFFICES ASSUME IInv, [Next]_vars PROVE IInv'
  OBVIOUS
<1>1. CASE Command
  BY <1>1, StartIInv, MergeIInv, StopIInv, EndIInv DEF Command
<1>2. CASE Watchdog
  BY <1>2, PrayerStartsIInv, PrayerEndsIInv, EndIInv, PhaseEndsIInv, TamperCheckIInv DEF Watchdog
<1>3. CASE Crash \/ Boot \/ PrayerOpens \/ LockDeleted \/ Tick
  BY <1>3, RestartIInv, OtherIInv DEF Boot
<1>4. CASE UNCHANGED vars
  BY <1>4 DEF vars, IInv
<1> QED BY <1>1, <1>2, <1>3, <1>4 DEF Next

\* The invariant holds throughout.
THEOREM Invariant == Spec => []IInv
<1>1. Init => IInv
  BY InitIInv
<1>2. IInv /\ [Next]_vars => IInv'
  BY NextIInv
<1> QED BY <1>1, <1>2, PTL DEF Spec

\* Every variable keeps its type.
THEOREM TypeCorrect == Spec => []TypeOK
<1>1. IInv => TypeOK
  BY DEF IInv, TypeOK, MemOK, LockOK
<1> QED BY <1>1, Invariant, PTL

\* The two clocks of a session, which every handler sets separately, agree.
THEOREM ClocksAgree == Spec => []DeadlinesAgree
<1>1. IInv => DeadlinesAgree
  BY DEF IInv, DeadlinesAgree, MemOK, LockOK
<1> QED BY <1>1, Invariant, PTL

\* A session is suspended exactly while the daemon enforces a prayer window.
THEOREM SuspensionIsPrayer == Spec => []PrayerFreezes
<1>1. IInv => PrayerFreezes
  BY DEF IInv, PrayerFreezes, MemOK, Frozen
<1> QED BY <1>1, Invariant, PTL

-----------------------------------------------------------------------------
(* Durability *)

\* A restart from f would bring the pact of m back.
Matches(f, m) ==
  /\ (f.kind = "session") = m.active
  /\ m.active =>
       /\ f.suspended = m.suspended
       /\ IF m.suspended THEN f.left = m.left ELSE f.expiry = m.expiry
       /\ f.unlockAt = m.unlockAt
       /\ f.type = m.type
       /\ f.cycle = IF m.type = "pomodoro" THEN m.cycle ELSE 0

LEMMA DurableMatches == Durable = (up => Matches(lock, mem))
BY DEF Durable, Matches

LEMMA SnapshotMatches ==
  ASSUME NEW m, MemOK(m)
  PROVE  Matches(Snapshot(m), m)
<1>1. m \in Memory
  BY DEF MemOK
<1>2. CASE m.active
  BY <1>1, <1>2 DEF Matches, Snapshot, Memory
<1>3. CASE ~m.active
  BY <1>1, <1>3 DEF Matches, Snapshot, EmptyLock, Memory
<1> QED BY <1>2, <1>3

LEMMA SameMatches ==
  ASSUME NEW m, NEW s, MemOK(m), MemOK(s), SamePact(s, m), s.cycle = m.cycle,
         NEW f, Matches(f, m)
  PROVE  Matches(f, s)
<1>1. ~s.suspended => s.expiry = m.expiry
  BY DEF MemOK, SamePact
<1>2. s.unlockAt = m.unlockAt
  BY DEF MemOK, SamePact
<1> QED BY <1>1, <1>2 DEF Matches, SamePact

LEMMA CommitDurable ==
  ASSUME failures \in Nat, failures' = 0, NEW m, MemOK(m), NEW old, Commit(m, old)
  PROVE  Matches(lock', mem') /\ failures = 0
BY SnapshotMatches DEF Commit

LEMMA CleanupDurable ==
  ASSUME failures \in Nat, failures' = 0, SaveCleanup
  PROVE  lock'.kind # "session" /\ failures = 0
BY DEF SaveCleanup, Save, EmptyLock

\* With no write failed, a command leaves its session on disk.
LEMMA CommandDurable ==
  ASSUME IInv, failures = 0 => Durable, failures' = 0, Command
  PROVE  Matches(lock', mem')
<1>1. MemOK(mem) /\ failures \in Nat /\ now \in Nat /\ mem.prayer \in BOOLEAN
  BY DEF IInv, MemOK, Memory
<1>2. ASSUME NEW type \in Types, NEW len \in Durations, Start(type, len)
      PROVE  Matches(lock', mem')
  <2> DEFINE begun == Started(mem, type, len, now)
             m == IF mem.prayer THEN Suspend(begun, now) ELSE begun
  <2>1. mem' = m /\ lock' = Snapshot(m)
    BY <1>1, <1>2 DEF Start
  <2>2. MemOK(begun)
    BY <1>1, <1>2, StartedOK DEF Start
  <2>3. MemOK(m)
    BY <1>1, <2>2, SuspendOK
  <2> HIDE DEF m
  <2> QED BY <2>1, <2>3, SnapshotMatches
<1>3. ASSUME NEW type \in Types, NEW len \in Durations, NEW groups \in BOOLEAN,
             Merge(type, len, groups)
      PROVE  Matches(lock', mem')
  <2> DEFINE s == Merged(mem, len, now)
             m == IF groups /\ ~mem.prayer THEN [s EXCEPT !.blocked = TRUE] ELSE s
  <2>1. Commit(m, mem) /\ mem.active
    BY <1>3 DEF Merge
  <2>2. MemOK(s)
    BY <1>1, <2>1, MergedOK
  <2> HIDE DEF s
  <2>3. MemOK([s EXCEPT !.blocked = TRUE])
    BY <2>2, BlockOK
  <2>4. MemOK(m)
    BY <2>2, <2>3
  <2> HIDE DEF m
  <2> QED BY <1>1, <2>1, <2>4, CommitDurable
<1>4. CASE RequestStop \/ CancelStop
  <2>1. PICK at \in Nat : Commit([mem EXCEPT !.unlockAt = at, !.unlockEnd = at], mem)
    <3>1. now + UnlockDelay \in Nat /\ 0 \in Nat
      BY <1>1, ConstantsAssumption
    <3> QED BY <1>4, <3>1, Zenon DEF RequestStop, CancelStop
  <2>2. MemOK([mem EXCEPT !.unlockAt = at, !.unlockEnd = at])
    BY <1>1, <1>4, UnlockOK DEF RequestStop, CancelStop
  <2> QED BY <1>1, <2>1, <2>2, CommitDurable
<1>5. CASE StatusPoll
  <2>1. mem' = Cleanup(mem) /\ SaveCleanup
    BY <1>5 DEF StatusPoll
  <2>2. ~mem'.active /\ lock'.kind # "session" /\ mem'.active \in BOOLEAN
    BY <1>1, <2>1, CleanupOK, CleanupDurable DEF MemOK, Memory
  <2> QED BY <2>2 DEF Matches
<1> QED BY <1>2, <1>3, <1>4, <1>5 DEF Command

LEMMA WatchdogDurable ==
  ASSUME IInv, failures = 0 => Durable, failures' = 0, Watchdog
  PROVE  Matches(lock', mem')
<1>1. /\ MemOK(mem) /\ Frozen(mem) /\ failures \in Nat /\ now \in Nat
      /\ mem.active \in BOOLEAN /\ mem.suspended \in BOOLEAN
  BY DEF IInv, MemOK, Memory
<1>2. up /\ (failures = 0 => Matches(lock, mem))
  BY DurableMatches DEF Watchdog, PrayerStarts, PrayerEnds, SessionEnds, PhaseEnds, TamperCheck
<1>3. CASE PrayerStarts
  <2> DEFINE p == [mem EXCEPT !.prayer = TRUE]
             m == Suspend(p, now)
  <2>1. /\ mem' = m
        /\ IF m.suspended THEN Save(Snapshot(m)) ELSE UNCHANGED <<lock, failures>>
        /\ ~mem.prayer
    BY <1>3 DEF PrayerStarts
  <2>2. MemOK(p) /\ p.active = mem.active
    BY <1>1, PrayerFlagOK
  <2> HIDE DEF p
  <2>3. MemOK(m) /\ m.suspended = p.active /\ m.active = p.active
    BY <1>1, <2>2, SuspendOK
  <2> HIDE DEF m
  <2>4. CASE m.suspended
    <3>1. lock' = Snapshot(m)
      BY <1>1, <2>1, <2>4 DEF Save
    <3> QED BY <2>1, <2>3, <3>1, SnapshotMatches
  <2>5. CASE ~m.suspended
    BY <1>1, <1>2, <2>1, <2>2, <2>3, <2>5 DEF Matches
  <2> QED BY <2>4, <2>5
<1>4. CASE PrayerEnds
  <2> DEFINE p == [mem EXCEPT !.prayer = FALSE]
             r == Resume(p, now)
             b == mem.active
             m == [r EXCEPT !.blocked = b]
  <2>1. /\ mem' = m /\ mem.prayer
        /\ IF mem.active /\ mem.suspended THEN Save(Snapshot(m)) ELSE UNCHANGED <<lock, failures>>
    BY <1>4 DEF PrayerEnds
  <2>2. MemOK(p) /\ p.active = mem.active
    BY <1>1, PrayerFlagOK
  <2> HIDE DEF p
  <2>3. MemOK(r) /\ r.active = p.active
    BY <1>1, <2>2, ResumeOK
  <2> HIDE DEF r
  <2>4. MemOK(m) /\ SamePact(m, r)
    BY <1>1, <2>3, BlockOK
  <2> HIDE DEF m
  <2>5. CASE mem.active
    <3>1. mem.suspended
      BY <1>1, <2>1, <2>5 DEF Frozen
    <3>2. lock' = Snapshot(m)
      BY <1>1, <2>1, <2>5, <3>1 DEF Save
    <3> QED BY <2>1, <2>4, <3>2, SnapshotMatches
  <2>6. CASE ~mem.active
    BY <1>1, <1>2, <2>1, <2>2, <2>3, <2>4, <2>6 DEF Matches, SamePact
  <2> QED BY <1>1, <2>5, <2>6
<1>5. CASE SessionEnds
  <2>1. mem' = Cleanup(mem) /\ SaveCleanup
    BY <1>5 DEF SessionEnds
  <2>2. ~mem'.active /\ lock'.kind # "session" /\ mem'.active \in BOOLEAN
    BY <1>1, <2>1, CleanupOK, CleanupDurable DEF MemOK, Memory
  <2> QED BY <2>2 DEF Matches
<1>6. CASE PhaseEnds
  <2>1. mem' = Transition(mem, now) /\ SaveTransition(mem, mem') /\ mem.active
        /\ mem.type = "pomodoro"
    BY <1>6 DEF PhaseEnds, PhaseDue
  <2>2. /\ MemOK(mem')
        /\ LastBreakEnds(mem) => mem' = Cleanup(mem)
        /\ mem.phase = "none" => mem' = mem
    BY <1>1, <2>1, TransitionOK
  <2>3. CASE mem.phase = "none"
    <3>1. ~LastBreakEnds(mem)
      BY <2>3 DEF LastBreakEnds
    <3>2. UNCHANGED <<lock, failures>>
      BY <2>1, <2>3, <3>1 DEF SaveTransition
    <3> QED BY <1>2, <2>2, <2>3, <3>2
  <2>4. CASE LastBreakEnds(mem)
    <3>1. SaveCleanup
      BY <2>1, <2>4 DEF SaveTransition, LastBreakEnds
    <3>2. ~mem'.active /\ lock'.kind # "session" /\ mem'.active \in BOOLEAN
      BY <1>1, <2>2, <2>4, <3>1, CleanupOK, CleanupDurable DEF MemOK, Memory
    <3> QED BY <3>2 DEF Matches
  <2>5. CASE ~LastBreakEnds(mem) /\ mem.phase # "none"
    <3>1. lock' = Snapshot(mem')
      BY <1>1, <2>1, <2>5 DEF SaveTransition, Save
    <3> QED BY <2>2, <3>1, SnapshotMatches
  <2> QED BY <2>3, <2>4, <2>5
<1>7. CASE TamperCheck
  <2>1. PICK b \in BOOLEAN : mem' = [mem EXCEPT !.blocked = b]
    <3> DEFINE b == mem.blocked \/ ~(mem.type = "pomodoro" /\ InBreak(mem))
    <3>1. mem' = [mem EXCEPT !.blocked = b]
      BY <1>7, Zenon DEF TamperCheck
    <3> QED BY <3>1, Zenon
  <2>2. /\ MemOK(mem') /\ SamePact(mem', mem) /\ mem'.cycle = mem.cycle
        /\ Snapshot(mem') = Snapshot(mem)
    BY <1>1, <2>1, BlockOK
  <2>3. CASE lock' = Snapshot(mem)
    BY <2>2, <2>3, SnapshotMatches
  <2>4. CASE UNCHANGED <<lock, failures>>
    BY <1>1, <1>2, <2>2, <2>4, SameMatches
  <2>5. lock' = Snapshot(mem) \/ UNCHANGED <<lock, failures>>
    BY <1>1, <1>7 DEF TamperCheck, Save
  <2> QED BY <2>3, <2>4, <2>5
<1> QED BY <1>3, <1>4, <1>5, <1>6, <1>7 DEF Watchdog

\* A session that comes back as it was saved (no prayer window closed meanwhile)
\* matches the file.
LEMMA BackMatches ==
  ASSUME IInv, lock.kind = "session", ~LockExpired(lock, now),
         ~(lock.suspended /\ ~Back.suspended)
  PROVE  Matches(lock, Back)
<1>1. LockOK(lock) /\ MemOK(Back)
  BY BackOK DEF IInv
<1>2. lock.suspended \in BOOLEAN /\ Back.suspended \in BOOLEAN /\ lock.type \in {"standard", "pomodoro"}
  BY <1>1, Zenon DEF LockOK, MemOK, LockFile, Memory
<1>3. Back.suspended = lock.suspended
  BY <1>2, BackOK
<1>4. Back.active /\ Back.type = lock.type /\ Back.cycle = lock.cycle
  BY BackOK
<1>5. Back.active \in BOOLEAN
  BY <1>1, Zenon DEF MemOK, Memory
<1>6. IF Back.suspended THEN lock.left = Back.left ELSE lock.expiry = Back.expiry
  BY <1>3, BackOK
<1>7. lock.unlockAt = Back.unlockAt
  BY <1>1, BackOK DEF MemOK
<1>8. lock.cycle = IF Back.type = "pomodoro" THEN Back.cycle ELSE 0
  BY <1>1, <1>2, <1>4 DEF LockOK
<1> QED BY <1>3, <1>4, <1>5, <1>6, <1>7, <1>8 DEF Matches

LEMMA RestartDurable ==
  ASSUME IInv, failures' = 0, Restart
  PROVE  Matches(lock', mem')
<1> DEFINE late == Back.type = "pomodoro" /\ Back.phaseExpiry > 0 /\ Back.phaseExpiry <= now
           resumed == lock.suspended /\ ~Back.suspended
           b == ~Back.prayer /\ Back.phase # "break"
<1>1. /\ lock.kind = "session" /\ ~LockExpired(lock, now) /\ LockOK(lock)
      /\ failures \in Nat /\ now \in Nat
      /\ IF late
         THEN mem' = Transition(Back, now) /\ SaveLate(Back, resumed)
         ELSE /\ mem' = [Back EXCEPT !.blocked = b]
              /\ IF resumed THEN Save(Snapshot(Back)) ELSE UNCHANGED <<lock, failures>>
  BY DEF IInv, Restart, Back
<1>2. MemOK(Back) /\ Back.active
  BY <1>1, BackOK
<1>3. ~resumed => Matches(lock, Back)
  BY <1>1, BackMatches
<1>4. CASE late
  <2>1. /\ MemOK(mem')
        /\ LastBreakEnds(Back) => mem' = Cleanup(Back)
        /\ Back.phase = "none" => mem' = Back
    BY <1>1, <1>2, <1>4, TransitionOK
  <2>2. mem' = Transition(Back, now) /\ SaveLate(Back, resumed)
    BY <1>1, <1>4
  <2>3. CASE resumed /\ Back.phase = "none"
    <3>1. lock' = Snapshot(mem')
      BY <1>1, <2>1, <2>2, <2>3 DEF SaveLate, Save
    <3> QED BY <2>1, <3>1, SnapshotMatches
  <2>4. CASE ~(resumed /\ Back.phase = "none")
    <3>1. SaveTransition(Back, mem')
      BY <1>1, <2>2, <2>4 DEF SaveLate
    <3>2. CASE Back.phase = "none"
      <4>1. ~LastBreakEnds(Back)
        BY <3>2 DEF LastBreakEnds
      <4>2. UNCHANGED <<lock, failures>>
        BY <3>1, <3>2, <4>1 DEF SaveTransition
      <4> QED BY <1>3, <2>1, <2>4, <3>2, <4>2
    <3>3. CASE LastBreakEnds(Back)
      <4>1. SaveCleanup
        BY <3>1, <3>3 DEF SaveTransition, LastBreakEnds
      <4>2. ~mem'.active /\ lock'.kind # "session" /\ mem'.active \in BOOLEAN
        BY <1>1, <1>2, <2>1, <3>3, <4>1, CleanupOK, CleanupDurable DEF MemOK, Memory
      <4> QED BY <4>2 DEF Matches
    <3>4. CASE ~LastBreakEnds(Back) /\ Back.phase # "none"
      <4>1. lock' = Snapshot(mem')
        BY <1>1, <3>1, <3>4 DEF SaveTransition, Save
      <4> QED BY <2>1, <4>1, SnapshotMatches
    <3> QED BY <3>2, <3>3, <3>4
  <2> QED BY <2>3, <2>4
<1>5. CASE ~late
  <2>1. b \in BOOLEAN
    BY Zenon
  <2>2. mem' = [Back EXCEPT !.blocked = b]
    BY <1>1, <1>5
  <2> HIDE DEF b
  <2>3. /\ MemOK(mem') /\ SamePact(mem', Back) /\ mem'.cycle = Back.cycle
        /\ Snapshot(mem') = Snapshot(Back)
    BY <1>2, <2>1, <2>2, BlockOK
  <2>4. CASE resumed
    <3>1. lock' = Snapshot(Back)
      BY <1>1, <1>5, <2>4 DEF Save
    <3> QED BY <2>3, <3>1, SnapshotMatches
  <2>5. CASE ~resumed
    <3>1. UNCHANGED <<lock, failures>>
      BY <1>1, <1>5, <2>5
    <3> QED BY <1>2, <1>3, <2>3, <2>5, <3>1, SameMatches
  <2> QED BY <2>4, <2>5
<1> QED BY <1>4, <1>5

LEMMA OtherDurable ==
  ASSUME IInv, failures = 0 => Durable, failures' = 0,
         Crash \/ RestartIdle \/ RestartExpired \/ PrayerOpens \/ LockDeleted \/ Tick
  PROVE  up' => Matches(lock', mem')
<1>1. failures \in Nat /\ (~up => mem = Fresh)
  BY DEF IInv
<1>2. CASE Crash
  BY <1>2 DEF Crash
<1>3. CASE RestartIdle
  <2>1. mem' = mem /\ mem = Fresh /\ lock'.kind # "session"
    BY <1>1, <1>3 DEF RestartIdle
  <2> QED BY <2>1 DEF Matches, Fresh
<1>4. CASE RestartExpired
  <2>1. mem' = Fresh /\ lock'.kind # "session"
    BY <1>1, <1>4, CleanupDurable DEF RestartExpired
  <2> QED BY <2>1 DEF Matches, Fresh
<1>5. CASE PrayerOpens \/ Tick
  BY <1>5, DurableMatches DEF PrayerOpens, Tick
<1>6. CASE LockDeleted
  BY <1>1, <1>6 DEF LockDeleted
<1> QED BY <1>2, <1>3, <1>4, <1>5, <1>6

\* Unless a write failed or the file was deleted, a crash at any moment loses nothing.
THEOREM NothingIsLost == Spec => []DurableUnlessFailed
<1>1. Init => DurableUnlessFailed
  <2>1. Init => ~mem.active /\ mem.active \in BOOLEAN /\ lock.kind # "session"
    BY DEF Init, Fresh, EmptyLock
  <2> QED BY <2>1 DEF DurableUnlessFailed, Durable
<1>2. IInv /\ DurableUnlessFailed /\ [Next]_vars => DurableUnlessFailed'
  <2> SUFFICES ASSUME IInv, DurableUnlessFailed, [Next]_vars PROVE DurableUnlessFailed'
    OBVIOUS
  <2> SUFFICES ASSUME failures' = 0 PROVE up' => Matches(lock', mem')
    BY Zenon DEF DurableUnlessFailed, Durable, Matches
  <2> USE DEF DurableUnlessFailed
  <2>1. CASE Command
    BY <2>1, CommandDurable
  <2>2. CASE Watchdog
    BY <2>2, WatchdogDurable
  <2>3. CASE Crash \/ Boot \/ PrayerOpens \/ LockDeleted \/ Tick
    BY <2>3, RestartDurable, OtherDurable DEF Boot
  <2>4. CASE UNCHANGED vars
    BY <2>4, DurableMatches DEF vars
  <2> QED BY <2>1, <2>2, <2>3, <2>4 DEF Next
<1> QED BY <1>1, <1>2, Invariant, PTL DEF Spec

-----------------------------------------------------------------------------
(* Enforcement *)

(* What a memory needs for its session to stay enforced: a phase that leads      *)
(* nowhere promises none, and the block is up where it is due.                   *)
Guarded(m) ==
  /\ m.phase \in {"break", "none"} => m.next = "none"
  /\ m.active /\ ~m.prayer /\ (m.type = "pomodoro" => "focus" \in {m.phase, m.next})
     => m.blocked

\* Only pomodoros have a phase on disk.
StandardPhase(f) == f.type = "standard" => f.phase = "focus"

\* s is in the phase m is in, and blocks what m blocks.
SamePhase(s, m) == s.phase = m.phase /\ s.next = m.next /\ s.blocked = m.blocked

LEMMA SameGuarded ==
  ASSUME NEW m, NEW s, Guarded(m), SamePhase(s, m), s.active => m.active,
         s.type = m.type, s.prayer \/ ~m.prayer
  PROVE  Guarded(s)
BY Zenon DEF Guarded, SamePhase

LEMMA SnapshotStandard ==
  ASSUME NEW m
  PROVE  StandardPhase(Snapshot(m))
BY DEF StandardPhase, Snapshot, EmptyLock

LEMMA EmptyStandard ==
  ASSUME NEW kind
  PROVE  StandardPhase(EmptyLock(kind))
BY DEF StandardPhase, EmptyLock

LEMMA SaveStandard ==
  ASSUME StandardPhase(lock), NEW doc, StandardPhase(doc), Save(doc)
  PROVE  StandardPhase(lock')
BY DEF Save

LEMMA SaveCleanupStandard ==
  ASSUME StandardPhase(lock), SaveCleanup
  PROVE  StandardPhase(lock')
BY EmptyStandard, SaveStandard DEF SaveCleanup

LEMMA CommitStandard ==
  ASSUME StandardPhase(lock), NEW m, NEW old, Commit(m, old)
  PROVE  StandardPhase(lock')
BY SnapshotStandard DEF Commit

LEMMA SaveTransitionStandard ==
  ASSUME StandardPhase(lock), NEW m, NEW after, SaveTransition(m, after)
  PROVE  StandardPhase(lock')
BY SnapshotStandard, SaveStandard, SaveCleanupStandard DEF SaveTransition

\* No step writes a phase for a standard session.
LEMMA NextStandard ==
  ASSUME StandardPhase(lock), [Next]_vars
  PROVE  StandardPhase(lock')
<1>1. ASSUME NEW type \in Types, NEW len \in Durations, Start(type, len)
      PROVE  StandardPhase(lock')
  BY <1>1, SnapshotStandard DEF Start
<1>2. ASSUME NEW type \in Types, NEW len \in Durations, NEW groups \in BOOLEAN,
             Merge(type, len, groups)
      PROVE  StandardPhase(lock')
  BY <1>2, CommitStandard DEF Merge
<1>3. CASE RequestStop \/ CancelStop
  BY <1>3, CommitStandard DEF RequestStop, CancelStop
<1>4. CASE StatusPoll \/ SessionEnds \/ RestartExpired
  BY <1>4, SaveCleanupStandard DEF StatusPoll, SessionEnds, RestartExpired
<1>5. CASE PrayerStarts
  BY <1>5, SnapshotStandard, SaveStandard DEF PrayerStarts
<1>6. CASE PrayerEnds
  BY <1>6, SnapshotStandard, SaveStandard DEF PrayerEnds
<1>7. CASE PhaseEnds
  BY <1>7, SaveTransitionStandard DEF PhaseEnds
<1>8. CASE TamperCheck
  BY <1>8, SnapshotStandard, SaveStandard DEF TamperCheck
<1>9. CASE Restart
  BY <1>9, SnapshotStandard, SaveStandard, SaveTransitionStandard DEF Restart, SaveLate
<1>10. CASE LockDeleted
  BY <1>10, EmptyStandard DEF LockDeleted
<1>11. CASE Crash \/ RestartIdle \/ PrayerOpens \/ Tick \/ UNCHANGED vars
  BY <1>11 DEF Crash, RestartIdle, PrayerOpens, Tick, vars
<1> QED BY <1>1, <1>2, <1>3, <1>4, <1>5, <1>6, <1>7, <1>8, <1>9, <1>10, <1>11
        DEF Next, Command, Watchdog, Boot

LEMMA CleanupGuarded ==
  ASSUME NEW m, MemOK(m)
  PROVE  Guarded(Cleanup(m))
BY DEF Guarded, Cleanup, Fresh

\* Suspending and resuming leave the phase and the block alone.
LEMMA SuspendPhase ==
  ASSUME NEW m, m \in Memory, NEW t
  PROVE  SamePhase(Suspend(m, t), m) /\ Suspend(m, t).type = m.type
BY DEF Suspend, SamePhase, Memory

LEMMA ResumePhase ==
  ASSUME NEW m, m \in Memory, NEW t
  PROVE  SamePhase(Resume(m, t), m) /\ Resume(m, t).type = m.type
BY DEF Resume, SamePhase, Memory

\* A transition out of a guarded memory, or of one just restored: the break lifts
\* the block, and the pause that follows restores it.
LEMMA TransitionGuarded ==
  ASSUME NEW m, MemOK(m), m.active, m.type = "pomodoro", NEW t \in Nat,
         Guarded(m) \/ m.next = "none"
  PROVE  Guarded(Transition(m, t))
<1> m \in Memory
  BY DEF MemOK
<1>1. CASE m.phase = "focus"
  BY <1>1 DEF Transition, EnterPhase, Guarded, Memory
<1>2. CASE LastBreakEnds(m)
  BY <1>2, CleanupGuarded DEF Transition, LastBreakEnds
<1>3. CASE m.phase = "break" /\ ~LastBreakEnds(m)
  BY <1>3 DEF Transition, EnterPhase, Guarded, Memory
<1>4. CASE m.phase = "done" /\ m.next # "none"
  BY <1>4 DEF Transition, EnterPhase, LastBreakEnds, Guarded, Memory
<1>5. CASE m.phase = "done" /\ m.next = "none"
  BY <1>5 DEF Transition, EnterPhase, LastBreakEnds, Guarded, Memory
<1>6. CASE m.phase = "none"
  BY <1>6 DEF Transition, LastBreakEnds, Guarded
<1> QED BY <1>1, <1>2, <1>3, <1>4, <1>5, <1>6 DEF Memory, Phases, LastBreakEnds

LEMMA StartGuarded ==
  ASSUME IInv, Guarded(mem), NEW type \in Types, NEW len \in Durations, Start(type, len)
  PROVE  Guarded(mem')
<1> DEFINE begun == Started(mem, type, len, now)
           m == IF mem.prayer THEN Suspend(begun, now) ELSE begun
<1>1. /\ ~mem.active /\ MemOK(mem) /\ mem \in Memory /\ now \in Nat /\ mem.prayer \in BOOLEAN
  BY DEF IInv, Start, MemOK, Memory
<1>2. MemOK(begun) /\ begun \in Memory /\ begun.prayer = mem.prayer
  BY <1>1, StartedOK DEF MemOK
<1>3. Guarded(begun)
  <2>1. mem.prayer => begun.prayer
    BY <1>2, Zenon
  <2>2. /\ begun.next = mem.next
        /\ begun.type = type
        /\ begun.phase = IF type = "pomodoro" THEN "focus" ELSE mem.phase
        /\ ~mem.prayer => begun.blocked
    BY <1>1 DEF Started, Memory
  <2> HIDE DEF begun
  <2> QED BY <2>1, <2>2 DEF Guarded
<1> HIDE DEF begun
<1>4. Guarded(m)
  <2>1. CASE mem.prayer
    <3>1. SamePhase(m, begun) /\ m.type = begun.type /\ m.prayer = begun.prayer
          /\ m.active = begun.active
      BY <1>1, <1>2, <2>1, SuspendPhase, SuspendOK
    <3> HIDE DEF m
    <3> QED BY <1>2, <1>3, <2>1, <3>1, SameGuarded, Zenon
  <2>2. CASE ~mem.prayer
    BY <1>3, <2>2
  <2> QED BY <1>1, <2>1, <2>2
<1>5. Guarded(RolledBackStart(mem))
  BY DEF Guarded, RolledBackStart, Fresh
<1> HIDE DEF m
<1>6. mem' = m \/ mem' = RolledBackStart(mem)
  BY DEF Start, begun, m
<1> QED BY <1>4, <1>5, <1>6

LEMMA MergeGuarded ==
  ASSUME IInv, Guarded(mem), NEW type \in Types, NEW len \in Durations,
         NEW groups \in BOOLEAN, Merge(type, len, groups)
  PROVE  Guarded(mem')
<1> DEFINE s == Merged(mem, len, now)
           b == [s EXCEPT !.blocked = TRUE]
<1>1. MemOK(mem) /\ mem \in Memory /\ mem.active /\ now \in Nat
  BY DEF IInv, Merge, MemOK
<1>2. MemOK(s) /\ s \in Memory /\ s.prayer = mem.prayer /\ s.type = mem.type /\ s.active
  BY <1>1, MergedOK DEF MemOK
<1>3. SamePhase(s, mem)
  BY <1>1 DEF Merged, SamePhase, Memory
<1>4. Guarded(s)
  <2> HIDE DEF s
  <2>1. s.prayer \/ ~mem.prayer
    BY <1>2, Zenon
  <2> QED BY <1>1, <1>2, <1>3, <2>1, SameGuarded, Zenon
<1> HIDE DEF s
<1>5. Guarded(b)
  BY <1>2, <1>4 DEF Guarded, Memory
<1> HIDE DEF b
<1>6. mem' = s \/ mem' = b \/ mem' = mem
  BY DEF Merge, Commit, s, b
<1> QED BY <1>4, <1>5, <1>6

LEMMA StopGuarded ==
  ASSUME IInv, Guarded(mem), RequestStop \/ CancelStop
  PROVE  Guarded(mem')
<1>1. mem \in Memory
  BY DEF IInv, MemOK
<1>2. ASSUME NEW at
      PROVE  Guarded([mem EXCEPT !.unlockAt = at, !.unlockEnd = at])
  BY <1>1 DEF Guarded, Memory
<1>3. PICK at : Commit([mem EXCEPT !.unlockAt = at, !.unlockEnd = at], mem)
  BY Zenon DEF RequestStop, CancelStop
<1> QED BY <1>2, <1>3 DEF Commit

LEMMA PrayerGuarded ==
  ASSUME IInv, Guarded(mem), PrayerStarts \/ PrayerEnds
  PROVE  Guarded(mem')
<1>1. MemOK(mem) /\ mem \in Memory /\ now \in Nat
  BY DEF IInv, MemOK
<1>2. CASE PrayerStarts
  <2> DEFINE p == [mem EXCEPT !.prayer = TRUE]
             m == Suspend(p, now)
  <2>1. MemOK(p) /\ p \in Memory /\ p.prayer
    BY <1>1, PrayerFlagOK DEF MemOK
  <2>2. SamePhase(p, mem)
    BY <1>1 DEF SamePhase, Memory
  <2> HIDE DEF p
  <2>3. SamePhase(m, p) /\ m.prayer = p.prayer
    BY <1>1, <2>1, SuspendPhase, SuspendOK
  <2>4. mem' = m
    BY <1>2 DEF PrayerStarts, p
  <2> HIDE DEF m
  <2>5. m.prayer
    BY <2>1, <2>3, Zenon
  <2> QED BY <2>2, <2>3, <2>4, <2>5 DEF Guarded, SamePhase
<1>3. CASE PrayerEnds
  <2> DEFINE p == [mem EXCEPT !.prayer = FALSE]
             r == Resume(p, now)
             m == [r EXCEPT !.blocked = mem.active]
  <2>1. MemOK(p) /\ p \in Memory /\ p.active = mem.active
    BY <1>1, PrayerFlagOK DEF MemOK
  <2>2. SamePhase(p, mem)
    BY <1>1 DEF SamePhase, Memory
  <2> HIDE DEF p
  <2>3. SamePhase(r, p) /\ r.active = p.active /\ r \in Memory
    BY <1>1, <2>1, ResumePhase, ResumeOK DEF MemOK
  <2> HIDE DEF r
  <2>4. m.phase = mem.phase /\ m.next = mem.next /\ m.active = mem.active
        /\ m.blocked = mem.active
    BY <2>1, <2>2, <2>3 DEF SamePhase, Memory
  <2>5. mem' = m
    BY <1>3 DEF PrayerEnds, p, r
  <2> HIDE DEF m
  <2>6. m.active => m.blocked
    BY <2>4, Zenon
  <2> QED BY <2>4, <2>5, <2>6 DEF Guarded
<1> QED BY <1>2, <1>3

LEMMA TamperGuarded ==
  ASSUME IInv, Guarded(mem), TamperCheck
  PROVE  Guarded(mem')
<1> DEFINE b == mem.blocked \/ ~(mem.type = "pomodoro" /\ InBreak(mem))
<1>1. mem \in Memory
  BY DEF IInv, MemOK
<1>2. mem' = [mem EXCEPT !.blocked = b]
  BY Zenon DEF TamperCheck
<1>3. mem.blocked => b
  BY Zenon
<1> HIDE DEF b
<1>4. /\ SamePact(mem', mem) /\ mem'.phase = mem.phase /\ mem'.next = mem.next
      /\ mem'.blocked = b
  BY <1>1, <1>2, Zenon DEF Memory, SamePact
<1>5. mem.blocked => mem'.blocked
  BY <1>3, <1>4, Zenon
<1> QED BY <1>4, <1>5, Zenon DEF Guarded, SamePact

\* What a restart brings back promises no next phase, and only a pomodoro can be in
\* a break.
LEMMA BackPhase ==
  ASSUME IInv, StandardPhase(lock), lock.kind = "session", ~LockExpired(lock, now)
  PROVE  Back.next = "none" /\ (Back.type = "standard" => Back.phase = "focus")
<1> DEFINE r == Restored(lock, now)
<1>1. LockOK(lock) /\ now \in Nat
  BY DEF IInv
<1>2. MemOK(r) /\ r \in Memory /\ r.type = lock.type
  BY <1>1, RestoredOK DEF MemOK
<1>3. r.next = "none" /\ r.phase = lock.phase
  BY DEF Restored, Fresh
<1> HIDE DEF r
<1>4. SamePhase(Reconciled(r, now), r) /\ Reconciled(r, now).type = r.type
  BY <1>2, ResumePhase DEF Reconciled, SamePhase, Memory
<1>5. Back = Reconciled(r, now)
  BY DEF Back, r
<1> QED BY <1>2, <1>3, <1>4, <1>5 DEF SamePhase, StandardPhase

LEMMA RestartGuarded ==
  ASSUME IInv, StandardPhase(lock), Restart
  PROVE  Guarded(mem')
<1> DEFINE late == Back.type = "pomodoro" /\ Back.phaseExpiry > 0 /\ Back.phaseExpiry <= now
           b == ~Back.prayer /\ Back.phase # "break"
<1>1. /\ lock.kind = "session" /\ ~LockExpired(lock, now) /\ now \in Nat
      /\ IF late THEN mem' = Transition(Back, now) ELSE mem' = [Back EXCEPT !.blocked = b]
  BY DEF IInv, Restart, Back
<1>2. MemOK(Back) /\ Back \in Memory /\ Back.active
  BY <1>1, BackOK DEF MemOK
<1>3. Back.next = "none" /\ (Back.type = "standard" => Back.phase = "focus")
  BY <1>1, BackPhase
<1>4. CASE late
  BY <1>1, <1>2, <1>3, <1>4, TransitionGuarded
<1>5. CASE ~late
  <2>1. mem' = [Back EXCEPT !.blocked = b]
    BY <1>1, <1>5
  <2>2. ~Back.prayer /\ Back.phase # "break" => b
    BY Zenon
  <2> HIDE DEF b
  <2>3. /\ mem'.phase = Back.phase /\ mem'.next = Back.next /\ mem'.type = Back.type
        /\ mem'.prayer = Back.prayer /\ mem'.blocked = b
    BY <1>2, <2>1, Zenon DEF Memory
  <2>4. /\ ~mem'.prayer /\ mem'.phase # "break" => mem'.blocked
    BY <2>2, <2>3, Zenon
  <2>5. mem'.type = "standard" => mem'.phase = "focus"
    BY <1>3, <2>3
  <2>6. mem'.type \in {"standard", "pomodoro"} /\ mem'.next = "none"
    BY <1>2, <1>3, <2>3 DEF Memory
  <2> QED BY <2>4, <2>5, <2>6 DEF Guarded
<1> QED BY <1>4, <1>5

LEMMA NextGuarded ==
  ASSUME IInv, Guarded(mem), StandardPhase(lock), [Next]_vars
  PROVE  Guarded(mem')
<1>1. CASE Command
  <2>1. CASE StatusPoll
    BY <2>1, CleanupGuarded DEF StatusPoll, IInv
  <2> QED BY <1>1, <2>1, StartGuarded, MergeGuarded, StopGuarded DEF Command
<1>2. CASE Watchdog
  <2>1. CASE SessionEnds
    BY <2>1, CleanupGuarded DEF SessionEnds, IInv
  <2>2. CASE PhaseEnds
    BY <2>2, TransitionGuarded DEF PhaseEnds, PhaseDue, IInv
  <2> QED BY <1>2, <2>1, <2>2, PrayerGuarded, TamperGuarded DEF Watchdog
<1>3. CASE Crash \/ Boot \/ PrayerOpens \/ LockDeleted \/ Tick
  <2>1. CASE Crash
    BY <2>1 DEF Crash, Guarded, Fresh
  <2>2. CASE RestartIdle \/ RestartExpired \/ PrayerOpens \/ LockDeleted \/ Tick
    BY <2>2 DEF RestartIdle, RestartExpired, PrayerOpens, LockDeleted, Tick
  <2> QED BY <1>3, <2>1, <2>2, RestartGuarded DEF Boot
<1>4. CASE UNCHANGED vars
  BY <1>4 DEF vars
<1> QED BY <1>1, <1>2, <1>3, <1>4 DEF Next

\* Sites stay blocked whenever the session is in a standard session, a focus phase or
\* the pause that leads to one.
THEOREM FocusEnforced == Spec => []FocusIsBlocked
<1>1. Init => Guarded(mem) /\ StandardPhase(lock)
  <2>1. Init => Guarded(mem)
    BY DEF Init, Guarded, Fresh
  <2> QED BY <2>1, EmptyStandard DEF Init
<1>2. /\ IInv /\ Guarded(mem) /\ StandardPhase(lock)
      /\ [Next]_vars
      => Guarded(mem)' /\ StandardPhase(lock)'
  BY NextGuarded, NextStandard DEF Guarded, StandardPhase
<1>3. Guarded(mem) => FocusIsBlocked
  BY DEF Guarded, FocusIsBlocked
<1> QED BY <1>1, <1>2, <1>3, Invariant, PTL DEF Spec
=============================================================================
