------------------------ MODULE FocusPromise_proofs ------------------------
(***************************************************************************)
(* Proof that FocusSession implements Commitment, for every value of the   *)
(* constants: whatever handlers, watchdog, prayer windows, crashes and     *)
(* restarts do, a session is shortened by nothing but time spent in it.    *)
(*                                                                         *)
(* The pact of a memory at a time is what Commitment speaks of: the debt,  *)
(* the unlock request and the rounds.  While the daemon runs the pact is   *)
(* that of its memory, while it is down that of the lock file; each step   *)
(* of the session is shown to be a step of the promise about it or to      *)
(* leave it alone.  What the operators on memories do to a pact follows    *)
(* from the lemmas of FocusSession_proofs, and so does that a crash with   *)
(* nothing lost (Durable) changes nothing.                                 *)
(***************************************************************************)
EXTENDS FocusSession_proofs

OwedBy(m, t) == IF m.suspended THEN m.left ELSE Until(m.end, t)

UnlockBy(at, t) == IF at = 0 THEN -1 ELSE Until(at, t)

RoundsOf(m) == IF m.active /\ m.type = "pomodoro" THEN Cycles + 1 - m.cycle ELSE 0

PactAlone == UNCHANGED <<On, Owed, UnlockIn, Rounds, Paused>>

PromiseStep == Promise!Next \/ PactAlone

-----------------------------------------------------------------------------
(* The pact of a memory *)

LEMMA UpNow ==
  ASSUME up
  PROVE  /\ On = mem.active /\ Owed = OwedBy(mem, now)
         /\ UnlockIn = UnlockBy(mem.unlockEnd, now)
         /\ Rounds = RoundsOf(mem) /\ Paused = mem.suspended
BY DEF On, Owed, UnlockIn, Rounds, Paused, OwedBy, UnlockBy, RoundsOf

LEMMA UpNext ==
  ASSUME up'
  PROVE  /\ On' = mem'.active /\ Owed' = OwedBy(mem', now')
         /\ UnlockIn' = UnlockBy(mem'.unlockEnd, now')
         /\ Rounds' = RoundsOf(mem') /\ Paused' = mem'.suspended
BY DEF On, Owed, UnlockIn, Rounds, Paused, OwedBy, UnlockBy, RoundsOf

LEMMA DownNow ==
  ASSUME ~up, IInv
  PROVE  /\ On = (lock.kind = "session")
         /\ Owed = IF lock.suspended THEN lock.left ELSE Until(lock.expiry, now)
         /\ UnlockIn = UnlockBy(lock.unlockAt, now)
         /\ Rounds = IF lock.kind = "session" /\ lock.type = "pomodoro"
                     THEN Cycles + 1 - lock.cycle ELSE 0
         /\ Paused = lock.suspended
BY DEF On, Owed, UnlockIn, Rounds, Paused, UnlockBy

LEMMA PactTypes ==
  ASSUME NEW m, MemOK(m), NEW t \in Nat
  PROVE  /\ m.active \in BOOLEAN /\ m.suspended \in BOOLEAN
         /\ OwedBy(m, t) \in Nat /\ RoundsOf(m) \in Nat
         /\ UnlockBy(m.unlockEnd, t) \in Nat \cup {-1}
<1>1. m \in Memory
  BY DEF MemOK
<1>2. /\ m.active \in BOOLEAN /\ m.suspended \in BOOLEAN
      /\ m.left \in Nat /\ m.end \in Nat /\ m.unlockEnd \in Nat
  BY <1>1, Zenon DEF Memory
<1>3. Until(m.end, t) \in Nat /\ Until(m.unlockEnd, t) \in Nat
  BY <1>2, UntilNat
<1>4. RoundsOf(m) \in Nat
  BY ConstantsAssumption DEF RoundsOf, MemOK
<1> QED BY <1>2, <1>3, <1>4 DEF OwedBy, UnlockBy

LEMMA UntilZero == ASSUME NEW t \in Nat PROVE Until(0, t) = 0
BY UntilNat

\* An idle daemon owes nothing.
LEMMA IdleOwesNothing ==
  ASSUME NEW m, MemOK(m), ~m.active, NEW t \in Nat
  PROVE  /\ m.active = FALSE /\ m.suspended = FALSE
         /\ OwedBy(m, t) = 0 /\ UnlockBy(m.unlockEnd, t) = -1 /\ RoundsOf(m) = 0
<1>1. m \in Memory
  BY DEF MemOK
<1>2. m.active = FALSE /\ m.suspended = FALSE
  <2>1. m.active \in BOOLEAN /\ m.suspended \in BOOLEAN
    BY <1>1, Zenon DEF Memory
  <2>2. ~m.suspended
    BY DEF MemOK
  <2> QED BY <2>1, <2>2, Zenon
<1>3. m.end = 0 /\ m.unlockEnd = 0
  BY DEF MemOK
<1> QED BY <1>2, <1>3, UntilZero DEF OwedBy, UnlockBy, RoundsOf

LEMMA SamePactSame ==
  ASSUME NEW m, NEW s, SamePact(s, m), NEW t
  PROVE  /\ s.active = m.active /\ s.suspended = m.suspended
         /\ OwedBy(s, t) = OwedBy(m, t)
         /\ UnlockBy(s.unlockEnd, t) = UnlockBy(m.unlockEnd, t)
         /\ s.cycle = m.cycle => RoundsOf(s) = RoundsOf(m)
BY DEF SamePact, OwedBy, UnlockBy, RoundsOf

LEMMA SuspendPact ==
  ASSUME NEW m, MemOK(m), NEW t \in Nat
  PROVE  LET s == Suspend(m, t) IN
         /\ s.unlockEnd = m.unlockEnd /\ s.type = m.type /\ s.cycle = m.cycle
         /\ m.active => OwedBy(s, t) = OwedBy(m, t)
         /\ m.active /\ ~m.suspended => s.left = Until(m.end, t)
<1>1. m \in Memory
  BY DEF MemOK
<1>2. CASE ~m.active \/ m.suspended
  <2>1. Suspend(m, t) = m
    BY <1>2 DEF Suspend
  <2> QED BY <1>2, <2>1
<1>3. CASE m.active /\ ~m.suspended
  <2>1. /\ Suspend(m, t).unlockEnd = m.unlockEnd /\ Suspend(m, t).type = m.type
        /\ Suspend(m, t).cycle = m.cycle /\ Suspend(m, t).suspended
        /\ Suspend(m, t).left = Until(m.end, t)
    BY <1>1, <1>3 DEF Suspend, Memory
  <2> QED BY <1>3, <2>1 DEF OwedBy
<1> QED BY <1>2, <1>3

LEMMA ResumePact ==
  ASSUME NEW m, MemOK(m), NEW t \in Nat
  PROVE  LET s == Resume(m, t) IN
         /\ s.unlockEnd = m.unlockEnd /\ s.type = m.type /\ s.cycle = m.cycle
         /\ OwedBy(s, t) = OwedBy(m, t)
<1>1. m \in Memory
  BY DEF MemOK
<1>2. /\ Resume(m, t).unlockEnd = m.unlockEnd /\ Resume(m, t).type = m.type
      /\ Resume(m, t).cycle = m.cycle
  BY <1>1 DEF Resume, Memory
<1>3. ~Resume(m, t).suspended
  BY ResumeOK
<1>4. CASE m.suspended
  <2>1. m.active /\ m.left \in Nat
    BY <1>1, <1>4 DEF MemOK, Memory
  <2>2. Resume(m, t).end = t + m.left
    BY <1>4, <2>1, ResumeOK
  <2>3. Until(t + m.left, t) = m.left
    BY <2>1 DEF Until, Later
  <2> QED BY <1>2, <1>3, <1>4, <2>2, <2>3 DEF OwedBy
<1>5. CASE ~m.suspended
  <2>1. Resume(m, t).end = m.end
    BY <1>5, ResumeOK
  <2> QED BY <1>2, <1>3, <1>5, <2>1 DEF OwedBy
<1> QED BY <1>4, <1>5

\* A session that is cleaned up after it earned its end keeps the promise.
LEMMA CleanupFinishes ==
  ASSUME IInv, IInv', On, Promise!Earned, up', NEW m, MemOK(m), mem' = Cleanup(m)
  PROVE  PromiseStep
<1>1. MemOK(mem') /\ ~mem'.active /\ now' \in Nat
  BY CleanupOK DEF IInv
<1>2. Promise!Nothing'
  BY <1>1, IdleOwesNothing, UpNext DEF Promise!Nothing, Promise!NoUnlock
<1> QED BY <1>2 DEF PromiseStep, Promise!Next, Promise!Finish

\* A running session that is over owes nothing.
LEMMA OverIsEarned ==
  ASSUME IInv, up, mem.active, ~mem.suspended, TimerDone(mem, now) \/ UnlockDone(mem, now)
  PROVE  On /\ Promise!Earned
<1>1. mem.end \in Nat /\ mem.unlockEnd \in Nat /\ now \in Nat
  BY DEF IInv, MemOK, Memory
<1>2. CASE TimerDone(mem, now)
  <2>1. Until(mem.end, now) = 0
    BY <1>1, <1>2, UntilNat DEF TimerDone
  <2> QED BY <2>1, UpNow DEF OwedBy, Promise!Earned
<1>3. CASE UnlockDone(mem, now)
  <2>1. mem.unlockEnd # 0 /\ mem.unlockEnd <= now
    BY <1>1, <1>3 DEF UnlockDone
  <2>2. Until(mem.unlockEnd, now) = 0
    BY <1>1, <2>1, UntilNat
  <2> QED BY <2>1, <2>2, UpNow DEF UnlockBy, Promise!Earned
<1> QED BY <1>2, <1>3
-----------------------------------------------------------------------------
(* Commands *)

\* Steps of a running daemon that leave the pact of its memory alone.
LEMMA SameMemorySame ==
  ASSUME up, up', now' = now, SamePact(mem', mem), mem'.cycle = mem.cycle
  PROVE  PactAlone
BY UpNow, UpNext, SamePactSame DEF PactAlone

LEMMA SamePactRefl == ASSUME NEW m PROVE SamePact(m, m)
BY DEF SamePact

LEMMA StartKeeps ==
  ASSUME IInv, IInv', NEW type \in Types, NEW len \in Durations, Start(type, len)
  PROVE  PromiseStep
<1> DEFINE begun == Started(mem, type, len, now)
           m == IF mem.prayer THEN Suspend(begun, now) ELSE begun
<1>1. /\ up /\ up' /\ ~mem.active /\ MemOK(mem) /\ now \in Nat /\ now' = now
      /\ mem.prayer \in BOOLEAN /\ MemOK(mem')
      /\ mem' = m \/ mem' = RolledBackStart(mem)
  BY DEF IInv, Start, MemOK, Memory
<1>2. /\ On = FALSE /\ Paused = FALSE /\ Owed = 0 /\ UnlockIn = -1 /\ Rounds = 0
  BY <1>1, IdleOwesNothing, UpNow
<1>3. CASE mem' = m
  <2>1. /\ MemOK(begun) /\ begun.active /\ ~begun.suspended
        /\ begun.unlockEnd = 0 /\ begun.end > now
    BY <1>1, StartedOK
  <2>2. begun.end \in Nat
    BY <2>1 DEF MemOK, Memory
  <2>3. Until(begun.end, now) \in Nat \ {0}
    BY <1>1, <2>1, <2>2 DEF Until, Later
  <2> HIDE DEF begun
  <2>4. /\ m.active /\ m.unlockEnd = 0
        /\ OwedBy(m, now) = Until(begun.end, now)
    <3>1. CASE mem.prayer
      <4>1. Suspend(begun, now).left = Until(begun.end, now)
            /\ Suspend(begun, now).unlockEnd = begun.unlockEnd
        BY <1>1, <2>1, SuspendPact
      <4> QED BY <1>1, <2>1, <3>1, <4>1, SuspendOK DEF OwedBy
    <3>2. CASE ~mem.prayer
      BY <2>1, <3>2 DEF OwedBy
    <3> QED BY <3>1, <3>2
  <2> HIDE DEF m
  <2>5. On' /\ Owed' \in Nat \ {0} /\ UnlockIn' = -1
    BY <1>1, <1>3, <2>3, <2>4, UpNext DEF UnlockBy
  <2>6. Rounds' \in Nat /\ Paused' \in BOOLEAN
    BY <1>1, PactTypes, UpNext
  <2> QED BY <1>2, <2>5, <2>6 DEF PromiseStep, Promise!Next, Promise!Begin, Promise!NoUnlock
<1>4. CASE mem' = RolledBackStart(mem)
  <2>1. ~mem'.active
    BY <1>4 DEF RolledBackStart, Fresh
  <2>2. /\ On' = FALSE /\ Paused' = FALSE /\ Owed' = 0 /\ UnlockIn' = -1 /\ Rounds' = 0
    BY <1>1, <2>1, IdleOwesNothing, UpNext
  <2> QED BY <1>2, <2>2 DEF PromiseStep, PactAlone
<1> QED BY <1>1, <1>3, <1>4

LEMMA MergeKeeps ==
  ASSUME IInv, IInv', NEW type \in Types, NEW len \in Durations, NEW groups \in BOOLEAN,
         Merge(type, len, groups)
  PROVE  PromiseStep
<1> DEFINE s == Merged(mem, len, now)
           m == IF groups /\ ~mem.prayer THEN [s EXCEPT !.blocked = TRUE] ELSE s
<1>1. /\ up /\ up' /\ mem.active /\ MemOK(mem) /\ now \in Nat /\ now' = now
      /\ mem' = m \/ mem' = mem
  BY DEF IInv, Merge, Commit
<1>2. CASE mem' = mem
  BY <1>1, <1>2, SameMemorySame, SamePactRefl DEF PromiseStep
<1>3. CASE mem' = m
  <2>1. /\ MemOK(s)
        /\ s.active /\ s.suspended = mem.suspended
        /\ s.left = mem.left /\ s.unlockEnd = mem.unlockEnd
        /\ s.type = mem.type /\ s.cycle = mem.cycle
        /\ s.end = mem.end \/ (s.end = now + len /\ now + len > mem.expiry)
    BY <1>1, MergedOK
  <2> HIDE DEF s
  <2>2. SamePact(m, s) /\ m.cycle = s.cycle
    <3>1. SamePact([s EXCEPT !.blocked = TRUE], s) /\ [s EXCEPT !.blocked = TRUE].cycle = s.cycle
      BY <2>1, BlockOK
    <3> QED BY <3>1, SamePactRefl
  <2> HIDE DEF m
  <2>3. /\ On /\ On' /\ UNCHANGED <<UnlockIn, Rounds, Paused>>
        /\ Owed = OwedBy(mem, now) /\ Owed' = OwedBy(s, now)
    BY <1>1, <1>3, <2>1, <2>2, UpNow, UpNext, SamePactSame DEF RoundsOf
  <2>4. CASE mem.suspended \/ s.end = mem.end
    <3>1. Owed' = Owed
      BY <2>1, <2>3, <2>4 DEF OwedBy
    <3>2. On' = On
      BY <1>1, <1>3, <2>1, <2>2, UpNow, UpNext DEF SamePact, PactTypes
    <3> QED BY <2>3, <3>1, <3>2 DEF PromiseStep, PactAlone
  <2>5. CASE ~mem.suspended /\ s.end # mem.end
    <3>1. s.end = now + len /\ now + len > mem.end /\ mem.end \in Nat /\ len \in Nat \ {0}
      BY <1>1, <2>1, <2>5, ConstantsAssumption DEF MemOK, Memory
    <3>2. Owed = Until(mem.end, now) /\ Owed' = Until(now + len, now)
      BY <2>1, <2>3, <2>5, <3>1 DEF OwedBy
    <3>3. Owed' \in Nat /\ Owed' > Owed
      BY <1>1, <3>1, <3>2 DEF Until, Later
    <3> QED BY <2>3, <3>3 DEF PromiseStep, Promise!Next, Promise!Extend
  <2> QED BY <2>4, <2>5
<1> QED BY <1>1, <1>2, <1>3

LEMMA StopKeeps ==
  ASSUME IInv, IInv', RequestStop \/ CancelStop
  PROVE  PromiseStep
<1>1. /\ up /\ up' /\ mem.active /\ MemOK(mem) /\ now \in Nat /\ now' = now
      /\ mem.unlockEnd = mem.unlockAt /\ mem.unlockEnd \in Nat
  BY DEF IInv, RequestStop, CancelStop, MemOK, Memory
<1>2. CASE mem' = mem
  BY <1>1, <1>2, SameMemorySame, SamePactRefl DEF PromiseStep
<1>3. ASSUME NEW at \in Nat, mem' = [mem EXCEPT !.unlockAt = at, !.unlockEnd = at]
      PROVE  /\ On /\ On' /\ UNCHANGED <<On, Owed, Rounds, Paused>>
             /\ UnlockIn' = UnlockBy(at, now)
  <2>1. /\ mem'.active /\ mem'.suspended = mem.suspended
        /\ mem'.end = mem.end /\ mem'.left = mem.left /\ mem'.unlockEnd = at
        /\ mem'.type = mem.type /\ mem'.cycle = mem.cycle
    BY <1>1, <1>3, UnlockOK
  <2>2. mem'.active = mem.active
    BY <1>1, <2>1, PactTypes DEF IInv
  <2> QED BY <1>1, <2>1, <2>2, UpNow, UpNext DEF OwedBy, RoundsOf
<1>4. CASE RequestStop
  <2> DEFINE at == now + UnlockDelay
  <2>1. at \in Nat /\ at # 0 /\ Until(at, now) = UnlockDelay
    BY <1>1, ConstantsAssumption DEF Until, Later
  <2>2. mem' = [mem EXCEPT !.unlockAt = at, !.unlockEnd = at] \/ mem' = mem
    BY <1>4, Zenon DEF RequestStop, Commit
  <2>3. UnlockIn <= 0
    <3>1. mem.unlockEnd = 0 \/ mem.unlockEnd <= now
      BY <1>1, <1>4 DEF RequestStop
    <3>2. mem.unlockEnd <= now => Until(mem.unlockEnd, now) = 0
      BY <1>1, UntilNat
    <3> QED BY <1>1, <3>1, <3>2, UpNow DEF UnlockBy
  <2> HIDE DEF at
  <2>4. CASE mem' = [mem EXCEPT !.unlockAt = at, !.unlockEnd = at]
    <3>1. UnlockIn' = UnlockDelay
      BY <1>3, <2>1, <2>4 DEF UnlockBy
    <3> QED BY <1>3, <2>1, <2>3, <2>4, <3>1 DEF PromiseStep, Promise!Next, Promise!AskUnlock
  <2> QED BY <1>2, <2>2, <2>4
<1>5. CASE CancelStop
  <2>1. mem' = [mem EXCEPT !.unlockAt = 0, !.unlockEnd = 0] \/ mem' = mem
    BY <1>5, Zenon DEF CancelStop, Commit
  <2>2. CASE mem' = [mem EXCEPT !.unlockAt = 0, !.unlockEnd = 0]
    <3>1. UnlockIn' = -1
      BY <1>3, <2>2 DEF UnlockBy
    <3> QED BY <1>3, <2>2, <3>1
        DEF PromiseStep, Promise!Next, Promise!WithdrawUnlock, Promise!NoUnlock
  <2> QED BY <1>2, <2>1, <2>2
<1> QED BY <1>4, <1>5

\* A session that was over, ended by the watchdog or by a status request.
LEMMA EndKeeps ==
  ASSUME IInv, IInv', StatusPoll \/ SessionEnds
  PROVE  PromiseStep
<1>1. /\ up /\ up' /\ mem.active /\ MemOK(mem)
      /\ TimerDone(mem, now) \/ UnlockDone(mem, now)
      /\ mem' = Cleanup(mem)
  BY DEF IInv, StatusPoll, SessionEnds
<1>2. ~mem.suspended
  <2>1. CASE StatusPoll
    BY <2>1, <1>1 DEF StatusPoll, IInv, Frozen
  <2>2. CASE SessionEnds
    BY <2>2 DEF SessionEnds
  <2> QED BY <2>1, <2>2
<1> QED BY <1>1, <1>2, OverIsEarned, CleanupFinishes

-----------------------------------------------------------------------------
(* The watchdog *)

\* A step that freezes or thaws a session, or touches none.
LEMMA CarryKeeps ==
  ASSUME IInv, IInv', up, up', now' = now,
         mem'.active = mem.active, OwedBy(mem', now) = OwedBy(mem, now),
         mem'.unlockEnd = mem.unlockEnd, RoundsOf(mem') = RoundsOf(mem)
  PROVE  PromiseStep
<1>1. /\ MemOK(mem) /\ MemOK(mem') /\ now \in Nat
  BY DEF IInv
<1>2. UNCHANGED <<On, Owed, UnlockIn, Rounds>> /\ Paused' \in BOOLEAN /\ On = mem.active
  BY <1>1, UpNow, UpNext, PactTypes
<1>3. CASE mem.active
  BY <1>2, <1>3 DEF PromiseStep, Promise!Next, Promise!Carry
<1>4. CASE ~mem.active
  <2>1. Paused = FALSE /\ Paused' = FALSE
    BY <1>1, <1>4, IdleOwesNothing, UpNow, UpNext
  <2> QED BY <1>2, <2>1 DEF PromiseStep, PactAlone
<1> QED BY <1>3, <1>4

LEMMA PrayerKeeps ==
  ASSUME IInv, IInv', PrayerStarts \/ PrayerEnds
  PROVE  PromiseStep
<1>1. /\ up /\ up' /\ now' = now /\ MemOK(mem) /\ MemOK(mem') /\ now \in Nat
      /\ mem.active \in BOOLEAN
  BY DEF IInv, PrayerStarts, PrayerEnds, MemOK, Memory
<1>2. ASSUME NEW b \in BOOLEAN, NEW p, p = [mem EXCEPT !.prayer = b]
      PROVE  /\ MemOK(p) /\ p.active = mem.active /\ p.unlockEnd = mem.unlockEnd
             /\ OwedBy(p, now) = OwedBy(mem, now)
             /\ p.type = mem.type /\ p.cycle = mem.cycle
  BY <1>1, <1>2, PrayerFlagOK DEF OwedBy
<1>3. CASE PrayerStarts
  <2> DEFINE p == [mem EXCEPT !.prayer = TRUE]
  <2>1. mem' = Suspend(p, now)
    BY <1>3 DEF PrayerStarts
  <2>2. /\ MemOK(p) /\ p.active = mem.active /\ p.unlockEnd = mem.unlockEnd
        /\ OwedBy(p, now) = OwedBy(mem, now)
        /\ p.type = mem.type /\ p.cycle = mem.cycle
    BY <1>2
  <2> HIDE DEF p
  <2>3. /\ mem'.active = mem.active /\ mem'.unlockEnd = mem.unlockEnd
        /\ mem'.type = mem.type /\ mem'.cycle = mem.cycle
    BY <1>1, <2>1, <2>2, SuspendPact, SuspendOK
  <2>4. OwedBy(mem', now) = OwedBy(mem, now)
    <3>1. CASE mem.active
      BY <1>1, <2>1, <2>2, <3>1, SuspendPact
    <3>2. CASE ~mem.active
      BY <1>1, <2>3, <3>2, IdleOwesNothing
    <3> QED BY <3>1, <3>2
  <2> QED BY <1>1, <2>3, <2>4, CarryKeeps DEF RoundsOf
<1>4. CASE PrayerEnds
  <2> DEFINE p == [mem EXCEPT !.prayer = FALSE]
             r == Resume(p, now)
             b == mem.active
  <2>1. mem' = [r EXCEPT !.blocked = b]
    BY <1>4 DEF PrayerEnds
  <2>2. /\ MemOK(p) /\ p.active = mem.active /\ p.unlockEnd = mem.unlockEnd
        /\ OwedBy(p, now) = OwedBy(mem, now)
        /\ p.type = mem.type /\ p.cycle = mem.cycle
    BY <1>2
  <2> HIDE DEF p
  <2>3. /\ MemOK(r) /\ r.active = mem.active /\ r.unlockEnd = mem.unlockEnd
        /\ r.type = mem.type /\ r.cycle = mem.cycle
        /\ OwedBy(r, now) = OwedBy(mem, now)
    BY <1>1, <2>2, ResumePact, ResumeOK
  <2> HIDE DEF r
  <2>4. SamePact(mem', r) /\ mem'.cycle = r.cycle
    BY <1>1, <2>1, <2>3, BlockOK
  <2>5. /\ mem'.active = mem.active /\ OwedBy(mem', now) = OwedBy(mem, now)
        /\ mem'.unlockEnd = mem.unlockEnd /\ RoundsOf(mem') = RoundsOf(mem)
    BY <2>3, <2>4 DEF SamePact, OwedBy, RoundsOf
  <2> QED BY <1>1, <2>5, CarryKeeps
<1> QED BY <1>3, <1>4

\* Leaving a phase moves to another one, to the next round or, after the last, ends
\* the session.  m is the memory before it, whose pact holds now.
LEMMA TransitionKeeps ==
  ASSUME IInv, IInv', up', now' = now, NEW m, MemOK(m), m.active, m.type = "pomodoro",
         On, Owed = OwedBy(m, now), UnlockIn = UnlockBy(m.unlockEnd, now),
         Rounds = RoundsOf(m), mem' = Transition(m, now)
  PROVE  PromiseStep
<1>1. now \in Nat /\ MemOK(mem') /\ m.cycle \in 1..Cycles /\ Cycles \in Nat
  BY ConstantsAssumption DEF IInv, MemOK
<1>2. Rounds = Cycles + 1 - m.cycle
  BY DEF RoundsOf
<1>3. CASE LastBreakEnds(m)
  <2>1. mem' = Cleanup(m) /\ m.cycle = Cycles
    BY <1>1, <1>3, TransitionOK
  <2>2. Rounds = 1
    BY <1>1, <1>2, <2>1
  <2> QED BY <2>1, <2>2, CleanupFinishes DEF Promise!Earned
<1>4. CASE ~LastBreakEnds(m)
  <2>1. /\ SamePact(mem', m)
        /\ mem'.cycle = m.cycle \/ (mem'.cycle = m.cycle + 1 /\ mem'.cycle <= Cycles)
    BY <1>1, <1>4, TransitionOK
  <2>2. On' /\ Owed' = Owed /\ UnlockIn' = UnlockIn /\ Paused' \in BOOLEAN
    BY <1>1, <2>1, UpNext, SamePactSame, PactTypes
  <2>3. Rounds' = Cycles + 1 - mem'.cycle
    BY <2>1, UpNext DEF RoundsOf, SamePact
  <2>4. Rounds' = Rounds \/ (Rounds > 1 /\ Rounds' = Rounds - 1)
    BY <1>1, <1>2, <2>1, <2>3
  <2> QED BY <2>2, <2>4 DEF PromiseStep, Promise!Next, Promise!Carry
<1> QED BY <1>3, <1>4

LEMMA PhaseEndsKeeps ==
  ASSUME IInv, IInv', PhaseEnds
  PROVE  PromiseStep
<1>1. /\ up /\ up' /\ now' = now /\ MemOK(mem) /\ mem.active /\ mem.type = "pomodoro"
      /\ mem' = Transition(mem, now)
  BY DEF IInv, PhaseEnds, PhaseDue
<1> QED BY <1>1, UpNow, TransitionKeeps

LEMMA TamperCheckKeeps ==
  ASSUME IInv, TamperCheck
  PROVE  PromiseStep
<1>1. up /\ up' /\ now' = now /\ MemOK(mem)
  BY DEF IInv, TamperCheck
<1>2. PICK b \in BOOLEAN : mem' = [mem EXCEPT !.blocked = b]
  <2> DEFINE b == mem.blocked \/ ~(mem.type = "pomodoro" /\ InBreak(mem))
  <2>1. mem' = [mem EXCEPT !.blocked = b]
    BY Zenon DEF TamperCheck
  <2> QED BY <2>1, Zenon
<1>3. SamePact(mem', mem) /\ mem'.cycle = mem.cycle
  BY <1>1, <1>2, BlockOK
<1> QED BY <1>1, <1>3, SameMemorySame DEF PromiseStep

-----------------------------------------------------------------------------
(* Crashes and restarts *)

\* What is on disk is what was promised, or a crash may leave anything.
LEMMA CrashKeeps ==
  ASSUME IInv, IInv', Crash
  PROVE  PromiseStep
<1>1. /\ up /\ ~up' /\ now' = now /\ lock' = lock /\ MemOK(mem) /\ LockOK(lock) /\ now \in Nat
  BY DEF IInv, Crash
<1>2. lock \in LockFile /\ mem \in Memory
  BY <1>1 DEF LockOK, MemOK
<1>3. /\ lock.suspended \in BOOLEAN /\ lock.left \in Nat /\ lock.expiry \in Nat
      /\ lock.unlockAt \in Nat /\ lock.type \in {"standard", "pomodoro"}
      /\ mem.active \in BOOLEAN /\ mem.suspended \in BOOLEAN
  BY <1>2, Zenon DEF LockFile, Memory
<1>4. /\ On' = (lock.kind = "session")
      /\ Owed' = IF lock.suspended THEN lock.left ELSE Until(lock.expiry, now)
      /\ UnlockIn' = UnlockBy(lock.unlockAt, now)
      /\ Rounds' = IF lock.kind = "session" /\ lock.type = "pomodoro"
                   THEN Cycles + 1 - lock.cycle ELSE 0
      /\ Paused' = lock.suspended
  BY <1>1 DEF On, Owed, UnlockIn, Rounds, Paused, UnlockBy
<1>5. CASE ~Durable
  <2>1. On' \in BOOLEAN /\ Paused' \in BOOLEAN
    BY <1>3, <1>4
  <2>2. Owed' \in Nat /\ UnlockIn' \in Nat \cup {-1}
    <3>1. Until(lock.expiry, now) \in Nat /\ Until(lock.unlockAt, now) \in Nat
      BY <1>1, <1>3, UntilNat
    <3> QED BY <1>3, <1>4, <3>1 DEF UnlockBy
  <2>3. Rounds' \in Nat
    BY <1>1, <1>4, ConstantsAssumption DEF LockOK
  <2> QED BY <1>5, <2>1, <2>2, <2>3 DEF PromiseStep, Promise!Next, Promise!Upset, Promise!NoUnlock
<1>6. CASE Durable /\ mem.active
  <2>1. /\ lock.kind = "session" /\ lock.suspended = mem.suspended
        /\ IF mem.suspended THEN lock.left = mem.left ELSE lock.expiry = mem.expiry
        /\ lock.unlockAt = mem.unlockEnd /\ lock.type = mem.type
        /\ mem.type = "pomodoro" => lock.cycle = mem.cycle
    BY <1>1, <1>6 DEF Durable, MemOK
  <2>2. ~mem.suspended => mem.expiry = mem.end
    BY <1>1 DEF MemOK
  <2>3. Owed' = Owed
    BY <1>1, <1>4, <2>1, <2>2, UpNow DEF OwedBy
  <2>4. On' = On /\ UnlockIn' = UnlockIn /\ Rounds' = Rounds /\ Paused' = Paused
    BY <1>1, <1>3, <1>4, <1>6, <2>1, UpNow DEF RoundsOf
  <2> QED BY <2>3, <2>4 DEF PromiseStep, PactAlone
<1>7. CASE Durable /\ ~mem.active
  <2>1. lock.kind # "session"
    BY <1>1, <1>7 DEF Durable
  <2>2. lock.suspended = FALSE /\ lock.expiry = 0 /\ lock.unlockAt = 0
    BY <1>1, <1>3, <2>1 DEF LockOK
  <2>3. /\ On' = FALSE /\ Owed' = 0 /\ UnlockIn' = -1 /\ Rounds' = 0 /\ Paused' = FALSE
    BY <1>1, <1>4, <2>1, <2>2, UntilZero DEF UnlockBy
  <2> QED BY <1>1, <1>7, <2>3, IdleOwesNothing, UpNow DEF PromiseStep, PactAlone
<1> QED BY <1>3, <1>5, <1>6, <1>7

LEMMA RestartIdleKeeps ==
  ASSUME IInv, IInv', RestartIdle
  PROVE  PromiseStep
<1>1. /\ ~up /\ up' /\ now' = now /\ mem' = mem /\ mem = Fresh /\ now \in Nat
      /\ lock.kind # "session" /\ LockOK(lock) /\ MemOK(mem')
  BY DEF IInv, RestartIdle
<1>2. lock.suspended = FALSE /\ lock.expiry = 0 /\ lock.unlockAt = 0
  <2>1. lock.suspended \in BOOLEAN
    BY <1>1, Zenon DEF LockOK, LockFile
  <2> QED BY <1>1, <2>1 DEF LockOK
<1>3. /\ On = FALSE /\ Owed = 0 /\ UnlockIn = -1 /\ Rounds = 0 /\ Paused = FALSE
  BY <1>1, <1>2, DownNow, UntilZero DEF UnlockBy
<1>4. ~mem'.active
  BY <1>1 DEF Fresh
<1> QED BY <1>1, <1>3, <1>4, IdleOwesNothing, UpNext DEF PromiseStep, PactAlone

LEMMA RestartExpiredKeeps ==
  ASSUME IInv, IInv', RestartExpired
  PROVE  PromiseStep
<1>1. /\ ~up /\ up' /\ now' = now /\ mem' = Fresh /\ now \in Nat
      /\ lock.kind = "session" /\ LockExpired(lock, now) /\ LockOK(lock) /\ MemOK(mem')
  BY DEF IInv, RestartExpired
<1>2. lock.expiry \in Nat /\ lock.unlockAt \in Nat
  BY <1>1 DEF LockOK, LockFile
<1>3. On /\ Promise!Earned
  <2>1. CASE IF lock.suspended THEN lock.left = 0 ELSE lock.expiry <= now
    <3>1. Owed = 0
      BY <1>1, <1>2, <2>1, DownNow, UntilNat
    <3> QED BY <1>1, <3>1, DownNow DEF Promise!Earned
  <2>2. CASE lock.unlockAt > 0 /\ lock.unlockAt <= now
    <3>1. lock.unlockAt # 0
      BY <2>2
    <3>2. Until(lock.unlockAt, now) = 0
      BY <1>1, <1>2, <2>2, UntilNat
    <3> QED BY <1>1, <3>1, <3>2, DownNow DEF Promise!Earned, UnlockBy
  <2> QED BY <1>1, <2>1, <2>2 DEF LockExpired
<1>4. mem' = Cleanup(Fresh)
  BY <1>1 DEF Cleanup, Fresh
<1> QED BY <1>1, <1>3, <1>4, FreshOK, CleanupFinishes

LEMMA RestartKeeps ==
  ASSUME IInv, IInv', Restart
  PROVE  PromiseStep
<1> DEFINE late == Back.type = "pomodoro" /\ Back.phaseExpiry > 0 /\ Back.phaseExpiry <= now
           b == ~Back.prayer /\ Back.phase # "break"
<1>1. /\ ~up /\ up' /\ now' = now /\ now \in Nat /\ LockOK(lock) /\ MemOK(mem')
      /\ lock.kind = "session" /\ ~LockExpired(lock, now)
      /\ IF late THEN mem' = Transition(Back, now) ELSE mem' = [Back EXCEPT !.blocked = b]
  BY DEF IInv, Restart, Back
<1>2. /\ MemOK(Back) /\ Back.active
      /\ Back.type = lock.type /\ Back.cycle = lock.cycle
      /\ Back.unlockEnd = lock.unlockAt
      /\ Back.end = IF lock.suspended THEN now + lock.left ELSE lock.expiry
      /\ Back.suspended => lock.suspended /\ Back.left = lock.left
  BY <1>1, BackOK
<1>3. OwedBy(Back, now) = Owed
  <2>1. Owed = IF lock.suspended THEN lock.left ELSE Until(lock.expiry, now)
    BY <1>1, DownNow
  <2>2. CASE Back.suspended
    BY <1>2, <2>1, <2>2 DEF OwedBy
  <2>3. CASE ~Back.suspended /\ lock.suspended
    <3>1. lock.left \in Nat
      BY <1>1 DEF LockOK, LockFile
    <3>2. Until(now + lock.left, now) = lock.left
      BY <1>1, <3>1 DEF Until, Later
    <3> QED BY <1>2, <2>1, <2>3, <3>2 DEF OwedBy
  <2>4. CASE ~lock.suspended
    BY <1>2, <2>1, <2>4 DEF OwedBy
  <2> QED BY <2>2, <2>3, <2>4
<1>4. On /\ UnlockIn = UnlockBy(Back.unlockEnd, now) /\ Rounds = RoundsOf(Back)
  BY <1>1, <1>2, DownNow DEF RoundsOf
<1>5. CASE late
  BY <1>1, <1>2, <1>3, <1>4, <1>5, TransitionKeeps
<1>6. CASE ~late
  <2>1. b \in BOOLEAN /\ mem' = [Back EXCEPT !.blocked = b]
    BY <1>1, <1>6, Zenon
  <2> HIDE DEF b
  <2>2. SamePact(mem', Back) /\ mem'.cycle = Back.cycle
    BY <1>2, <2>1, BlockOK
  <2>3. On' /\ Owed' = Owed /\ UnlockIn' = UnlockIn /\ Rounds' = Rounds /\ Paused' \in BOOLEAN
    BY <1>1, <1>2, <1>3, <1>4, <2>2, SamePactSame, UpNext, PactTypes
  <2> QED BY <1>4, <2>3 DEF PromiseStep, Promise!Next, Promise!Carry
<1> QED BY <1>5, <1>6

-----------------------------------------------------------------------------
(* The world *)

LEMMA PayUntil ==
  ASSUME NEW a \in Nat, NEW t \in Nat
  PROVE  /\ Until(a, t + 1) = Promise!Pay(Until(a, t))
         /\ UnlockBy(a, t + 1) = Promise!Pay(UnlockBy(a, t))
<1>1. Until(a, t + 1) = Promise!Pay(Until(a, t))
  BY DEF Until, Later, Promise!Pay
<1>2. Promise!Pay(-1) = -1
  BY DEF Promise!Pay
<1> QED BY <1>1, <1>2 DEF UnlockBy

\* Time passes for the daemon and for the lock file alike.
LEMMA TickKeeps ==
  ASSUME IInv, Tick
  PROVE  PromiseStep
<1>1. /\ now' = now + 1 /\ up' = up /\ mem' = mem /\ lock' = lock
      /\ now \in Nat /\ MemOK(mem) /\ LockOK(lock)
  BY DEF IInv, Tick
<1>2. mem.end \in Nat /\ mem.unlockEnd \in Nat /\ lock.expiry \in Nat /\ lock.unlockAt \in Nat
  BY <1>1 DEF MemOK, LockOK, Memory, LockFile
<1>3. UNCHANGED <<On, Rounds, Paused>>
  BY <1>1 DEF On, Rounds, Paused
<1>4. Owed' = IF Paused THEN Owed ELSE Promise!Pay(Owed)
  BY <1>1, <1>2, PayUntil DEF Owed, Paused
<1>5. UnlockIn' = Promise!Pay(UnlockIn)
  BY <1>1, <1>2, PayUntil DEF UnlockIn, UnlockBy
<1> QED BY <1>3, <1>4, <1>5 DEF PromiseStep, Promise!Next, Promise!Elapse

LEMMA WorldKeeps ==
  ASSUME PrayerOpens \/ LockDeleted \/ UNCHANGED vars
  PROVE  PromiseStep
<1>1. CASE PrayerOpens \/ UNCHANGED vars
  BY <1>1 DEF PrayerOpens, vars, On, Owed, UnlockIn, Rounds, Paused, PromiseStep, PactAlone
<1>2. CASE LockDeleted
  BY <1>2 DEF LockDeleted, On, Owed, UnlockIn, Rounds, Paused, PromiseStep, PactAlone
<1> QED BY <1>1, <1>2

-----------------------------------------------------------------------------

\* The session keeps its promise: through commands, phases, prayer windows, crashes and
\* restarts it is shortened by nothing but time spent in it, and ends only when its debt
\* is paid, an unlock request has waited out its delay or its last round is over.
THEOREM PromiseIsKept == Spec => KeepsPromise
<1>1. Init => Promise!Init
  <2> SUFFICES ASSUME Init PROVE Promise!Init
    OBVIOUS
  <2>1. up /\ mem = Fresh /\ now \in Nat
    BY DEF Init
  <2>2. MemOK(mem) /\ ~mem.active
    BY <2>1, FreshOK DEF Fresh
  <2>3. Promise!Nothing
    BY <2>1, <2>2, IdleOwesNothing, UpNow DEF Promise!Nothing, Promise!NoUnlock
  <2>4. Durable \in BOOLEAN
    BY DEF Durable
  <2> QED BY <2>3, <2>4 DEF Promise!Init
<1>2. IInv /\ IInv' /\ [Next]_vars =>
        [Promise!Next \/ UNCHANGED <<On, Owed, UnlockIn, Rounds, Paused>>]_Promise!vars
  <2> SUFFICES ASSUME IInv, IInv', [Next]_vars PROVE PromiseStep
    BY DEF PromiseStep, PactAlone
  <2>1. CASE Command
    BY <2>1, StartKeeps, MergeKeeps, StopKeeps, EndKeeps DEF Command
  <2>2. CASE Watchdog
    BY <2>2, PrayerKeeps, EndKeeps, PhaseEndsKeeps, TamperCheckKeeps DEF Watchdog
  <2>3. CASE Crash \/ Boot
    BY <2>3, CrashKeeps, RestartIdleKeeps, RestartExpiredKeeps, RestartKeeps DEF Boot
  <2>4. CASE PrayerOpens \/ LockDeleted \/ Tick \/ UNCHANGED vars
    BY <2>4, TickKeeps, WorldKeeps
  <2> QED BY <2>1, <2>2, <2>3, <2>4 DEF Next
<1> QED BY <1>1, <1>2, Invariant, PTL DEF Spec, KeepsPromise, Promise!Spec

=============================================================================
