----------------------------- MODULE Commitment -----------------------------
(***************************************************************************)
(* What ForcedFocus promises about a focus session, with no clocks, files, *)
(* threads or restarts in sight.  A session that is on owes some time.     *)
(* Time only pays the debt off while the session is not paused by a prayer *)
(* window; nothing else lowers it.  The session may finish only when the   *)
(* debt is paid, when an unlock request has waited out its delay, or, for  *)
(* a pomodoro, when its last round is over.  If the last write to disk did *)
(* not take (durable is false), a crash may leave any session behind.      *)
(***************************************************************************)
EXTENDS Integers

CONSTANT Delay        \* the delay of an unlock request

VARIABLES on,         \* a session is committed to
          owed,       \* time still owed
          unlock,     \* time until an unlock request matures, or NoUnlock
          rounds,     \* pomodoro rounds not yet finished; 0 for other sessions
          paused,     \* the debt is frozen
          durable     \* what is on disk is what was promised

vars == <<on, owed, unlock, rounds, paused, durable>>

NoUnlock == -1

Nothing == on = FALSE /\ owed = 0 /\ unlock = NoUnlock /\ rounds = 0 /\ paused = FALSE

\* durable follows the outcome of writes, about which nothing is promised.
Init == Nothing /\ durable \in BOOLEAN

Pay(n) == IF n > 0 THEN n - 1 ELSE n

\* One unit of time passes.
Elapse ==
  /\ owed' = IF paused THEN owed ELSE Pay(owed)
  /\ unlock' = Pay(unlock)
  /\ UNCHANGED <<on, rounds, paused>>

\* A session is committed to, possibly into a prayer window.
Begin ==
  /\ ~on /\ on'
  /\ owed' \in Nat \ {0}
  /\ unlock' = NoUnlock
  /\ rounds' \in Nat
  /\ paused' \in BOOLEAN

\* A commitment may only be made longer.
Extend ==
  /\ on /\ on'
  /\ owed' \in Nat /\ owed' > owed
  /\ UNCHANGED <<unlock, rounds, paused>>

\* An unlock matures Delay after the latest request that found none waiting.
AskUnlock ==
  /\ on /\ on'
  /\ unlock <= 0 /\ unlock' = Delay
  /\ UNCHANGED <<owed, rounds, paused>>

WithdrawUnlock ==
  /\ on /\ on'
  /\ unlock' = NoUnlock
  /\ UNCHANGED <<owed, rounds, paused>>

\* A prayer window opens or closes, a pomodoro round ends, or both.
Carry ==
  /\ on /\ on'
  /\ paused' \in BOOLEAN
  /\ \/ rounds' = rounds
     \/ rounds > 1 /\ rounds' = rounds - 1
  /\ UNCHANGED <<owed, unlock>>

Earned == owed = 0 \/ unlock = 0 \/ rounds = 1

Finish == on /\ Earned /\ Nothing'

\* A crash after a failed write: what comes back is whatever was on disk.
Upset ==
  /\ ~durable
  /\ on' \in BOOLEAN /\ paused' \in BOOLEAN
  /\ owed' \in Nat /\ rounds' \in Nat /\ unlock' \in Nat \cup {NoUnlock}

Next == Elapse \/ Begin \/ Extend \/ AskUnlock \/ WithdrawUnlock \/ Carry \/ Finish \/ Upset

\* Steps that only change durable are always allowed.
Spec == Init /\ [][Next \/ UNCHANGED <<on, owed, unlock, rounds, paused>>]_vars
=============================================================================
