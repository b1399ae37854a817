---------------------------- MODULE PermaPromise ----------------------------
(***************************************************************************)
(* What ForcedFocus promises about permanently blocked domains: a domain   *)
(* gets off the list in one way only, by an unblock request that has       *)
(* waited out its delay, and nothing but time shortens the wait.  If the   *)
(* last write to disk did not take (durable is false), a crash may leave   *)
(* any list behind.                                                        *)
(***************************************************************************)
EXTENDS Integers

CONSTANTS Domains, Delay

VARIABLES blocked,    \* the domains on the list
          left,       \* for each, time until its unblock request matures, or NoRequest
          durable     \* what is on disk is what was promised

vars == <<blocked, left, durable>>

NoRequest == -1

Lefts == [Domains -> Nat \cup {NoRequest}]

Init == blocked \in SUBSET Domains /\ left \in Lefts /\ durable \in BOOLEAN

\* One unit of time passes.
Elapse ==
  /\ left' = [d \in Domains |-> IF left[d] > 0 THEN left[d] - 1 ELSE left[d]]
  /\ UNCHANGED blocked

Block == blocked \subseteq blocked' /\ UNCHANGED left

Ask ==
  /\ \E d \in blocked : left[d] <= 0 /\ left' = [left EXCEPT ![d] = Delay]
  /\ UNCHANGED blocked

Withdraw ==
  /\ \E d \in Domains : left' = [left EXCEPT ![d] = NoRequest]
  /\ UNCHANGED blocked

Release ==
  LET freed == blocked \ blocked' IN
  /\ blocked' \subseteq blocked
  /\ \A d \in freed : left[d] = 0
  /\ left' = [d \in Domains |-> IF d \in freed THEN NoRequest ELSE left[d]]

\* A crash after a failed write: what comes back is whatever was on disk.
Upset == ~durable /\ blocked' \in SUBSET Domains /\ left' \in Lefts

Next == Elapse \/ Block \/ Ask \/ Withdraw \/ Release \/ Upset

\* Steps that only change durable are always allowed.
Spec == Init /\ [][Next \/ UNCHANGED <<blocked, left>>]_vars
=============================================================================
