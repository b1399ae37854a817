---------------------------- MODULE MCScheduler -----------------------------
(* Small instances of Scheduler for TLC: days of four units. *)
EXTENDS Scheduler

CONSTANTS r1

MCIds == {r1}
Everyday == 0..6

\* After midnight.
MCShapes == {[days |-> Everyday, at |-> 0, len |-> 2]}

\* A night.
MCSleepConfigs == {[enabled |-> TRUE, days |-> Everyday, sleep |-> 3, wake |-> 2]}
=============================================================================
