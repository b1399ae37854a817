--------------------------- MODULE MCFocusSession ---------------------------
(* Small instances of FocusSession for TLC. *)
EXTENDS FocusSession

MCDurations == {2, 4}
MCLong == {9}             \* no merge fits under the bound
Standard == {"standard"}
Pomodoro == {"pomodoro"}
Both == {"standard", "pomodoro"}
=============================================================================
