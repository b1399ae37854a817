--------------------------- MODULE MCSettingsPage ---------------------------
(* A small instance of SettingsPage for TLC. *)
EXTENDS SettingsPage

MCSlots == {1, 2}
=============================================================================
