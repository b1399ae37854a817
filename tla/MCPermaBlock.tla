---------------------------- MODULE MCPermaBlock ----------------------------
(* Small instances of PermaBlock for TLC. *)
EXTENDS PermaBlock

CONSTANTS d1, d2

MCDomains == {d1, d2}
=============================================================================
