--------------------------- MODULE MCEnforcement ----------------------------
(* Small instances of Enforcement for TLC. *)
EXTENDS Enforcement

CONSTANT d1

MCModes == {"block", "allow"}
MCDomains == {d1}
=============================================================================
