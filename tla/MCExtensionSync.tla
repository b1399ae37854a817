--------------------------- MODULE MCExtensionSync --------------------------
(* A small instance of ExtensionSync for TLC. *)
EXTENDS ExtensionSync

CONSTANTS d1, d2

MCDomains == {d1, d2}

MCPlans ==
  {[key |-> "idle", domains |-> {}],
   [key |-> "blacklist", domains |-> {d1}],
   [key |-> "break", domains |-> {d1}],
   [key |-> "sleep-whitelist", domains |-> {d2}],
   [key |-> "ban", domains |-> {}]}

MCBeginnings ==
  {[plan |-> [key |-> "idle", domains |-> {}], perma |-> {}]}
=============================================================================
