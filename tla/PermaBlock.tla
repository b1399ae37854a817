----------------------------- MODULE PermaBlock -----------------------------
(***************************************************************************)
(* The permanent blocklist: adding domains, the delayed unblock, the file  *)
(* perma_blocklist.json with its failing writes, the watchdog that lets    *)
(* requests mature and puts a file back that somebody changed, crashes,    *)
(* and the start of the daemon, which validates the file before it loads   *)
(* it.  Handlers run under the daemon's lock and are one action each.  One *)
(* clock stands for the wall clock and the continuous clock.  Time starts  *)
(* at 1 and 0 is "no request".                                             *)
(***************************************************************************)
EXTENDS Integers

CONSTANTS
  Domains,
  Delay,                     \* PERMA_UNLOCK_DELAY_S
  MaxTime,                   \* the clock stops here (bound)
  MaxCrashes, MaxFailures    \* how often each may happen (bounds)

ASSUME ConstantsAssumption ==
  Delay \in Nat \ {0} /\ MaxTime \in Nat /\ MaxCrashes \in Nat /\ MaxFailures \in Nat

VARIABLES
  now,
  up,                 \* the daemon runs
  schema,             \* schema_version in the state manifest
  list, until,        \* perma_blocklist, perma_pending_unlocks (unlocks_at)
  watched,            \* _cached_perma_mtime is known
  stale,              \* ... and is not the file's
  file,               \* perma_blocklist.json
  crashes, failures   \* how often each happened

vars == <<now, up, schema, list, until, watched, stale, file, crashes, failures>>
memory == <<list, until>>
world == <<now, up, schema, crashes>>

Unlocks == [Domains -> Nat]
NoUnlocks == [d \in Domains |-> 0]
Documents == [domains : SUBSET Domains, until : Unlocks]
Document(l, u) == [domains |-> l, until |-> u]
Empty == Document({}, NoUnlocks)

-----------------------------------------------------------------------------
(* The file *)

Written(l, u) ==
  /\ file' = Document(l, u)
  /\ watched' = TRUE /\ stale' = FALSE
  /\ UNCHANGED failures

\* Mutant: the mtime is cached before the sync of the directory.
NotWrittenUnseen(l, u) ==
  /\ failures < MaxFailures /\ failures' = failures + 1
  /\ UNCHANGED file \/ file' = Document(l, u)
  /\ UNCHANGED <<watched, stale>>

\* The write raised.  The file has been replaced all the same when only the sync
\* of the directory failed; its mtime is then not the cached one.
NotWritten(l, u) ==
  /\ failures < MaxFailures /\ failures' = failures + 1
  /\ \/ UNCHANGED <<file, stale>>
     \/ file' = Document(l, u) /\ stale' = watched
  /\ UNCHANGED watched

\* _save_perma_state in a handler that rolls memory back when it raises.
Commit(l, u, oldList, oldUntil) ==
  \/ list' = l /\ until' = u /\ Written(l, u)
  \/ list' = oldList /\ until' = oldUntil /\ NotWritten(l, u)

-----------------------------------------------------------------------------
(* Commands *)

\* cmd_add_perma_block
Add(ds) ==
  /\ up /\ ~(ds \subseteq list)
  /\ Commit(list \cup ds, until, list, until)
  /\ UNCHANGED world

Waiting(d) == until[d] > now

\* cmd_request_perma_unblock with the right passphrase.  One whose delay has passed,
\* but which the watchdog has not seen yet, is re-armed; if that write fails it is lost.
Request(d) ==
  /\ up /\ d \in list /\ ~Waiting(d)
  /\ now + Delay <= MaxTime                     \* bound
  /\ Commit(list, [until EXCEPT ![d] = now + Delay], list, [until EXCEPT ![d] = 0])
  /\ UNCHANGED world

\* Mutant: the cancellation is not saved.
CancelUnsaved(d) ==
  /\ up /\ until[d] # 0
  /\ until' = [until EXCEPT ![d] = 0]
  /\ UNCHANGED <<list, watched, stale, file, failures>> /\ UNCHANGED world

\* cmd_cancel_perma_unblock
Cancel(d) ==
  /\ up /\ until[d] # 0
  /\ Commit(list, [until EXCEPT ![d] = 0], list, until)
  /\ UNCHANGED world

-----------------------------------------------------------------------------
(* The watchdog *)

\* Mutant: a request matures in the tick it becomes due in, or never.
MaturedExactly(u) == {d \in Domains : u[d] # 0 /\ u[d] = now}

Matured(u) == {d \in Domains : u[d] # 0 /\ u[d] <= now}

\* Mutant: the requests that were not carried out go as well.
WithoutOthers(u, ds) == [d \in ds |-> 0]

Without(u, ds) == [d \in Domains |-> IF d \in ds THEN 0 ELSE u[d]]

\* Mutant: a write that fails puts the requests back and not the list.
ReleaseForgotten ==
  /\ up /\ Matured(until) # {}
  /\ Commit(list \ Matured(until), Without(until, Matured(until)), list \ Matured(until), until)
  /\ UNCHANGED world

\* _check_perma_blocklist: every matured request takes its domain off the list.  When
\* the write fails everything is put back, and the tick is abandoned.
Mature ==
  /\ up /\ Matured(until) # {}
  /\ Commit(list \ Matured(until), Without(until, Matured(until)), list, until)
  /\ UNCHANGED world

\* _check_config_integrity: a file whose mtime is not the cached one is written again.
RestoreFile ==
  /\ up /\ watched /\ stale
  /\ Written(list, until) \/ NotWritten(list, until)
  /\ UNCHANGED memory /\ UNCHANGED world

-----------------------------------------------------------------------------
(* Crashes and starts *)

Crash ==
  /\ up /\ crashes < MaxCrashes
  /\ up' = FALSE /\ crashes' = crashes + 1
  /\ list' = {} /\ until' = NoUnlocks /\ watched' = FALSE /\ stale' = FALSE
  /\ UNCHANGED <<now, schema, file, failures>>

\* _validate_current_state: migrate_v0_to_v1 takes a pending unlock for a timestamp,
\* and refuses the object _save_perma_state writes.  An upgrade from schema 1 does
\* not look at the file.
Accepted == schema = 1 \/ file.until = NoUnlocks

\* Mutant: a start carries out the requests that are still waiting, too.
BootImpatient ==
  /\ ~up /\ up' = TRUE
  /\ Accepted /\ schema' = 2
  /\ list' = {d \in file.domains : file.until[d] = 0} /\ until' = NoUnlocks
  /\ Written(list', until')
  /\ UNCHANGED <<now, crashes>>

\* run, ensure_schema and _load_perma_state: requests that matured while the daemon was
\* down are carried out.  A file that cannot be written back goes unwatched.
Boot ==
  /\ ~up /\ up' = TRUE
  /\ Accepted /\ schema' = 2
  /\ list' = file.domains \ Matured(file.until)
  /\ until' = Without(file.until, Matured(file.until))
  /\ Written(list', until') \/ NotWritten(list', until')
  /\ UNCHANGED <<now, crashes>>

-----------------------------------------------------------------------------
(* The world *)

\* Somebody empties the file, or deletes it, under a running daemon.  A start creates
\* an empty one in place of one that is gone (_ensure_perma_blocklist_file).
Tamper ==
  /\ up /\ failures < MaxFailures /\ failures' = failures + 1
  /\ file' = Empty /\ stale' = watched
  /\ UNCHANGED watched /\ UNCHANGED memory /\ UNCHANGED world

Tick ==
  /\ now < MaxTime /\ now' = now + 1
  /\ UNCHANGED <<up, schema, watched, stale, file, crashes, failures>> /\ UNCHANGED memory

\* A new installation has no requests on file; one that is being upgraded may.
Init ==
  /\ now = 1 /\ up = FALSE
  /\ schema \in {1, 2}
  /\ IF schema = 2 THEN file = Empty
     ELSE \E ds \in SUBSET Domains : \E u \in [Domains -> {0, Delay}] :
            (\A d \in Domains : u[d] # 0 => d \in ds) /\ file = Document(ds, u)
  /\ list = {} /\ until = NoUnlocks /\ watched = FALSE /\ stale = FALSE
  /\ crashes = 0 /\ failures = 0

Command ==
  \/ \E ds \in SUBSET Domains : Add(ds)
  \/ \E d \in Domains : Request(d) \/ Cancel(d)

Next == Command \/ Mature \/ RestoreFile \/ Crash \/ Boot \/ Tamper \/ Tick

Spec == Init /\ [][Next]_vars

\* The watchdog loops and time passes; launchd starts the daemon again and again.
FairSpec == Spec /\ WF_vars(Tick) /\ WF_vars(Mature) /\ WF_vars(RestoreFile) /\ WF_vars(Boot)

-----------------------------------------------------------------------------
(* Properties *)

\* The type invariant.
TypeOK ==
  /\ now \in Nat \ {0}
  /\ up \in BOOLEAN /\ schema \in {1, 2}
  /\ list \in SUBSET Domains /\ until \in Unlocks
  /\ watched \in BOOLEAN /\ stale \in BOOLEAN
  /\ file \in Documents
  /\ crashes \in Nat /\ failures \in Nat

\* Only a blocked domain waits to be unblocked, in memory and on file, through adds,
\* requests, failed writes that were rolled back, maturing requests and starts.
OnlyBlockedWait ==
  /\ \A d \in Domains : until[d] # 0 => d \in list
  /\ \A d \in Domains : file.until[d] # 0 => d \in file.domains

Durable == up => file.domains = list /\ file.until = until

\* Unless a write failed or the file was changed by somebody else, every handler that
\* changes the list has put it on disk before it lets go of the lock.
DurableUnlessFailed == failures = 0 => Durable

\* A file whose list is not the daemon's is found out by its mtime, unless there was
\* none to watch when the daemon started.
ListIsWatched == up /\ watched /\ ~stale => file.domains = list

\* A request that matured is carried out, one that was cancelled or lost is gone: no
\* domain waits for ever under a daemon that runs.
RequestsEnd == \A d \in Domains : until[d] # 0 ~> (until[d] = 0)

\* An unblock delay survives a reboot: a daemon that goes down while a request is
\* waiting comes back.
SurvivesReboot == \A d \in Domains : ~up /\ file.until[d] # 0 ~> up

-----------------------------------------------------------------------------
(* The list in memory, or while the daemon is down the one on file, keeps the     *)
(* promise of the module PermaPromise.                                            *)

Blocked == IF up THEN list ELSE file.domains

Left ==
  LET u == IF up THEN until ELSE file.until
  IN [d \in Domains |-> IF u[d] = 0 THEN -1 ELSE IF u[d] > now THEN u[d] - now ELSE 0]

Promise == INSTANCE PermaPromise WITH blocked <- Blocked, left <- Left, durable <- Durable

\* No domain gets off the list but by a request that waited out its delay, across
\* failed writes, tampering that was repaired, crashes and starts.
KeepsDelay == Promise!Spec
=============================================================================
