---------------------------- MODULE Enforcement -----------------------------
(***************************************************************************)
(* How the daemon's decisions reach the machine: /etc/hosts with a section *)
(* for the session and one for the permanent blocklist, the firewall, DNS  *)
(* and the browser policies.  The daemon's thread, which holds the         *)
(* daemon's lock, decides and does part of the work, some of it with and   *)
(* some of it without the enforcement lock.  Starting to block is left to  *)
(* threads that hold the enforcement lock for as long as they work and     *)
(* read the daemon's state as they go.                                     *)
(***************************************************************************)
EXTENDS Naturals

CONSTANTS
  Modes,                     \* of sessions: "block" (blacklist), "allow" (whitelist, ban)
  Domains,                   \* that may be blocked permanently
  MaxThreads,                \* enforcement threads there may be at once (bound)
  MaxFaults                  \* files emptied and writes that fail, together (bound)

ASSUME ConstantsAssumption ==
  Modes \subseteq {"block", "allow"} /\ MaxThreads \in Nat /\ MaxFaults \in Nat

VARIABLES
  session,               \* mode of the session, or None
  break, prayer,         \* its pomodoro is in a break; a prayer window is open
  perma,                 \* perma_blocklist
  hosts,                 \* /etc/hosts
  hostsHash, hostsStat,  \* hosts_hash (none or one); of which file _hosts_stat is
  permaHash,             \* _perma_hosts_hash ({} for None)
  fooled,                \* _perma_hosts_stat is of a file emptied since it was written
  firewall, dns, policies, proxy,
  original,              \* original_dns
  waiting,               \* how many threads of either mode wait for enforcement_lock
  worker,                \* the thread that has it
  removal, removalSaw,   \* how far the daemon's thread is in _remove_block, the file it read
  overtaken,             \* a thread was at work when focus ended or a prayer began (history)
  losses, failures       \* how often the file was emptied and a write failed (history)

decisions == <<session, break, prayer, perma, overtaken>>
files == <<hosts, hostsHash, hostsStat, permaHash, fooled>>
network == <<firewall, dns, policies, proxy, original>>
threads == <<waiting, worker>>
removing == <<removal, removalSaw>>
vars == <<decisions, files, network, threads, removing, losses, failures>>

None == "none"

Files == [session : {None, "block", "doh"}, perma : SUBSET Domains]
NoEntries == [session |-> None, perma |-> {}]

\* _hosts_stat is that of an older file, of the one that was written last, or of what
\* had become of it when the stat was taken.
Stats == {"old", "own", "other"}

Work == [at : {"idle", "read", "written", "ruled"}, does : {None, "block", "allow"},
         saw : Files, rules : {None, "base", "strict"}]
Idle == [at |-> "idle", does |-> None, saw |-> NoEntries, rules |-> None]

-----------------------------------------------------------------------------
(* What the handlers consult *)

\* A thread holds enforcement_lock for as long as it works.
LockFree == worker = Idle

AtWork == worker # Idle \/ waiting["block"] + waiting["allow"] > 0

\* Another thread may be started.
Room == waiting["block"] + waiting["allow"] + (IF worker = Idle THEN 0 ELSE 1) < MaxThreads

Queue(mode) == Room /\ waiting' = [waiting EXCEPT ![mode] = @ + 1] /\ UNCHANGED worker

\* One of the threads that wait gets the lock.
Dequeue(mode) ==
  waiting[mode] > 0 /\ LockFree /\ waiting' = [waiting EXCEPT ![mode] = @ - 1]

\* The daemon's thread is not in the middle of _remove_block.
Free == removal = None

Focusing == session # None /\ ~break /\ ~prayer

\* _enforce_firewall(True): the rules for the state it reads.
Rules == IF prayer \/ (session = "allow" /\ ~break) THEN "strict" ELSE "base"

\* Whether and with which rules _on_session_ended and _enforce_perma_block leave it.
RulesNeeded ==
  IF perma # {} \/ prayer \/ (session # None /\ ~break) THEN Rules ELSE "off"

Fault == losses + failures < MaxFaults

\* write_text raises, or does so when it has already emptied the file.
Fails(file, torn) ==
  /\ Fault /\ failures' = failures + 1
  /\ torn => losses + failures + 2 <= MaxFaults
  /\ hosts' = IF torn THEN NoEntries ELSE file
  /\ losses' = IF torn THEN losses + 1 ELSE losses

\* The daemon writes the file and takes its stat; another program may empty it between.
Writes(file, intact) ==
  \/ intact /\ hosts' = file /\ UNCHANGED losses
  \/ /\ ~intact /\ Fault /\ file # NoEntries
     /\ hosts' = NoEntries /\ losses' = losses + 1

\* What was remembered of the file is of no use once it is emptied.
Ages(torn) ==
  hostsStat' = (IF torn THEN "old" ELSE hostsStat) /\ fooled' = (fooled /\ ~torn)

-----------------------------------------------------------------------------
(* Pieces of the handlers *)

\* Mutant: the section of the permanent blocklist goes with the other.
StrippedBare(file) == NoEntries

\* _strip_block
Stripped(file) == [file EXCEPT !.session = None]

\* Mutant: a prayer window gives way to the session.
EnforceCurrentAlways ==
  Queue(session') /\ firewall' = IF prayer' THEN "base" ELSE firewall

\* _enforce_current_mode: a prayer keeps its priority, the session's block is left to a thread.
EnforceCurrent ==
  IF prayer' THEN firewall' = Rules' /\ UNCHANGED threads
             ELSE Queue(session') /\ UNCHANGED firewall

\* _enforce_perma_block, which takes the lock.  When writing the file raises, the old
\* hash stays.
EnforcePerma ==
  /\ LockFree
  /\ \/ \E intact \in BOOLEAN :
          /\ Writes([hosts EXCEPT !.perma = perma'], intact)
          /\ hostsStat' = "old" /\ fooled' = ~intact
          /\ permaHash' = perma' /\ firewall' = RulesNeeded' /\ UNCHANGED failures
     \/ \E torn \in BOOLEAN :
          /\ Fails(hosts, torn)
          /\ hostsStat' = (IF torn THEN "old" ELSE hostsStat) /\ fooled' = FALSE
          /\ UNCHANGED <<permaHash, firewall>>

\* Mutant: DNS stays as it is.
UndoWithoutDns == policies' = FALSE /\ proxy' = (proxy /\ session # "allow") /\ UNCHANGED dns

\* Mutant: DNS goes back to what was saved, even if nothing was.
UndoUnsaved == policies' = FALSE /\ proxy' = (proxy /\ session # "allow") /\ dns' = original

\* _on_session_ended, past the file: DNS goes back to what was saved, or else to the
\* defaults of the network; only a session that started the proxy stops it.
UndoNetwork ==
  /\ dns' = IF original = None THEN "default" ELSE original
  /\ policies' = FALSE /\ proxy' = (proxy /\ session # "allow")

\* _enforce_block, up to its end, in the daemon's thread.
EnforceBlock ==
  /\ LockFree
  /\ \/ LET file == [hosts EXCEPT !.session = "block"] IN
        \E intact \in BOOLEAN :
          /\ Writes(file, intact) /\ fooled' = FALSE
          /\ hostsHash' = {file} /\ hostsStat' = (IF intact THEN "own" ELSE "other")
          /\ firewall' = Rules /\ policies' = TRUE /\ UNCHANGED failures
     \/ \E torn \in BOOLEAN :
          Fails(hosts, torn) /\ Ages(torn) /\ UNCHANGED <<hostsHash, firewall, policies>>

-----------------------------------------------------------------------------
(* The daemon's thread: commands and the watchdog *)

\* _start_session emits SESSION_STARTED.
Start(mode) ==
  /\ Free /\ session = None /\ session' = mode
  /\ UNCHANGED <<break, prayer, perma, overtaken>>
  /\ EnforceCurrent
  /\ UNCHANGED <<files, dns, policies, proxy, original,
                 removing, losses, failures>>

\* _cleanup_session, all of it under the lock.  If the file cannot be written nothing
\* is undone, and the session is over all the same.
Expire ==
  /\ Free /\ LockFree /\ session # None /\ ~prayer
  /\ session' = None /\ break' = FALSE /\ overtaken' = (overtaken \/ AtWork)
  /\ UNCHANGED <<prayer, perma>>
  /\ \/ \E intact \in BOOLEAN :
          /\ Writes([Stripped(hosts) EXCEPT !.perma = perma], intact) /\ fooled' = ~intact
          /\ permaHash' = perma
          /\ UndoNetwork /\ firewall' = RulesNeeded' /\ UNCHANGED failures
     \/ \E torn \in BOOLEAN :
          /\ Fails(Stripped(hosts), torn) /\ fooled' = FALSE
          /\ UndoNetwork /\ firewall' = RulesNeeded' /\ UNCHANGED permaHash
     \/ \E torn \in BOOLEAN :
          /\ Fails(hosts, torn) /\ fooled' = (fooled /\ ~torn)
          /\ UNCHANGED <<permaHash, dns, policies, proxy, firewall>>
  /\ hostsHash' = {} /\ hostsStat' = "old" /\ original' = None
  /\ UNCHANGED <<threads, removing>>

\* _transition_pomodoro_phase from focus; _remove_block follows.
BeginBreak ==
  /\ Free /\ Focusing /\ break' = TRUE /\ overtaken' = (overtaken \/ AtWork)
  /\ removal' = "begun"
  /\ UNCHANGED <<session, prayer, perma, files, network, threads, removalSaw, losses, failures>>

EndBreak ==
  /\ Free /\ session # None /\ break /\ ~prayer /\ break' = FALSE
  /\ UNCHANGED <<session, prayer, perma, overtaken>>
  /\ EnforceCurrent
  /\ UNCHANGED <<files, dns, policies, proxy, original,
                 removing, losses, failures>>

\* _check_prayer_blocks, _enforce_prayer_ban
PrayerStarts ==
  /\ Free /\ ~prayer /\ prayer' = TRUE /\ overtaken' = (overtaken \/ AtWork)
  /\ UNCHANGED <<session, break, perma>>
  /\ firewall' = Rules' /\ policies' = TRUE
  /\ UNCHANGED <<files, dns, proxy, original, threads, removing,
                 losses, failures>>

\* _check_prayer_blocks: any session, in its break or not, is enforced again.
PrayerEnds ==
  /\ Free /\ prayer /\ prayer' = FALSE
  /\ UNCHANGED <<session, break, perma, overtaken>>
  /\ IF session # None THEN EnforceCurrent /\ UNCHANGED removal
                       ELSE removal' = "begun" /\ UNCHANGED <<threads, firewall>>
  /\ UNCHANGED <<files, dns, policies, proxy, original, removalSaw, losses, failures>>

\* _check_reenforce_signal
Reenforce ==
  /\ Free /\ session # None /\ ~break
  /\ UNCHANGED decisions
  /\ EnforceCurrent
  /\ UNCHANGED <<files, dns, policies, proxy, original, removing,
                 losses, failures>>

\* _remove_block: the file is read, ...
RemoveRead ==
  /\ removal = "begun" /\ removal' = "read" /\ removalSaw' = hosts
  /\ UNCHANGED <<decisions, files, network, threads, losses, failures>>

\* ... and written without its session section, by somebody who does not hold the
\* enforcement lock.  If that raises nothing else is undone.
RemoveWrite ==
  /\ removal = "read"
  /\ \/ /\ hosts' = Stripped(removalSaw) /\ hostsHash' = {} /\ Ages(TRUE)
        /\ UndoNetwork /\ firewall' = RulesNeeded
        /\ removal' = "undone" /\ UNCHANGED <<losses, failures>>
     \/ \E torn \in BOOLEAN :
          /\ Fails(hosts, torn) /\ Ages(torn) /\ removal' = None
          /\ UNCHANGED <<hostsHash, dns, policies, proxy, firewall>>
  /\ removalSaw' = NoEntries
  /\ UNCHANGED <<decisions, permaHash, original, threads>>

RemovePerma ==
  /\ removal = "undone" /\ removal' = None
  /\ UNCHANGED decisions /\ EnforcePerma
  /\ UNCHANGED <<hostsHash, dns, policies, proxy, original, threads, removalSaw>>

\* cmd_add_perma_block, and a request that matures.
ChangePerma(list) ==
  /\ Free /\ perma' = list /\ list # perma
  /\ UNCHANGED <<session, break, prayer, overtaken>>
  /\ EnforcePerma
  /\ UNCHANGED <<hostsHash, dns, policies, proxy, original, threads, removing>>

-----------------------------------------------------------------------------
(* The watchdog's checks *)

\* Mutant: without a hash there is nothing to compare.
HostsCheckHashed ==
  /\ Free /\ Focusing /\ session = "block" /\ hostsStat = "old"
  /\ hostsHash \notin {{}, {hosts}} /\ EnforceBlock
  /\ UNCHANGED <<decisions, permaHash, dns, proxy, original, threads, removing>>

\* _check_hosts_tamper.  Sections that moved in the file change its hash, too.
HostsCheck ==
  /\ Free /\ Focusing /\ session = "block" /\ hostsStat = "old"
  /\ \/ EnforceBlock
     \/ /\ hostsHash = {hosts} /\ hostsStat' = "own"
        /\ UNCHANGED <<hosts, hostsHash, fooled, firewall, policies, losses, failures>>
  /\ UNCHANGED <<decisions, permaHash, dns, proxy, original, threads, removing>>

\* Mutant: an entry that was in the file once is taken to be there.
PermaCheckOnce ==
  /\ Free /\ perma # {} /\ permaHash = {}
  /\ UNCHANGED decisions /\ EnforcePerma
  /\ UNCHANGED <<hostsHash, dns, policies, proxy, original, threads, removing>>

\* _check_perma_blocklist.  The section is compared unless the stat is the file's.
PermaCheck ==
  /\ Free /\ perma # {} /\ (permaHash = {} \/ (~fooled /\ hosts.perma # permaHash))
  /\ UNCHANGED decisions /\ EnforcePerma
  /\ UNCHANGED <<hostsHash, dns, policies, proxy, original, threads, removing>>

\* _check_firewall_tamper: any rules of the daemon's will do.
FirewallCheck ==
  /\ Free /\ Focusing /\ firewall = "off" /\ firewall' = Rules
  /\ UNCHANGED <<decisions, files, dns, policies, proxy, original, threads, removing,
                 losses, failures>>

\* _check_dns_proxy, _verify_dns_redirect
DnsCheck ==
  /\ Free /\ Focusing /\ session = "allow" /\ dns # "local" /\ dns' = "local"
  /\ UNCHANGED <<decisions, files, firewall, policies, proxy, original, threads, removing,
                 losses, failures>>

-----------------------------------------------------------------------------
(* The threads *)

Quit == worker' = Idle

\* _enforce_block gets the lock and reads the file.  After the session's end it has no
\* expiry to write into it, and gives up.
ReadToBlock ==
  /\ Dequeue("block")
  /\ worker' = IF session = None THEN Idle
               ELSE [at |-> "read", does |-> "block", saw |-> hosts, rules |-> None]
  /\ UNCHANGED <<decisions, files, network, removing, losses, failures>>

\* _enforce_whitelist gets the lock, saves the DNS settings unless it has them, which
\* never show the proxy's, starts the proxy and directs DNS to it, whatever became of
\* the session, and reads the file.
ReadToAllow ==
  /\ Dequeue("allow")
  /\ original' = IF original # None THEN original ELSE IF dns = "own" THEN "own" ELSE "default"
  /\ proxy' = TRUE /\ dns' = "local"
  /\ worker' = [at |-> "read", does |-> "allow", saw |-> hosts, rules |-> None]
  /\ UNCHANGED <<decisions, files, firewall, policies, removing, losses, failures>>

WriteBlock ==
  /\ worker.at = "read" /\ worker.does = "block"
  /\ LET file == [worker.saw EXCEPT !.session = "block"] IN
     \/ /\ hosts' = file /\ Ages(TRUE)
        /\ worker' = [worker EXCEPT !.at = "written", !.saw = file]
        /\ UNCHANGED <<losses, failures>>
     \/ \E torn \in BOOLEAN : Fails(hosts, torn) /\ Ages(torn) /\ Quit
  /\ UNCHANGED <<decisions, hostsHash, permaHash, network, waiting, removing>>

\* _enforce_doh_block keeps its exceptions to itself.
WriteDoh ==
  /\ worker.at = "read" /\ worker.does = "allow"
  /\ \/ /\ session # None
        /\ hosts' = [worker.saw EXCEPT !.session = "doh"] /\ Ages(TRUE)
        /\ UNCHANGED <<losses, failures>>
     \/ session = None /\ UNCHANGED <<hosts, hostsStat, fooled, losses, failures>>
     \/ \E torn \in BOOLEAN : Fails(hosts, torn) /\ Ages(torn)
  /\ worker' = [worker EXCEPT !.at = "written", !.saw = NoEntries]
  /\ UNCHANGED <<decisions, hostsHash, permaHash, network, waiting, removing>>

\* _enforce_firewall reads the state and makes its rules, ...
MakeRules ==
  /\ worker.at = "written"
  /\ worker' = [worker EXCEPT !.at = "ruled", !.rules = Rules]
  /\ UNCHANGED <<decisions, files, network, waiting, removing, losses, failures>>

\* ... and loads them.  In the end _enforce_block keeps the hash of what it wrote, and
\* the stat of whatever file is there.
LoadRules ==
  /\ worker.at = "ruled"
  /\ firewall' = worker.rules /\ policies' = TRUE
  /\ IF worker.does = "block"
     THEN /\ hostsHash' = {worker.saw}
          /\ hostsStat' = IF hosts = worker.saw THEN "own" ELSE "other"
     ELSE UNCHANGED <<hostsHash, hostsStat>>
  /\ Quit
  /\ UNCHANGED <<decisions, hosts, permaHash, fooled, dns, proxy, original, waiting, removing,
                 losses, failures>>

-----------------------------------------------------------------------------

\* Some other program replaces /etc/hosts, at any time.
Tamper ==
  /\ Fault /\ losses' = losses + 1
  /\ hosts # NoEntries /\ hosts' = NoEntries /\ Ages(TRUE)
  /\ UNCHANGED <<decisions, hostsHash, permaHash, network, threads, removing, failures>>

Init ==
  /\ session = None /\ break = FALSE /\ prayer = FALSE /\ perma = {} /\ overtaken = FALSE
  /\ hosts = NoEntries /\ hostsHash = {} /\ hostsStat = "old"
  /\ permaHash = {} /\ fooled = FALSE
  /\ firewall = "off" /\ dns = "own" /\ policies = FALSE /\ proxy = FALSE /\ original = None
  /\ waiting = [mode \in {"block", "allow"} |-> 0] /\ worker = Idle
  /\ removal = None /\ removalSaw = NoEntries
  /\ losses = 0 /\ failures = 0

Daemon ==
  \/ \E mode \in Modes : Start(mode)
  \/ \E list \in SUBSET Domains : ChangePerma(list)
  \/ Expire \/ BeginBreak \/ EndBreak \/ PrayerStarts \/ PrayerEnds \/ Reenforce
  \/ RemoveRead \/ RemoveWrite \/ RemovePerma
  \/ HostsCheck \/ PermaCheck \/ FirewallCheck \/ DnsCheck

Thread == ReadToBlock \/ ReadToAllow \/ WriteBlock \/ WriteDoh \/ MakeRules \/ LoadRules

Next == Daemon \/ Thread \/ Tamper

Spec == Init /\ [][Next]_vars

\* Some thread that can get on does, and the watchdog loops.  The daemon's thread gets
\* the enforcement lock in the end when it waits for it: it starts no new threads
\* meanwhile, and the work of those there are is finite.
FairSpec ==
  /\ Spec
  /\ WF_vars(RemoveRead) /\ WF_vars(RemoveWrite) /\ SF_vars(RemovePerma)
  /\ SF_vars(HostsCheck) /\ SF_vars(PermaCheck)
  /\ WF_vars(Thread)

-----------------------------------------------------------------------------
(* Properties *)

\* The type invariant.
TypeOK ==
  /\ session \in {None} \cup Modes /\ break \in BOOLEAN /\ prayer \in BOOLEAN
  /\ perma \in SUBSET Domains /\ overtaken \in BOOLEAN
  /\ hosts \in Files /\ hostsHash \in SUBSET Files /\ hostsStat \in Stats
  /\ permaHash \in SUBSET Domains /\ fooled \in BOOLEAN
  /\ firewall \in {"off", "base", "strict"}
  /\ dns \in {"own", "default", "local"} /\ original \in {None, "own", "default"}
  /\ policies \in BOOLEAN /\ proxy \in BOOLEAN
  /\ waiting \in [{"block", "allow"} -> Nat] /\ worker \in Work
  /\ removal \in {None, "begun", "read", "undone"} /\ removalSaw \in Files
  /\ losses \in Nat /\ failures \in Nat

\* The threads and _remove_block, which read and rewrite the same file under different
\* locks, never lose an entry of the permanent blocklist, unless the file was emptied.
PermaKept == losses = 0 => hosts.perma = permaHash

\* Unless a thread was still at work when focus ended, or a write failed, nothing of a
\* session or a prayer is left on an idle machine.
IdleIsClean ==
  Free /\ ~AtWork /\ session = None /\ ~prayer /\ ~overtaken /\ failures = 0
    => /\ hosts.session = None /\ firewall = RulesNeeded
       /\ dns # "local" /\ ~policies /\ ~proxy

\* Unless a thread was at work when the prayer began, its ban holds from its first moment.
BanHolds == prayer /\ ~overtaken => firewall = "strict"

\* The prayer's ban holds whenever nobody is working on the firewall.
BanIsAbsolute == prayer /\ ~AtWork => firewall = "strict"

\* A blacklist in focus gets its entries into the file, in spite of breaks that begin
\* while a thread is writing, and in spite of failing writes and of other programs that
\* empty the file.  The exception: something has failed or was emptied, and _hosts_stat
\* is that of a file which was changed between its writing and its stat, as the watchdog
\* then takes the file for its own.
FocusGetsBlocked ==
  Focusing /\ session = "block"
    ~> \/ hosts.session = "block" \/ ~(Focusing /\ session = "block")
       \/ losses + failures > 0 /\ hostsStat = "other"

\* The file comes to have the entries of the permanent blocklist, in spite of failing
\* writes and of other programs that empty it.  The exceptions: the file was emptied
\* between the writing of these entries and its stat; or a newer list could not be
\* written over an older one, whose hash is still the file's.
PermaGetsBlocked ==
  hosts.perma # perma
    ~> \/ hosts.perma = perma \/ fooled
       \/ failures > 0 /\ permaHash # {} /\ hosts.perma = permaHash
=============================================================================
