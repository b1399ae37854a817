------------------------- MODULE Enforcement_proofs -------------------------
(***************************************************************************)
(* Proofs about Enforcement, for any number of threads, domains and        *)
(* faults: its types, that no entry of the permanent blocklist is lost,    *)
(* that the ban of a prayer holds unless it met a thread at work, and that *)
(* nothing of a session is left on an idle machine.                        *)
(***************************************************************************)
EXTENDS Enforcement, TLAPS

-----------------------------------------------------------------------------
(* Types *)

\* A thread that is about to load rules has made them; needed for the type of firewall.
HaveRules == worker.at = "ruled" => worker.rules # None

LEMMA NoEntriesOK == NoEntries \in Files /\ Idle \in Work
BY DEF NoEntries, Idle, Files, Work, None

LEMMA FileOK ==
  ASSUME NEW f \in Files
  PROVE  /\ \A s \in {None, "block", "doh"} :
              [f EXCEPT !.session = s] \in Files /\ [f EXCEPT !.session = s].perma = f.perma
         /\ \A p \in SUBSET Domains : [f EXCEPT !.perma = p] \in Files
BY DEF Files

LEMMA StrippedOK ==
  ASSUME NEW f \in Files
  PROVE  Stripped(f) \in Files /\ Stripped(f).perma = f.perma
BY FileOK DEF Stripped

LEMMA RulesOK ==
  Rules \in {"base", "strict"} /\ RulesNeeded \in {"off", "base", "strict"}
BY DEF Rules, RulesNeeded

\* The rules of the state after a step.
LEMMA NextRulesOK ==
  Rules' \in {"base", "strict"} /\ RulesNeeded' \in {"off", "base", "strict"}
BY DEF Rules, RulesNeeded

LEMMA QueueOK ==
  ASSUME TypeOK, NEW mode \in {None} \cup Modes, Queue(mode)
  PROVE  waiting' \in [{"block", "allow"} -> Nat] /\ worker' \in Work
<1>1. /\ waiting' = [waiting EXCEPT ![mode] = waiting[mode] + 1] /\ worker' = worker
      /\ waiting \in [{"block", "allow"} -> Nat] /\ worker \in Work
  BY DEF TypeOK, Queue
<1>2. CASE mode \in {"block", "allow"}
  <2>1. waiting[mode] + 1 \in Nat
    BY <1>1, <1>2
  <2> QED BY <1>1, <2>1
<1>3. CASE mode \notin {"block", "allow"}
  BY <1>1, <1>3
<1> QED BY <1>2, <1>3

LEMMA EnforceCurrentOK ==
  ASSUME TypeOK, session' \in {None} \cup Modes, EnforceCurrent
  PROVE  /\ waiting' \in [{"block", "allow"} -> Nat] /\ worker' \in Work
         /\ firewall' \in {"off", "base", "strict"}
<1>1. CASE prayer'
  BY <1>1, NextRulesOK DEF EnforceCurrent, TypeOK, threads
<1>2. CASE ~prayer'
  BY <1>2, QueueOK DEF EnforceCurrent, TypeOK
<1> QED BY <1>1, <1>2

\* What writing the file may leave behind.
LEMMA FailsOK ==
  ASSUME TypeOK, NEW file \in Files, NEW torn \in BOOLEAN, Fails(file, torn)
  PROVE  /\ hosts' \in Files /\ losses' \in Nat /\ failures' = failures + 1
         /\ hosts' = NoEntries \/ hosts' = file
         /\ losses' = 0 => losses = 0 /\ hosts' = file
BY NoEntriesOK DEF Fails, TypeOK

LEMMA WritesOK ==
  ASSUME TypeOK, NEW file \in Files, NEW intact \in BOOLEAN, Writes(file, intact)
  PROVE  /\ hosts' \in Files /\ losses' \in Nat
         /\ hosts' = NoEntries \/ hosts' = file
         /\ losses' = 0 => losses = 0 /\ hosts' = file
BY NoEntriesOK DEF Writes, TypeOK

LEMMA AgesOK ==
  ASSUME TypeOK, NEW torn \in BOOLEAN, Ages(torn)
  PROVE  hostsStat' \in Stats /\ fooled' \in BOOLEAN
BY DEF Ages, Stats, TypeOK

\* As long as the file was never emptied, it has the permanent entries of before or
\* those whose hash is kept.
LEMMA EnforcePermaOK ==
  ASSUME TypeOK, perma' \in SUBSET Domains, EnforcePerma
  PROVE  /\ hosts' \in Files /\ hostsStat' \in Stats /\ permaHash' \in SUBSET Domains
         /\ fooled' \in BOOLEAN /\ firewall' \in {"off", "base", "strict"}
         /\ losses' \in Nat /\ failures' \in Nat
         /\ hosts'.session \in {None, hosts.session}
         /\ losses' = 0 => /\ losses = 0
                           /\ \/ hosts'.perma = permaHash'
                              \/ hosts'.perma = hosts.perma /\ permaHash' = permaHash
         /\ \/ failures' = failures + 1
            \/ failures' = failures /\ firewall' = RulesNeeded'
         /\ firewall' = firewall \/ firewall' = RulesNeeded'
<1> DEFINE file == [hosts EXCEPT !.perma = perma']
<1>1. file \in Files /\ file.session = hosts.session /\ file.perma = perma'
  BY DEF TypeOK, Files
<1>2. NoEntries.session = None /\ failures \in Nat /\ firewall \in {"off", "base", "strict"}
  BY DEF NoEntries, TypeOK
<1> HIDE DEF file
<1>3. CASE \E intact \in BOOLEAN :
             /\ Writes(file, intact) /\ hostsStat' = "old" /\ fooled' = ~intact
             /\ permaHash' = perma' /\ firewall' = RulesNeeded' /\ UNCHANGED failures
  BY <1>1, <1>2, <1>3, WritesOK, NextRulesOK DEF Stats
<1>4. CASE \E torn \in BOOLEAN :
             /\ Fails(hosts, torn)
             /\ hostsStat' = (IF torn THEN "old" ELSE hostsStat) /\ fooled' = FALSE
             /\ UNCHANGED <<permaHash, firewall>>
  <2>1. PICK torn \in BOOLEAN :
             /\ Fails(hosts, torn)
             /\ hostsStat' = (IF torn THEN "old" ELSE hostsStat) /\ fooled' = FALSE
             /\ UNCHANGED <<permaHash, firewall>>
    BY <1>4
  <2>2. hostsStat' \in Stats /\ permaHash' \in SUBSET Domains /\ fooled' \in BOOLEAN
    BY <2>1 DEF TypeOK, Stats
  <2>3. /\ hosts' \in Files /\ losses' \in Nat /\ failures' = failures + 1
        /\ hosts' = NoEntries \/ hosts' = hosts
        /\ losses' = 0 => losses = 0 /\ hosts' = hosts
    BY <2>1, FailsOK DEF TypeOK
  <2> QED BY <1>2, <2>1, <2>2, <2>3
<1> QED BY <1>3, <1>4 DEF EnforcePerma, file

LEMMA EnforceBlockOK ==
  ASSUME TypeOK, EnforceBlock
  PROVE  /\ hosts' \in Files /\ hostsHash' \in SUBSET Files /\ hostsStat' \in Stats
         /\ fooled' \in BOOLEAN /\ policies' \in BOOLEAN
         /\ firewall' \in {"off", "base", "strict"} /\ losses' \in Nat /\ failures' \in Nat
         /\ failures' = failures \/ failures' = failures + 1
         /\ losses' = 0 => losses = 0 /\ hosts'.perma = hosts.perma
<1> DEFINE file == [hosts EXCEPT !.session = "block"]
<1>1. file \in Files /\ file.perma = hosts.perma
  BY DEF TypeOK, Files
<1> HIDE DEF file
<1>2. CASE \E intact \in BOOLEAN :
             /\ Writes(file, intact) /\ fooled' = FALSE
             /\ hostsHash' = {file} /\ hostsStat' = (IF intact THEN "own" ELSE "other")
             /\ firewall' = Rules /\ policies' = TRUE /\ UNCHANGED failures
  BY <1>1, <1>2, WritesOK, RulesOK DEF Stats, TypeOK
<1>3. CASE \E torn \in BOOLEAN :
             Fails(hosts, torn) /\ Ages(torn) /\ UNCHANGED <<hostsHash, firewall, policies>>
  BY <1>3, FailsOK, AgesOK DEF TypeOK
<1> QED BY <1>2, <1>3 DEF EnforceBlock, file

LEMMA UndoNetworkOK ==
  ASSUME TypeOK, UndoNetwork
  PROVE  dns' \in {"own", "default", "local"} /\ policies' \in BOOLEAN /\ proxy' \in BOOLEAN
BY DEF UndoNetwork, TypeOK, None

LEMMA SessionsTyped ==
  ASSUME TypeOK,
         (\E mode \in Modes : Start(mode)) \/ EndBreak \/ PrayerStarts \/ PrayerEnds
         \/ Reenforce \/ BeginBreak
  PROVE  TypeOK'
<1>1. ASSUME NEW mode \in Modes, Start(mode) PROVE TypeOK'
  BY <1>1, EnforceCurrentOK DEF Start, TypeOK, files, removing
<1>2. CASE EndBreak \/ Reenforce
  <2>1. session' = session /\ session \in {None} \cup Modes /\ EnforceCurrent
    BY <1>2 DEF EndBreak, Reenforce, decisions, TypeOK
  <2>2. /\ waiting' \in [{"block", "allow"} -> Nat] /\ worker' \in Work
        /\ firewall' \in {"off", "base", "strict"}
    BY <2>1, EnforceCurrentOK
  <2>3. CASE EndBreak
    BY <2>2, <2>3 DEF EndBreak, TypeOK, files, removing
  <2>4. CASE Reenforce
    BY <2>2, <2>4 DEF Reenforce, TypeOK, files, removing, decisions
  <2> QED BY <1>2, <2>3, <2>4
<1>3. CASE PrayerStarts
  BY <1>3, NextRulesOK DEF PrayerStarts, TypeOK, files, removing, threads, AtWork
<1>4. CASE PrayerEnds
  <2>1. session' = session /\ session \in {None} \cup Modes
    BY <1>4 DEF PrayerEnds, TypeOK
  <2>2. /\ waiting' \in [{"block", "allow"} -> Nat] /\ worker' \in Work
        /\ firewall' \in {"off", "base", "strict"}
    BY <1>4, <2>1, EnforceCurrentOK DEF PrayerEnds, TypeOK, threads
  <2> QED BY <1>4, <2>2 DEF PrayerEnds, TypeOK, files
<1>5. CASE BeginBreak
  BY <1>5 DEF BeginBreak, TypeOK, files, network, threads, AtWork
<1> QED BY <1>1, <1>2, <1>3, <1>4, <1>5

\* What the end of a session makes of the machine.
LEMMA ExpireOK ==
  ASSUME TypeOK, Expire
  PROVE  /\ hosts' \in Files /\ permaHash' \in SUBSET Domains /\ fooled' \in BOOLEAN
         /\ firewall' \in {"off", "base", "strict"} /\ losses' \in Nat /\ failures' \in Nat
         /\ dns' \in {"own", "default", "local"} /\ policies' \in BOOLEAN /\ proxy' \in BOOLEAN
         /\ losses' = 0 => /\ losses = 0
                           /\ \/ hosts'.perma = permaHash'
                              \/ hosts'.perma = hosts.perma /\ permaHash' = permaHash
         /\ \/ failures' = failures + 1
            \/ /\ failures' = failures /\ hosts'.session = None
               /\ UndoNetwork /\ firewall' = RulesNeeded'
<1> DEFINE file == [Stripped(hosts) EXCEPT !.perma = perma]
           bare == Stripped(hosts)
<1>1. /\ bare \in Files /\ bare.perma = hosts.perma
      /\ file \in Files /\ file.session = None /\ file.perma = perma
  BY StrippedOK DEF TypeOK, Files, Stripped
<1>2. NoEntries.session = None /\ failures \in Nat /\ hosts \in Files
  BY DEF NoEntries, TypeOK
<1> HIDE DEF file, bare
<1>3. CASE \E intact \in BOOLEAN :
             /\ Writes(file, intact) /\ fooled' = ~intact /\ permaHash' = perma
             /\ UndoNetwork /\ firewall' = RulesNeeded' /\ UNCHANGED failures
  BY <1>1, <1>2, <1>3, WritesOK, UndoNetworkOK, NextRulesOK DEF TypeOK
<1>4. CASE \E torn \in BOOLEAN :
             /\ Fails(bare, torn) /\ fooled' = FALSE
             /\ UndoNetwork /\ firewall' = RulesNeeded' /\ UNCHANGED permaHash
  <2>1. /\ hosts' \in Files /\ losses' \in Nat /\ failures' = failures + 1
        /\ losses' = 0 => losses = 0 /\ hosts' = bare
    BY <1>1, <1>4, FailsOK
  <2>2. permaHash' = permaHash /\ permaHash \in SUBSET Domains /\ fooled' \in BOOLEAN
    BY <1>4 DEF TypeOK
  <2>3. UndoNetwork /\ firewall' = RulesNeeded'
    BY <1>4
  <2> QED BY <1>1, <1>2, <2>1, <2>2, <2>3, UndoNetworkOK, NextRulesOK
<1>5. CASE \E torn \in BOOLEAN :
             /\ Fails(hosts, torn) /\ fooled' = (fooled /\ ~torn)
             /\ UNCHANGED <<permaHash, dns, policies, proxy, firewall>>
  <2>1. PICK torn \in BOOLEAN :
             /\ Fails(hosts, torn) /\ fooled' = (fooled /\ ~torn)
             /\ UNCHANGED <<permaHash, dns, policies, proxy, firewall>>
    BY <1>5
  <2>2. fooled' \in BOOLEAN
    BY <2>1
  <2> QED BY <1>2, <2>1, <2>2, FailsOK DEF TypeOK
<1> QED BY <1>3, <1>4, <1>5 DEF Expire, file, bare

LEMMA ExpireTyped ==
  ASSUME TypeOK, Expire
  PROVE  TypeOK'
<1>1. hostsStat' \in Stats /\ hostsHash' = {} /\ original' = None /\ session' = None
  BY DEF Expire, Stats
<1>2. /\ break' \in BOOLEAN /\ overtaken' \in BOOLEAN
      /\ UNCHANGED <<prayer, perma, threads, removing>>
  BY DEF Expire
<1> QED BY <1>1, <1>2, ExpireOK DEF TypeOK, removing, threads

\* What _remove_block makes of the machine.
LEMMA RemoveWriteOK ==
  ASSUME TypeOK, RemoveWrite
  PROVE  /\ hosts' \in Files /\ hostsHash' \in SUBSET Files /\ hostsStat' \in Stats
         /\ fooled' \in BOOLEAN /\ firewall' \in {"off", "base", "strict"}
         /\ losses' \in Nat /\ failures' \in Nat
         /\ dns' \in {"own", "default", "local"} /\ policies' \in BOOLEAN /\ proxy' \in BOOLEAN
         /\ removal' \in {None, "undone"}
         /\ losses' = 0 => /\ losses = 0
                           /\ hosts'.perma = hosts.perma \/ hosts'.perma = removalSaw.perma
         /\ \/ failures' = failures + 1 /\ firewall' = firewall
            \/ /\ failures' = failures /\ hosts'.session = None /\ removal' = "undone"
               /\ UndoNetwork /\ firewall' = RulesNeeded
<1>1. /\ Stripped(removalSaw) \in Files /\ Stripped(removalSaw).session = None
      /\ Stripped(removalSaw).perma = removalSaw.perma
  BY StrippedOK DEF TypeOK, Files, Stripped
<1>2. failures \in Nat /\ losses \in Nat /\ hosts \in Files
  BY DEF TypeOK
<1>3. CASE /\ hosts' = Stripped(removalSaw) /\ hostsHash' = {} /\ Ages(TRUE)
           /\ UndoNetwork /\ firewall' = RulesNeeded
           /\ removal' = "undone" /\ UNCHANGED <<losses, failures>>
  BY <1>1, <1>2, <1>3, AgesOK, UndoNetworkOK, RulesOK
<1>4. CASE \E torn \in BOOLEAN :
             /\ Fails(hosts, torn) /\ Ages(torn) /\ removal' = None
             /\ UNCHANGED <<hostsHash, dns, policies, proxy, firewall>>
  BY <1>2, <1>4, FailsOK, AgesOK DEF TypeOK
<1> QED BY <1>3, <1>4 DEF RemoveWrite

LEMMA RemovalTyped ==
  ASSUME TypeOK, RemoveRead \/ RemoveWrite \/ RemovePerma
  PROVE  TypeOK'
<1>1. CASE RemoveRead
  BY <1>1 DEF RemoveRead, TypeOK, decisions, files, network, threads
<1>2. CASE RemoveWrite
  <2>1. removalSaw' = NoEntries /\ UNCHANGED <<decisions, permaHash, original, threads>>
    BY <1>2 DEF RemoveWrite
  <2> QED BY <1>2, <2>1, RemoveWriteOK, NoEntriesOK DEF TypeOK, decisions, threads
<1>3. CASE RemovePerma
  BY <1>3, EnforcePermaOK DEF RemovePerma, TypeOK, decisions, threads
<1> QED BY <1>1, <1>2, <1>3

LEMMA ChecksTyped ==
  ASSUME TypeOK,
         (\E list \in SUBSET Domains : ChangePerma(list)) \/ HostsCheck \/ PermaCheck
         \/ FirewallCheck \/ DnsCheck
  PROVE  TypeOK'
<1>1. ASSUME NEW list \in SUBSET Domains, ChangePerma(list) PROVE TypeOK'
  BY <1>1, EnforcePermaOK DEF ChangePerma, TypeOK, removing, threads
<1>2. CASE HostsCheck
  <2>1. /\ hosts' \in Files /\ hostsHash' \in SUBSET Files /\ hostsStat' \in Stats
        /\ fooled' \in BOOLEAN /\ policies' \in BOOLEAN
        /\ firewall' \in {"off", "base", "strict"} /\ losses' \in Nat /\ failures' \in Nat
    BY <1>2, EnforceBlockOK DEF HostsCheck, TypeOK, Stats
  <2> QED BY <1>2, <2>1 DEF HostsCheck, TypeOK, decisions, removing, threads
<1>3. CASE PermaCheck
  BY <1>3, EnforcePermaOK DEF PermaCheck, TypeOK, decisions, removing, threads
<1>4. CASE FirewallCheck
  BY <1>4, RulesOK, NextRulesOK DEF FirewallCheck, TypeOK, decisions, files, removing, threads
<1>5. CASE DnsCheck
  BY <1>5 DEF DnsCheck, TypeOK, decisions, files, removing, threads
<1> QED BY <1>1, <1>2, <1>3, <1>4, <1>5

LEMMA DequeueOK ==
  ASSUME TypeOK, NEW mode \in {"block", "allow"}, Dequeue(mode)
  PROVE  waiting' \in [{"block", "allow"} -> Nat]
BY DEF Dequeue, TypeOK

\* What the thread that has the lock makes of the file.
LEMMA ThreadWritesOK ==
  ASSUME TypeOK, WriteBlock \/ WriteDoh
  PROVE  /\ worker' \in Work /\ hosts' \in Files /\ hostsStat' \in Stats
         /\ fooled' \in BOOLEAN /\ losses' \in Nat /\ failures' \in Nat
         /\ failures' = failures \/ failures' = failures + 1
         /\ worker'.at \in {"idle", "written"} /\ worker.at = "read"
         /\ worker' = Idle \/ worker'.does = worker.does
         /\ losses' = 0 => /\ losses = 0
                           /\ hosts'.perma = hosts.perma \/ hosts'.perma = worker.saw.perma
<1> DEFINE file == [worker.saw EXCEPT !.session = "block"]
           doh == [worker.saw EXCEPT !.session = "doh"]
<1>1. /\ file \in Files /\ file.perma = worker.saw.perma
      /\ doh \in Files /\ doh.perma = worker.saw.perma
  BY DEF TypeOK, Work, Files
<1>2. failures \in Nat /\ losses \in Nat /\ hosts \in Files /\ worker \in Work
  BY DEF TypeOK
<1> HIDE DEF file, doh
<1>3. \A f \in Files : LET w == [worker EXCEPT !.at = "written", !.saw = f] IN
        w \in Work /\ w.at = "written" /\ w.does = worker.does
  BY <1>2 DEF Work
<1>4. Idle.at = "idle"
  BY DEF Idle
<1>5. CASE WriteBlock
  <2>1. CASE /\ hosts' = file /\ Ages(TRUE)
             /\ worker' = [worker EXCEPT !.at = "written", !.saw = file]
             /\ UNCHANGED <<losses, failures>>
    BY <1>1, <1>2, <1>3, <1>5, <2>1, AgesOK DEF WriteBlock
  <2>2. CASE \E torn \in BOOLEAN : Fails(hosts, torn) /\ Ages(torn) /\ Quit
    BY <1>2, <1>4, <1>5, <2>2, FailsOK, AgesOK, NoEntriesOK DEF Quit, WriteBlock
  <2> QED BY <1>5, <2>1, <2>2 DEF WriteBlock, file
<1>6. CASE WriteDoh
  <2>1. /\ worker' \in Work /\ worker'.at = "written" /\ worker'.does = worker.does
        /\ worker.at = "read"
    BY <1>3, <1>6, NoEntriesOK DEF WriteDoh
  <2>2. CASE hosts' = doh /\ Ages(TRUE) /\ UNCHANGED <<losses, failures>>
    BY <1>1, <1>2, <2>1, <2>2, AgesOK
  <2>3. CASE UNCHANGED <<hosts, hostsStat, fooled, losses, failures>>
    BY <1>2, <2>1, <2>3 DEF TypeOK
  <2>4. CASE \E torn \in BOOLEAN : Fails(hosts, torn) /\ Ages(torn)
    BY <1>2, <2>1, <2>4, FailsOK, AgesOK
  <2> QED BY <1>6, <2>2, <2>3, <2>4 DEF WriteDoh, doh
<1> QED BY <1>5, <1>6

LEMMA ThreadTyped ==
  ASSUME TypeOK, HaveRules, Thread
  PROVE  TypeOK'
<1>1. worker \in Work /\ hosts \in Files
  BY DEF TypeOK
<1>2. CASE ReadToBlock
  <2>1. worker' \in Work /\ waiting' \in [{"block", "allow"} -> Nat]
    BY <1>1, <1>2, DequeueOK, NoEntriesOK DEF ReadToBlock, Work
  <2> QED BY <1>2, <2>1 DEF ReadToBlock, TypeOK, decisions, files, network, removing
<1>3. CASE ReadToAllow
  <2>1. worker' \in Work /\ waiting' \in [{"block", "allow"} -> Nat]
    BY <1>1, <1>3, DequeueOK DEF ReadToAllow, Work
  <2> QED BY <1>3, <2>1 DEF ReadToAllow, TypeOK, decisions, files, removing, None
<1>4. CASE WriteBlock \/ WriteDoh
  <2>1. UNCHANGED <<decisions, hostsHash, permaHash, network, waiting, removing>>
    BY <1>4 DEF WriteBlock, WriteDoh
  <2> QED BY <1>4, <2>1, ThreadWritesOK DEF TypeOK, decisions, network, removing
<1>5. CASE MakeRules
  <2>1. worker' \in Work
    BY <1>1, <1>5, RulesOK DEF MakeRules, Work
  <2> QED BY <1>5, <2>1 DEF MakeRules, TypeOK, decisions, files, network, removing
<1>6. CASE LoadRules
  <2>1. worker' \in Work /\ worker.saw \in Files
    BY <1>1, <1>6, NoEntriesOK DEF LoadRules, Quit, Work
  <2>2. hostsHash' \in SUBSET Files /\ hostsStat' \in Stats
    BY <1>6, <2>1 DEF LoadRules, TypeOK, Stats
  <2>3. firewall' \in {"off", "base", "strict"}
    BY <1>1, <1>6 DEF LoadRules, HaveRules, Work
  <2> QED BY <1>6, <2>1, <2>2, <2>3 DEF LoadRules, TypeOK, decisions, removing
<1> QED BY <1>2, <1>3, <1>4, <1>5, <1>6 DEF Thread

-----------------------------------------------------------------------------
(* The permanent blocklist *)

\* Unless the file was emptied, whoever is about to write back what he read of it has its
\* permanent entries right: they only change under the enforcement lock, and not while
\* _remove_block is at work.
SawTrue ==
  losses = 0 => /\ worker.at = "read" => worker.saw.perma = hosts.perma
                /\ removal = "read" => removalSaw.perma = hosts.perma

\* A ban that met no thread at its beginning meets none later.
BanMeetsNobody == prayer /\ ~overtaken => firewall = "strict" /\ ~AtWork

IInv == TypeOK /\ HaveRules /\ SawTrue /\ PermaKept /\ BanMeetsNobody

\* Steps that leave the permanent entries alone, and in which nobody reads the file.
LEMMA QuietKeeps ==
  ASSUME IInv, permaHash' = permaHash,
         losses' = 0 => losses = 0 /\ hosts'.perma = hosts.perma,
         worker'.at = "read" => worker' = worker,
         removal' = "read" => removal' = removal /\ removalSaw' = removalSaw
  PROVE  SawTrue' /\ PermaKept'
BY DEF IInv, SawTrue, PermaKept

\* Steps of those who hold the lock, and write permanent entries and their hash together.
LEMMA LockedKeeps ==
  ASSUME IInv, LockFree, UNCHANGED threads, removal' # "read",
         losses' = 0 => /\ losses = 0
                        /\ \/ hosts'.perma = permaHash'
                           \/ hosts'.perma = hosts.perma /\ permaHash' = permaHash
  PROVE  SawTrue' /\ PermaKept'
BY DEF IInv, SawTrue, PermaKept, LockFree, threads, Idle

\* Steps that bring no thread to the point where it has rules to load.
LEMMA NoNewRules ==
  ASSUME HaveRules, worker'.at = "ruled" => worker' = worker
  PROVE  HaveRules'
BY DEF HaveRules

LEMMA SessionsKeep ==
  ASSUME IInv,
         (\E mode \in Modes : Start(mode)) \/ EndBreak \/ PrayerStarts \/ PrayerEnds
         \/ Reenforce \/ BeginBreak
  PROVE  HaveRules' /\ SawTrue' /\ PermaKept'
<1>1. /\ hosts' = hosts /\ permaHash' = permaHash /\ losses' = losses
      /\ EnforceCurrent \/ UNCHANGED threads
      /\ removal' = "read" => removal' = removal /\ removalSaw' = removalSaw
  BY DEF Start, EndBreak, PrayerStarts, PrayerEnds, Reenforce, BeginBreak, files, removing
<1>2. worker' = worker
  BY <1>1 DEF EnforceCurrent, Queue, threads
<1> QED BY <1>1, <1>2, QuietKeeps, NoNewRules DEF IInv

LEMMA ExpireKeeps ==
  ASSUME IInv, Expire
  PROVE  HaveRules' /\ SawTrue' /\ PermaKept'
<1>1. LockFree /\ UNCHANGED threads /\ removal' # "read"
  BY DEF Expire, removing, Free, None
<1> QED BY <1>1, ExpireOK, LockedKeeps, NoNewRules DEF IInv, threads

LEMMA EnforcePermaKeeps ==
  ASSUME IInv,
         (\E list \in SUBSET Domains : ChangePerma(list)) \/ PermaCheck \/ RemovePerma
  PROVE  HaveRules' /\ SawTrue' /\ PermaKept'
<1>1. EnforcePerma /\ UNCHANGED threads /\ removal' # "read" /\ perma' \in SUBSET Domains
  BY DEF ChangePerma, PermaCheck, RemovePerma, removing, decisions, Free, None, IInv, TypeOK
<1>2. LockFree
  BY <1>1 DEF EnforcePerma
<1> QED BY <1>1, <1>2, EnforcePermaOK, LockedKeeps, NoNewRules DEF IInv, threads

LEMMA ChecksKeep ==
  ASSUME IInv, HostsCheck \/ FirewallCheck \/ DnsCheck
  PROVE  HaveRules' /\ SawTrue' /\ PermaKept'
<1>1. /\ permaHash' = permaHash /\ worker' = worker
      /\ removal' = removal /\ removalSaw' = removalSaw
      /\ EnforceBlock \/ (hosts' = hosts /\ losses' = losses)
  BY DEF HostsCheck, FirewallCheck, DnsCheck, files, removing, threads
<1>2. losses' = 0 => losses = 0 /\ hosts'.perma = hosts.perma
  BY <1>1, EnforceBlockOK DEF IInv
<1> QED BY <1>1, <1>2, QuietKeeps, NoNewRules DEF IInv

LEMMA RemovalKeeps ==
  ASSUME IInv, RemoveRead \/ RemoveWrite
  PROVE  HaveRules' /\ SawTrue' /\ PermaKept'
<1>1. CASE RemoveRead
  BY <1>1 DEF RemoveRead, files, threads, IInv, HaveRules, SawTrue, PermaKept
<1>2. CASE RemoveWrite
  <2>1. permaHash' = permaHash /\ worker' = worker /\ removal' # "read" /\ removal = "read"
    BY <1>2 DEF RemoveWrite, None, threads
  <2>2. losses' = 0 => losses = 0 /\ hosts'.perma = hosts.perma
    BY <1>2, <2>1, RemoveWriteOK DEF IInv, SawTrue
  <2> QED BY <2>1, <2>2, QuietKeeps, NoNewRules DEF IInv
<1> QED BY <1>1, <1>2

\* A thread reads under the lock, and writes back what it read.
LEMMA ThreadKeeps ==
  ASSUME IInv, Thread
  PROVE  HaveRules' /\ SawTrue' /\ PermaKept'
<1>1. worker \in Work
  BY DEF IInv, TypeOK
<1>2. permaHash' = permaHash /\ UNCHANGED removing
  BY DEF Thread, ReadToBlock, ReadToAllow, WriteBlock, WriteDoh, MakeRules, LoadRules, files
<1>3. CASE WriteBlock \/ WriteDoh
  <2>1. /\ worker'.at \in {"idle", "written"} /\ worker.at = "read"
        /\ losses' = 0 => /\ losses = 0
                          /\ hosts'.perma = hosts.perma \/ hosts'.perma = worker.saw.perma
    BY <1>3, ThreadWritesOK DEF IInv
  <2>2. losses' = 0 => losses = 0 /\ hosts'.perma = hosts.perma
    BY <2>1 DEF IInv, SawTrue
  <2> QED BY <1>2, <2>1, <2>2, QuietKeeps, NoNewRules DEF IInv, removing
<1>4. CASE ReadToBlock \/ ReadToAllow \/ MakeRules \/ LoadRules
  <2>1. losses' = losses /\ hosts' = hosts
    BY <1>4 DEF ReadToBlock, ReadToAllow, MakeRules, LoadRules, files
  <2>2. /\ worker'.at = "read" => worker'.saw = hosts
        /\ worker'.at = "ruled" => worker'.rules = Rules
    <3>1. CASE ReadToBlock \/ ReadToAllow
      BY <3>1 DEF ReadToBlock, ReadToAllow, Idle
    <3>2. CASE MakeRules
      BY <1>1, <3>2 DEF MakeRules, Work
    <3>3. CASE LoadRules
      BY <3>3 DEF LoadRules, Quit, Idle
    <3> QED BY <1>4, <3>1, <3>2, <3>3
  <2>3. HaveRules'
    BY <2>2, RulesOK DEF HaveRules, None
  <2> QED BY <1>2, <2>1, <2>2, <2>3 DEF IInv, SawTrue, PermaKept, removing
<1> QED BY <1>3, <1>4 DEF Thread

LEMMA TamperKeeps ==
  ASSUME IInv, Tamper
  PROVE  TypeOK' /\ HaveRules' /\ SawTrue' /\ PermaKept'
<1>1. /\ hosts' = NoEntries /\ losses' = losses + 1 /\ losses \in Nat /\ Ages(TRUE)
      /\ UNCHANGED <<decisions, hostsHash, permaHash, network, threads, removing, failures>>
      /\ TypeOK
  BY DEF IInv, TypeOK, Tamper
<1>2. TypeOK'
  <2>1. losses' \in Nat
    BY <1>1
  <2>2. hosts' \in Files
    BY <1>1, NoEntriesOK, Zenon
  <2>3. hostsStat' \in Stats /\ fooled' \in BOOLEAN
    BY <1>1, AgesOK
  <2> QED BY <1>1, <2>1, <2>2, <2>3 DEF TypeOK, decisions, network, threads, removing
<1>3. HaveRules'
  BY <1>1 DEF IInv, HaveRules, threads
<1>4. SawTrue' /\ PermaKept'
  BY <1>1 DEF SawTrue, PermaKept
<1> QED BY <1>2, <1>3, <1>4

-----------------------------------------------------------------------------
(* The ban *)

LEMMA PrayerIsStrict ==
  /\ prayer => Rules = "strict" /\ RulesNeeded = "strict"
  /\ prayer' => Rules' = "strict" /\ RulesNeeded' = "strict"
BY DEF Rules, RulesNeeded

\* In a prayer, whatever the daemon's thread does to the firewall keeps it strict, and it
\* starts no thread.
LEMMA DaemonBan ==
  ASSUME IInv, Daemon
  PROVE  BanMeetsNobody'
<1> SUFFICES ASSUME prayer', ~overtaken' PROVE firewall' = "strict" /\ ~AtWork'
  BY DEF BanMeetsNobody
<1>1. CASE PrayerStarts
  <2>1. overtaken' = (overtaken \/ AtWork) /\ UNCHANGED threads
    BY <1>1 DEF PrayerStarts
  <2>2. ~AtWork
    BY <2>1, Zenon
  <2> QED BY <1>1, <2>1, <2>2, PrayerIsStrict DEF PrayerStarts, AtWork, threads
<1>2. CASE Expire \/ BeginBreak \/ EndBreak \/ PrayerEnds \/ HostsCheck \/ FirewallCheck
  BY <1>2 DEF Expire, BeginBreak, EndBreak, PrayerEnds, HostsCheck, FirewallCheck, Focusing,
              decisions
<1>3. CASE (\E mode \in Modes : Start(mode)) \/ Reenforce
  <2>0. prayer' = prayer /\ overtaken' = overtaken /\ EnforceCurrent
    BY <1>3 DEF Start, Reenforce, decisions
  <2>1. prayer /\ ~overtaken /\ EnforceCurrent
    BY <2>0, Zenon
  <2>2. firewall' = "strict" /\ UNCHANGED threads
    BY <2>1, PrayerIsStrict DEF EnforceCurrent
  <2> QED BY <2>1, <2>2 DEF IInv, BanMeetsNobody, AtWork, threads
<1>4. CASE (\E list \in SUBSET Domains : ChangePerma(list)) \/ PermaCheck \/ RemovePerma
  <2>0. prayer' = prayer /\ overtaken' = overtaken /\ EnforcePerma /\ UNCHANGED threads
    BY <1>4 DEF ChangePerma, PermaCheck, RemovePerma, decisions
  <2>1. prayer /\ ~overtaken /\ EnforcePerma /\ UNCHANGED threads
    BY <2>0, Zenon
  <2>2. firewall' = "strict" \/ firewall' = firewall
    BY <2>1, PrayerIsStrict DEF EnforcePerma
  <2> QED BY <2>1, <2>2 DEF IInv, BanMeetsNobody, AtWork, threads
<1>5. CASE RemoveRead \/ RemoveWrite \/ DnsCheck
  <2>0. prayer' = prayer /\ overtaken' = overtaken /\ UNCHANGED threads
    BY <1>5 DEF RemoveRead, RemoveWrite, DnsCheck, decisions
  <2>1. prayer /\ ~overtaken /\ UNCHANGED threads
    BY <2>0, Zenon
  <2>2. firewall' = "strict" \/ firewall' = firewall
    BY <1>5, <2>1, PrayerIsStrict DEF RemoveRead, RemoveWrite, DnsCheck, network
  <2> QED BY <2>1, <2>2 DEF IInv, BanMeetsNobody, AtWork, threads
<1> QED BY <1>1, <1>2, <1>3, <1>4, <1>5 DEF Daemon

\* A step of a thread takes one that is at work.
LEMMA ThreadAtWork == ASSUME TypeOK, Thread PROVE AtWork
<1>1. /\ waiting["block"] \in Nat /\ waiting["allow"] \in Nat
  BY DEF TypeOK
<1>2. CASE ReadToBlock \/ ReadToAllow
  <2>1. waiting["block"] > 0 \/ waiting["allow"] > 0
    BY <1>2 DEF ReadToBlock, ReadToAllow, Dequeue
  <2> QED BY <1>1, <2>1 DEF AtWork
<1>3. CASE WriteBlock \/ WriteDoh \/ MakeRules \/ LoadRules
  <2>1. worker.at # "idle"
    BY <1>3 DEF WriteBlock, WriteDoh, MakeRules, LoadRules
  <2>2. worker # Idle
    BY <2>1 DEF Idle
  <2> QED BY <2>2 DEF AtWork
<1> QED BY <1>2, <1>3 DEF Thread

LEMMA OtherBan ==
  ASSUME IInv, Thread \/ Tamper \/ UNCHANGED vars
  PROVE  BanMeetsNobody'
<1>1. CASE Thread
  <2>1. ~(prayer /\ ~overtaken)
    BY <1>1, ThreadAtWork DEF IInv, BanMeetsNobody
  <2>2. UNCHANGED decisions
    BY <1>1 DEF Thread, ReadToBlock, ReadToAllow, WriteBlock, WriteDoh, MakeRules, LoadRules
  <2> QED BY <2>1, <2>2 DEF BanMeetsNobody, decisions
<1>2. CASE Tamper \/ UNCHANGED vars
  BY <1>2 DEF IInv, BanMeetsNobody, AtWork, Tamper, vars, decisions, network, threads
<1> QED BY <1>1, <1>2

-----------------------------------------------------------------------------

LEMMA InitIInv == Init => IInv
<1> SUFFICES ASSUME Init PROVE IInv
  OBVIOUS
<1>1. TypeOK
  BY NoEntriesOK DEF Init, TypeOK, Stats, None
<1>2. HaveRules /\ SawTrue
  BY DEF Init, HaveRules, SawTrue, Idle, None
<1>3. PermaKept /\ BanMeetsNobody
  BY DEF Init, PermaKept, BanMeetsNobody, NoEntries
<1> QED BY <1>1, <1>2, <1>3 DEF IInv

LEMMA NextIInv == IInv /\ [Next]_vars => IInv'
<1> SUFFICES ASSUME IInv, [Next]_vars PROVE IInv'
  OBVIOUS
<1>1. CASE Daemon
  <2>1. TypeOK'
    BY <1>1, SessionsTyped, ExpireTyped, RemovalTyped, ChecksTyped DEF Daemon, IInv
  <2>2. HaveRules' /\ SawTrue' /\ PermaKept'
    BY <1>1, SessionsKeep, ExpireKeeps, EnforcePermaKeeps, ChecksKeep, RemovalKeeps DEF Daemon
  <2> QED BY <1>1, <2>1, <2>2, DaemonBan DEF IInv
<1>2. CASE Thread
  BY <1>2, ThreadTyped, ThreadKeeps, OtherBan DEF IInv
<1>3. CASE Tamper
  BY <1>3, TamperKeeps, OtherBan DEF IInv
<1>4. CASE UNCHANGED vars
  <2>1. TypeOK'
    BY <1>4 DEF IInv, TypeOK, vars, decisions, files, network, threads, removing
  <2>2. HaveRules' /\ SawTrue' /\ PermaKept'
    BY <1>4 DEF IInv, HaveRules, SawTrue, PermaKept, vars, files, threads, removing
  <2> QED BY <1>4, <2>1, <2>2, OtherBan DEF IInv
<1> QED BY <1>1, <1>2, <1>3, <1>4 DEF Next

\* The invariant holds throughout.
THEOREM Invariant == Spec => []IInv
<1> QED BY InitIInv, NextIInv, PTL DEF Spec

\* Every variable keeps its type.
THEOREM TypeCorrect == Spec => []TypeOK
<1>1. IInv => TypeOK
  BY DEF IInv
<1> QED BY <1>1, Invariant, PTL

\* No thread and no removal ever loses an entry of the permanent blocklist, though they
\* read and rewrite the same file under different locks.
THEOREM NoEntryIsLost == Spec => []PermaKept
<1>1. IInv => PermaKept
  BY DEF IInv
<1> QED BY <1>1, Invariant, PTL

\* A prayer's ban that met no thread at work holds from its first moment to its last.
THEOREM BanIsKept == Spec => []BanHolds
<1>1. IInv => BanHolds
  BY DEF IInv, BanMeetsNobody, BanHolds
<1> QED BY <1>1, Invariant, PTL

-----------------------------------------------------------------------------
(* What a session leaves behind *)

\* No thread was at work when focus ended or a prayer began, and no write failed.
Undisturbed == ~overtaken /\ failures = 0

\* Nothing of a session is left but, perhaps, rules of the firewall.
Swept == hosts.session = None /\ dns # "local" /\ ~policies /\ ~proxy

(* Until it is disturbed, the machine works for the session there is, and what   *)
(* _remove_block has undone stays undone.                                        *)
OneSession ==
  /\ worker # Idle => worker.does = session /\ session # None
  /\ \A mode \in {"block", "allow"} : waiting[mode] > 0 => mode = session /\ session # None
Orderly ==
  Undisturbed =>
    /\ OneSession
    /\ proxy => session = "allow"
    /\ session = None /\ removal = "undone" => Swept

\* What the steps below have to show.
Tidy == Orderly /\ IdleIsClean

LEMMA ModesAreSessions == None \notin Modes
BY ConstantsAssumption DEF None

\* Steps that end no session, begin no prayer and repair no failure were undisturbed before.
LEMMA WasUndisturbed ==
  ASSUME TypeOK, overtaken' = overtaken \/ overtaken' = (overtaken \/ AtWork),
         failures' = failures \/ failures' = failures + 1, Undisturbed'
  PROVE  Undisturbed /\ failures' = failures
<1>1. ~overtaken
  <2>1. ~overtaken'
    BY DEF Undisturbed
  <2> QED BY <2>1, Zenon
<1>2. failures = 0 /\ failures' = failures
  BY DEF Undisturbed, TypeOK
<1> QED BY <1>1, <1>2 DEF Undisturbed

LEMMA FileSession ==
  ASSUME NEW f \in Files
  PROVE  /\ Stripped(f).session = None /\ Stripped(f) \in Files
         /\ \A p \in SUBSET Domains : [f EXCEPT !.perma = p].session = f.session
BY FileOK DEF Stripped, Files

\* A queued thread is of the session there will be.
LEMMA EnforceCurrentOne ==
  ASSUME TypeOK, EnforceCurrent, session' # None,
         OneSession, session' = session \/ ~AtWork
  PROVE  OneSession'
<1>1. waiting \in [{"block", "allow"} -> Nat]
  BY DEF TypeOK
<1>2. /\ worker' = worker
      /\ waiting' = waiting \/ waiting' = [waiting EXCEPT ![session'] = waiting[session'] + 1]
  BY DEF EnforceCurrent, Queue, threads
<1>3. ASSUME NEW mode \in {"block", "allow"}, mode # session' PROVE waiting'[mode] = waiting[mode]
  BY <1>1, <1>2, <1>3
<1>4. CASE session' = session
  BY <1>2, <1>3, <1>4 DEF OneSession
<1>5. CASE ~AtWork
  <2>1. waiting["block"] = 0 /\ waiting["allow"] = 0 /\ worker = Idle
    BY <1>1, <1>5 DEF AtWork
  <2> QED BY <1>2, <1>3, <2>1 DEF OneSession
<1> QED BY <1>4, <1>5

\* Without a session nobody works, ...
LEMMA SessionlessIdle ==
  ASSUME TypeOK, OneSession, session = None
  PROVE  ~AtWork
<1>1. /\ waiting["block"] \in Nat /\ ~(waiting["block"] > 0)
      /\ waiting["allow"] \in Nat /\ ~(waiting["allow"] > 0)
  BY DEF TypeOK, OneSession
<1> QED BY <1>1 DEF OneSession, AtWork

\* ... and nobody who does not work is of another session.
LEMMA IdleIsOne ==
  ASSUME TypeOK, ~AtWork, UNCHANGED threads
  PROVE  OneSession'
<1>1. waiting["block"] = 0 /\ waiting["allow"] = 0 /\ worker = Idle
  BY DEF TypeOK, AtWork
<1> QED BY <1>1 DEF OneSession, threads

\* Within a session nothing has to be clean.
LEMMA InSession ==
  ASSUME session' # None,
         Undisturbed' => OneSession' /\ (proxy' => session' = "allow")
  PROVE  Tidy'
BY DEF Tidy, Orderly, IdleIsClean

LEMMA SessionsTidy ==
  ASSUME IInv, Tidy,
         (\E mode \in Modes : Start(mode)) \/ EndBreak \/ Reenforce \/ BeginBreak
  PROVE  Tidy'
<1>1. TypeOK
  BY DEF IInv
<1>2. session' # None /\ proxy' = proxy
  BY ModesAreSessions DEF Start, EndBreak, Reenforce, BeginBreak, Focusing, decisions, network
<1>3. ASSUME Undisturbed' PROVE Undisturbed
  BY <1>1, <1>3, WasUndisturbed DEF Start, EndBreak, Reenforce, BeginBreak, decisions
<1>4. ASSUME Undisturbed' PROVE OneSession'
  <2>1. OneSession
    BY <1>3, <1>4 DEF Tidy, Orderly
  <2>2. CASE \E mode \in Modes : Start(mode)
    <3>1. ~AtWork
      BY <1>1, <2>1, <2>2, SessionlessIdle DEF Start
    <3> QED BY <1>1, <1>2, <2>1, <2>2, <3>1, EnforceCurrentOne DEF Start
  <2>3. CASE EndBreak \/ Reenforce
    BY <1>1, <1>2, <2>1, <2>3, EnforceCurrentOne DEF EndBreak, Reenforce, decisions
  <2>4. CASE BeginBreak
    BY <2>1, <2>4 DEF BeginBreak, OneSession, threads
  <2> QED BY <2>2, <2>3, <2>4
<1>5. ASSUME Undisturbed', proxy' PROVE session' = "allow"
  <2>1. proxy /\ Undisturbed
    BY <1>2, <1>3, <1>5
  <2>2. session = "allow"
    BY <2>1 DEF Tidy, Orderly
  <2> QED BY <2>2 DEF Start, EndBreak, Reenforce, BeginBreak, decisions, None
<1> QED BY <1>2, <1>4, <1>5, InSession

\* The end of a session cleans up after it, unless it finds a thread at work.
LEMMA ExpireTidy ==
  ASSUME IInv, Tidy, Expire
  PROVE  Tidy'
<1>1. TypeOK
  BY DEF IInv
<1> SUFFICES ASSUME Undisturbed' PROVE Tidy'
  BY DEF Tidy, Orderly, IdleIsClean, Undisturbed
<1>0. overtaken' = (overtaken \/ AtWork) /\ UNCHANGED threads /\ session' = None
  BY DEF Expire
<1>2. Undisturbed /\ failures' = failures /\ failures \in Nat
  BY <1>0, <1>1, ExpireOK, WasUndisturbed DEF TypeOK
<1>3. ~AtWork
  <2>1. ~overtaken' /\ overtaken' = (overtaken \/ AtWork)
    BY <1>0 DEF Undisturbed
  <2> QED BY <2>1, Zenon
<1>4. hosts'.session = None /\ UndoNetwork /\ firewall' = RulesNeeded'
  BY <1>1, <1>2, ExpireOK
<1>6. dns' # "local"
  BY <1>1, <1>4 DEF UndoNetwork, TypeOK, None
<1>7. ~policies' /\ ~proxy'
  <2>1. proxy => session = "allow"
    BY <1>2 DEF Tidy, Orderly
  <2>2. policies' = FALSE /\ proxy' = (proxy /\ session # "allow")
    BY <1>4 DEF UndoNetwork
  <2> QED BY <2>1, <2>2, Zenon
<1>8. OneSession'
  BY <1>0, <1>1, <1>3, IdleIsOne
<1> QED BY <1>4, <1>6, <1>7, <1>8 DEF Tidy, Orderly, IdleIsClean, Swept

\* A prayer may start at any time; when it ends without a session, what it set up is
\* about to be removed.
LEMMA PrayerTidy ==
  ASSUME IInv, Tidy, PrayerStarts \/ PrayerEnds
  PROVE  Tidy'
<1>1. TypeOK
  BY DEF IInv
<1>2. ASSUME Undisturbed' PROVE Undisturbed /\ OneSession /\ (proxy => session = "allow")
  BY <1>1, <1>2, WasUndisturbed DEF PrayerStarts, PrayerEnds, Tidy, Orderly
<1>3. CASE PrayerStarts
  <2>1. /\ prayer' = TRUE /\ session' = session /\ proxy' = proxy
        /\ waiting' = waiting /\ worker' = worker /\ removal' = removal /\ removal = None
    BY <1>3 DEF PrayerStarts, removing, threads, Free
  <2> QED BY <1>2, <2>1 DEF Tidy, Orderly, IdleIsClean, OneSession, None
<1>4. CASE PrayerEnds /\ session # None
  <2>1. session' = session /\ proxy' = proxy /\ EnforceCurrent
    BY <1>4 DEF PrayerEnds
  <2>2. Undisturbed' => OneSession'
    BY <1>1, <1>2, <1>4, <2>1, EnforceCurrentOne
  <2> QED BY <1>2, <1>4, <2>1, <2>2, InSession
<1>5. CASE PrayerEnds /\ session = None
  <2>1. /\ session' = session /\ proxy' = proxy /\ removal' = "begun"
        /\ waiting' = waiting /\ worker' = worker
    BY <1>5 DEF PrayerEnds, threads
  <2> QED BY <1>2, <2>1 DEF Tidy, Orderly, IdleIsClean, OneSession, Free, None
<1> QED BY <1>3, <1>4, <1>5

\* _remove_block undoes all there is before it comes to the firewall's last rules.
LEMMA RemovalTidy ==
  ASSUME IInv, Tidy, RemoveRead \/ RemoveWrite
  PROVE  Tidy'
<1>1. TypeOK /\ failures \in Nat
  BY DEF IInv, TypeOK
<1>2. /\ session' = session /\ waiting' = waiting /\ worker' = worker
      /\ overtaken' = overtaken
  BY DEF RemoveRead, RemoveWrite, decisions, threads
<1> SUFFICES ASSUME Undisturbed' PROVE Tidy'
  BY DEF Tidy, Orderly, IdleIsClean, Undisturbed
<1>3. Undisturbed /\ failures' = failures
  BY <1>1, <1>2, RemoveWriteOK, WasUndisturbed DEF RemoveRead
<1>4. OneSession' /\ (proxy => session = "allow")
  BY <1>2, <1>3 DEF Tidy, Orderly, OneSession
<1>5. CASE RemoveRead
  <2>1. proxy' = proxy /\ removal' = "read"
    BY <1>5 DEF RemoveRead, network
  <2> QED BY <1>2, <1>4, <2>1 DEF Tidy, Orderly, IdleIsClean, Free, None
<1>6. CASE RemoveWrite
  <2>1. hosts'.session = None /\ UndoNetwork /\ removal' = "undone"
    BY <1>1, <1>3, <1>6, RemoveWriteOK
  <2>3. dns' # "local"
    BY <1>1, <2>1 DEF UndoNetwork, TypeOK, None
  <2>4. ~policies' /\ ~proxy'
    <3>1. policies' = FALSE /\ proxy' = (proxy /\ session # "allow")
      BY <2>1 DEF UndoNetwork
    <3> QED BY <1>4, <3>1, Zenon
  <2> QED BY <1>4, <2>1, <2>3, <2>4 DEF Tidy, Orderly, IdleIsClean, Free, Swept, None
<1> QED BY <1>5, <1>6

\* Enforcing the permanent blocklist brings the rules up to date and leaves the rest.
LEMMA PermaTidy ==
  ASSUME IInv, Tidy,
         (\E list \in SUBSET Domains : ChangePerma(list)) \/ PermaCheck \/ RemovePerma
  PROVE  Tidy'
<1>1. TypeOK /\ failures \in Nat
  BY DEF IInv, TypeOK
<1>2. /\ EnforcePerma /\ waiting' = waiting /\ worker' = worker /\ removal' = None
      /\ session' = session /\ prayer' = prayer /\ overtaken' = overtaken
      /\ dns' = dns /\ policies' = policies /\ proxy' = proxy /\ perma' \in SUBSET Domains
  BY <1>1 DEF ChangePerma, PermaCheck, RemovePerma, decisions, removing, threads, Free, TypeOK
<1> SUFFICES ASSUME Undisturbed' PROVE Tidy'
  BY DEF Tidy, Orderly, IdleIsClean, Undisturbed
<1>3. Undisturbed /\ failures' = failures
  BY <1>1, <1>2, EnforcePermaOK, WasUndisturbed
<1>4. OneSession /\ OneSession' /\ (proxy => session = "allow")
  BY <1>2, <1>3 DEF Tidy, Orderly, OneSession
<1>5. firewall' = RulesNeeded' /\ hosts'.session \in {None, hosts.session}
  BY <1>1, <1>2, <1>3, EnforcePermaOK
<1>7. ASSUME session = None, ~prayer PROVE Swept
  <2>1. ~AtWork
    BY <1>1, <1>4, <1>7, SessionlessIdle
  <2>2. CASE Free
    BY <1>3, <1>7, <2>1, <2>2 DEF Tidy, IdleIsClean, Undisturbed, Swept
  <2>3. CASE RemovePerma
    BY <1>3, <1>7, <2>3 DEF RemovePerma, Tidy, Orderly
  <2> QED BY <2>2, <2>3 DEF ChangePerma, PermaCheck
<1>8. session' = None /\ ~prayer' => Swept'
  <2>1. prayer' => prayer
    BY <1>2, Zenon
  <2>2. ASSUME session' = None, ~prayer' PROVE hosts'.session = None
    <3>1. session = None /\ ~prayer
      BY <1>2, <2>1, <2>2
    <3>2. hosts.session = None
      BY <1>7, <3>1 DEF Swept
    <3> QED BY <1>5, <3>2
  <2> QED BY <1>2, <1>7, <2>1, <2>2, Zenon DEF Swept
<1> QED BY <1>2, <1>4, <1>5, <1>8 DEF Tidy, Orderly, IdleIsClean, Swept, None

\* The other checks only act in focus.
LEMMA ChecksTidy ==
  ASSUME IInv, Tidy, HostsCheck \/ FirewallCheck \/ DnsCheck
  PROVE  Tidy'
<1>1. /\ session' # None /\ session' = session /\ overtaken' = overtaken
      /\ waiting' = waiting /\ worker' = worker /\ proxy' = proxy
  BY DEF HostsCheck, FirewallCheck, DnsCheck, Focusing, decisions, threads
<1>2. failures' = failures \/ failures' = failures + 1
  BY EnforceBlockOK DEF HostsCheck, FirewallCheck, DnsCheck, IInv
<1>3. Undisturbed' => Undisturbed
  BY <1>1, <1>2, WasUndisturbed DEF IInv
<1> QED BY <1>1, <1>3, InSession DEF Tidy, Orderly, OneSession

\* A thread works for the session there is, so it starts the proxy for no other.
LEMMA ThreadTidy ==
  ASSUME IInv, Tidy, Thread
  PROVE  Tidy'
<1>1. TypeOK /\ worker \in Work /\ waiting \in [{"block", "allow"} -> Nat]
  BY DEF IInv, TypeOK
<1>2. /\ UNCHANGED decisions
      /\ failures' = failures \/ failures' = failures + 1
  BY <1>1, ThreadWritesOK
     DEF Thread, ReadToBlock, ReadToAllow, WriteBlock, WriteDoh, MakeRules, LoadRules
<1>3. Undisturbed' => Undisturbed
  BY <1>1, <1>2, WasUndisturbed DEF decisions
<1> SUFFICES ASSUME Undisturbed' PROVE Tidy'
  BY DEF Tidy, Orderly, IdleIsClean, Undisturbed
<1>4. OneSession /\ (proxy => session = "allow")
  BY <1>3 DEF Tidy, Orderly
<1>5. session # None /\ session' = session
  BY <1>1, <1>2, <1>4, ThreadAtWork, SessionlessIdle DEF decisions
<1>6. CASE ReadToBlock \/ ReadToAllow
  <2>1. PICK mode \in {"block", "allow"} :
          /\ waiting[mode] > 0 /\ waiting' = [waiting EXCEPT ![mode] = waiting[mode] - 1]
          /\ worker' = Idle \/ worker'.does = mode
          /\ proxy' = proxy \/ mode = "allow"
    BY <1>6 DEF ReadToBlock, ReadToAllow, Dequeue, network
  <2>2. mode = session
    BY <1>4, <2>1 DEF OneSession
  <2>3. \A m \in {"block", "allow"} : waiting'[m] > 0 => waiting[m] > 0
    BY <1>1, <2>1
  <2>4. OneSession'
    BY <1>4, <1>5, <2>1, <2>2, <2>3 DEF OneSession
  <2>5. proxy' => session' = "allow"
    BY <1>4, <1>5, <2>1, <2>2, Zenon
  <2> QED BY <1>5, <2>4, <2>5, InSession
<1>7. CASE WriteBlock \/ WriteDoh \/ MakeRules \/ LoadRules
  <2>0. worker.at # "idle" /\ waiting' = waiting /\ proxy' = proxy
    BY <1>7 DEF WriteBlock, WriteDoh, MakeRules, LoadRules, network
  <2>1. worker # Idle /\ waiting' = waiting /\ proxy' = proxy
    BY <2>0 DEF Idle
  <2>2. worker' = Idle \/ worker'.does = worker.does
    <3>1. CASE WriteBlock \/ WriteDoh
      BY <1>1, <3>1, ThreadWritesOK
    <3>2. CASE MakeRules \/ LoadRules
      BY <1>1, <3>2 DEF MakeRules, LoadRules, Quit, Work
    <3> QED BY <1>7, <3>1, <3>2
  <2>3. OneSession'
    BY <1>4, <1>5, <2>1, <2>2 DEF OneSession
  <2> QED BY <1>4, <1>5, <2>1, <2>3, InSession
<1> QED BY <1>6, <1>7 DEF Thread

LEMMA OtherTidy ==
  ASSUME IInv, Tidy, Tamper \/ UNCHANGED vars
  PROVE  Tidy'
<1>1. CASE Tamper
  <2>1. /\ UNCHANGED <<decisions, network, threads, removing, failures>>
        /\ hosts' = NoEntries
    BY <1>1 DEF Tamper
  <2>2. hosts'.session = None
    BY <2>1 DEF NoEntries
  <2>3. Orderly'
    BY <2>1, <2>2 DEF Tidy, Orderly, Undisturbed, OneSession, Swept, decisions, network, threads,
                      removing
  <2>4. IdleIsClean'
    BY <2>1, <2>2 DEF Tidy, IdleIsClean, Free, AtWork, RulesNeeded, Rules, decisions, network,
                      threads, removing
  <2> QED BY <2>3, <2>4 DEF Tidy
<1>2. CASE UNCHANGED vars
  <2>1. UNCHANGED <<decisions, files, network, threads, removing, failures>>
    BY <1>2 DEF vars
  <2>2. Orderly'
    BY <2>1 DEF Tidy, Orderly, Undisturbed, OneSession, Swept, decisions, files, network, threads,
                removing
  <2>3. IdleIsClean'
    BY <2>1 DEF Tidy, IdleIsClean, Free, AtWork, RulesNeeded, Rules, decisions, files, network,
                threads, removing
  <2> QED BY <2>2, <2>3 DEF Tidy
<1> QED BY <1>1, <1>2

\* Nothing of a session or of a prayer outlives it on an idle machine, unless a thread
\* was at work when focus ended or a write failed.
THEOREM NothingIsLeftBehind == Spec => []IdleIsClean
<1>1. Init => Tidy
  <2> SUFFICES ASSUME Init PROVE Tidy
    OBVIOUS
  <2>1. OneSession
    BY DEF Init, OneSession
  <2>2. Orderly
    BY <2>1 DEF Init, Orderly, None
  <2>3. IdleIsClean
    BY DEF Init, IdleIsClean, NoEntries, RulesNeeded
  <2> QED BY <2>2, <2>3 DEF Tidy
<1>2. IInv /\ Tidy /\ [Next]_vars => Tidy'
  <2> SUFFICES ASSUME IInv, Tidy, [Next]_vars PROVE Tidy'
    OBVIOUS
  <2>1. CASE Daemon
    BY <2>1, SessionsTidy, ExpireTidy, PrayerTidy, RemovalTidy, PermaTidy, ChecksTidy DEF Daemon
  <2>2. CASE Thread
    BY <2>2, ThreadTidy
  <2>3. CASE Tamper \/ UNCHANGED vars
    BY <2>3, OtherTidy
  <2> QED BY <2>1, <2>2, <2>3 DEF Next
<1>3. Tidy => IdleIsClean
  BY DEF Tidy
<1> QED BY <1>1, <1>2, <1>3, Invariant, PTL DEF Spec
=============================================================================
