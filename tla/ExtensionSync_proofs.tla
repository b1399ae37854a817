------------------------ MODULE ExtensionSync_proofs ------------------------
(***************************************************************************)
(* Proofs about ExtensionSync, for all domains, plans and numbers of       *)
(* events: what the worker remembers is what Chrome enforces, both layers  *)
(* judge pages alike, and rules made with the permanent list keep it.      *)
(***************************************************************************)
EXTENDS ExtensionSync, TLAPS

\* A pass that goes on knows what for.
PassOK(p) ==
  /\ p.pc \in {"lists", "permarules", "domains"} => p.key \in Keys
  /\ p.pc = "domains" => p.key \notin Open
  /\ p.pc = "permarules" => p.want.key = "idle" /\ p.want.domains = {}
  /\ p.pc = "rules" => p.want.key \in Keys /\ (p.want.key \in Open => p.want.domains = {})

\* The fallback's state is that of the signature.
Matches(m) ==
  /\ m.sig = NoSig \/ m.sig.key \in Keys
  /\ m.active => /\ m.sig.key \in Keys \ Open
                 /\ m.listed = m.sig.domains /\ m.mode = Mode(m.sig.key)
                 /\ m.web = (m.sig.key \in WebOnly)
  /\ ~m.active => /\ m.sig.key \in Open \cup {None} /\ m.sig.domains = {}
                  /\ m.listed = {} /\ m.mode = None /\ ~m.web

\* What a stop of the worker does not lose.
Durable(m, n) ==
  /\ n.sig = m.sig /\ n.active = m.active /\ n.listed = m.listed /\ n.mode = m.mode
  /\ n.web = m.web

Typed == TypeOK /\ PassOK(pass) /\ (mail # NoMail => mail.key \in Keys)

IInv ==
  /\ Typed
  /\ pass.pc = "permarules" => ~mem.active
  /\ Matches(mem) /\ Durable(mem, stored)
  /\ RecordTrue

\* Every domain that somebody believes to be blocked for ever is, or was let go of.
Believed == rules.perma \cup mem.perma \cup stored.perma \cup pass.want.perma

PermaInv ==
  /\ Believed \ daemon.perma \subseteq gone
  /\ menu # None => menu \in daemon.perma \cup gone
  /\ mem.hash \subseteq mem.perma /\ stored.hash = {}
  /\ pass.pc \in {"permarules", "rules"} => pass.want.perma \subseteq mem.perma
  /\ "perma" \in mem.known => rules.perma \ mem.perma \subseteq gone
  /\ "perma" \in stored.known => rules.perma \ stored.perma \subseteq gone
  /\ pass.pc = "rules" /\ pass.informed => rules.perma \ pass.want.perma \subseteq gone

-----------------------------------------------------------------------------
(* The helpers *)

\* A pass that has just decided what to do, on what m knows.
Went(p, m) ==
  /\ p \in Passes /\ PassOK(p) /\ p.pc # "permarules"
  /\ p.pc = "rules" => p.want.perma = m.perma /\ (p.informed => "perma" \in m.known)
  /\ p.pc # "rules" => p.want = NoSig

\* The signatures the module makes are of the right type.
LEMMA SigType ==
  ASSUME NEW key \in Keys \cup {None}, NEW ds \in SUBSET Domains, NEW P \in SUBSET Domains
  PROVE  Sig(key, ds, P) \in Sigs /\ NoSig \in Sigs
BY DEF Sig, Sigs, NoSig

\* A pass that rests, sleeps or asks is after nothing.
LEMMA IdlePasses ==
  ASSUME NEW p \in {NoPass, Asking, Asleep}, NEW m
  PROVE  Went(p, m) /\ p.pc \notin {"permarules", "rules"}
<1>1. NoSig \in Sigs
  BY DEF Sig, Sigs, NoSig
<1>2. p \in Passes
  <2>1. NoPass \in Passes
    BY <1>1 DEF NoPass, Passes
  <2>2. Asking \in Passes /\ Asleep \in Passes
    BY <2>1 DEF Asking, Asleep, Passes
  <2> QED
    BY <2>1, <2>2
<1>3. p.pc \in {"rest", "status", "asleep"} /\ p.want = NoSig
  BY DEF NoPass, Asking, Asleep
<1> QED
  BY <1>2, <1>3 DEF Went, PassOK

\* A pass that ends is followed by none or by one that asks.
LEMMA FinishGoes ==
  ASSUME NEW m, Finish
  PROVE  Went(pass', m) /\ queued' \in BOOLEAN
BY IdlePasses DEF Finish

\* Rules that go to Chrome.
LEMMA ReplaceGoes ==
  ASSUME NEW m, NEW sig \in Sigs, sig.key \in Keys, sig.key \in Open => sig.domains = {},
         sig.perma = m.perma
  PROVE  Went(Replace(m, sig), m)
<1> DEFINE b == "perma" \in m.known
<1>0. b \in BOOLEAN
  OBVIOUS
<1>1. Replace(m, sig) = [NoPass EXCEPT !.pc = "rules", !.want = sig, !.informed = b]
  BY DEF Replace
<1> HIDE DEF b
<1>2. NoPass \in Passes
  BY IdlePasses DEF Went
<1>3. Replace(m, sig) \in Passes
  BY <1>0, <1>1, <1>2 DEF Passes
<1>4. Replace(m, sig).pc = "rules" /\ Replace(m, sig).want = sig
  BY <1>1, <1>2 DEF Passes
<1>5. Replace(m, sig).informed = b
  BY <1>1, <1>2, Zenon DEF Passes
<1>6. PassOK(Replace(m, sig))
  BY <1>4 DEF PassOK
<1> QED
  BY <1>3, <1>4, <1>5, <1>6, Zenon DEF Went, b

\* A pass with the lists fetches domains, puts rules to Chrome or ends.
LEMMA DecideGoes ==
  ASSUME NEW m \in Memories, NEW key \in Keys, queued \in BOOLEAN, Decide(m, key)
  PROVE  Went(pass', m) /\ queued' \in BOOLEAN
<1>1. CASE key \notin Open \cup Closed
  <2>1. pass' = [pc |-> "domains", key |-> key, rev |-> NoRev, config |-> FALSE,
                 want |-> NoSig, informed |-> FALSE]
    BY <1>1 DEF Decide, NoPass
  <2>2. pass' \in Passes
    BY <2>1, SigType DEF Passes
  <2> QED
    BY <1>1, <2>1, <2>2 DEF Decide, Went, PassOK
<1>2. CASE key \in Open \cup Closed /\ NeedsUpdate(m, Sig(key, {}, m.perma))
  <2>1. Sig(key, {}, m.perma) \in Sigs
    BY SigType DEF Memories
  <2>2. Went(Replace(m, Sig(key, {}, m.perma)), m)
    BY <2>1, ReplaceGoes DEF Sig
  <2> QED
    BY <1>2, <2>2 DEF Decide
<1>3. CASE key \in Open \cup Closed /\ ~NeedsUpdate(m, Sig(key, {}, m.perma))
  BY <1>3, FinishGoes DEF Decide
<1> QED
  BY <1>1, <1>2, <1>3

\* A pass with a status fetches the lists, or decides.
LEMMA UseGoes ==
  ASSUME TypeOK, NEW key \in Keys, NEW rev \in Nat \cup {NoRev}, Use(key, rev)
  PROVE  Went(pass', mem) /\ queued' \in BOOLEAN
<1>1. CASE mem.known # {"perma", "settings"} \/ rev # mem.rev
  <2>1. pass' = [pc |-> "lists", key |-> key, rev |-> rev, config |-> FALSE,
                 want |-> NoSig, informed |-> FALSE]
    BY <1>1 DEF Use, NoPass
  <2>2. pass' \in Passes
    BY <2>1, SigType DEF Passes
  <2> QED
    BY <1>1, <2>1, <2>2 DEF Use, Went, PassOK, TypeOK
<1>2. CASE ~(mem.known # {"perma", "settings"} \/ rev # mem.rev)
  BY <1>2, DecideGoes DEF Use, TypeOK
<1> QED
  BY <1>1, <1>2

\* What the daemon plans is something the worker knows.
LEMMA PlanKnown ==
  ASSUME TypeOK
  PROVE  daemon.plan.key \in Keys /\ daemon.plan.domains \subseteq Domains
BY ConstantsAssumption DEF TypeOK

\* What the worker remembers stays of the right type.
LEMMA MemoryTypes ==
  /\ NoMemory \in Memories
  /\ \A m \in Memories : Saved(m) \in Memories
  /\ \A m \in Memories : Listing(m) \in Memories
  /\ \A m \in Memories : \A got \in SUBSET {"perma", "settings"} :
       TypeOK => Learnt(m, got) \in Memories
  /\ \A m \in Memories, sig \in Sigs : sig.key \in Keys => Committed(m, sig) \in Memories
<1>1. NoMemory \in Memories
  BY SigType DEF NoMemory, Memories
<1>2. ASSUME NEW m \in Memories PROVE Saved(m) \in Memories
  BY DEF Saved, Memories
<1>3. ASSUME NEW m \in Memories PROVE Listing(m) \in Memories
  <2>1. Sig("idle", {}, m.perma) \in Sigs
    BY SigType DEF Memories, Keys
  <2> QED
    BY <2>1, Zenon DEF Listing, Memories
<1>4. ASSUME NEW m \in Memories, NEW got \in SUBSET {"perma", "settings"}, TypeOK
      PROVE  Learnt(m, got) \in Memories
  <2> DEFINE n == [m EXCEPT !.known = @ \cup got]
  <2>1. n \in Memories
    BY DEF Memories
  <2>2. daemon.perma \in SUBSET Domains
    BY <1>4 DEF TypeOK
  <2>3. [n EXCEPT !.hash = daemon.perma, !.perma = daemon.perma] \in Memories
    <3> HIDE DEF n
    <3> QED
      BY <2>1, <2>2, Zenon DEF Memories
  <2> QED
    BY <2>1, <2>3 DEF Learnt
<1>5. ASSUME NEW m \in Memories, NEW sig \in Sigs, sig.key \in Keys
      PROVE  Committed(m, sig) \in Memories
  <2>1. Mode(sig.key) \in {None, "blacklist", "whitelist", "ban"}
    BY DEF Mode
  <2>2. CASE sig.key \in Open
    BY <2>2, Zenon DEF Committed, Memories
  <2>3. CASE sig.key \notin Open
    <3> DEFINE w == sig.key \in WebOnly
               o == Mode(sig.key)
    <3>1. w \in BOOLEAN /\ o \in {None, "blacklist", "whitelist", "ban"}
      BY <2>1
    <3>2. Committed(m, sig) = [m EXCEPT !.active = TRUE, !.key = sig.key, !.sig = sig,
                               !.listed = sig.domains, !.web = w, !.mode = o]
      BY <2>3 DEF Committed
    <3> HIDE DEF w, o
    <3>3. sig.domains \in SUBSET Domains
      BY DEF Sigs
    <3> QED
      BY <1>5, <3>1, <3>2, <3>3 DEF Memories
  <2> QED
    BY <2>2, <2>3
<1> QED
  BY <1>1, <1>2, <1>3, <1>4, <1>5

\* Rules are of the right type.
LEMMA RulesType ==
  ASSUME NEW sig \in Sigs
  PROVE  Rules(sig) \in RuleSets /\ Rules(sig).perma = sig.perma
BY DEF Rules, RuleSets, Sigs

-----------------------------------------------------------------------------
(* What the steps that change memory do *)

\* Nothing but what is known of the lists differs.
SameButLists(m, n) ==
  n.sig = m.sig /\ n.active = m.active /\ n.listed = m.listed /\ n.mode = m.mode /\ n.web = m.web

\* The lists are answered: the list that is new is the daemon's, and the pass goes on or puts
\* rules for it in place.
LEMMA ListsFacts ==
  ASSUME Typed, ListsAnswered
  PROVE  /\ mem' \in Memories /\ SameButLists(mem, mem')
         /\ stored' = stored \/ stored' = Saved(mem')
         /\ \/ mem'.perma = daemon.perma /\ mem'.hash = daemon.perma
            \/ mem'.perma = mem.perma /\ mem'.hash = mem.hash
         /\ "perma" \in mem'.known => "perma" \in mem.known \/ mem'.hash = daemon.perma
         /\ \/ Went(pass', mem')
            \/ /\ pass' \in Passes /\ PassOK(pass') /\ pass'.pc = "permarules" /\ ~mem.active
               /\ pass'.want.perma = mem'.perma
         /\ queued' \in BOOLEAN /\ events' \in Nat
         /\ UNCHANGED <<daemon, gone, restarted, rules, overtaken, mail, menu>>
<1> USE DEF Typed
<1>1. PICK got \in SUBSET {"perma", "settings"} :
        LET all == got = {"perma", "settings"}
            apply == "perma" \in got /\ NewList(mem) /\ ~mem.active
            m == [Learnt(mem, got) EXCEPT !.rev = IF all /\ ~apply THEN pass.rev ELSE @]
        IN /\ pass.pc = "lists"
           /\ IF all THEN UNCHANGED events ELSE Event
           /\ mem' = m
           /\ stored' = IF got = {} THEN stored ELSE Saved(m)
           /\ IF apply
              THEN /\ pass' = [pass EXCEPT !.pc = "permarules", !.config = all,
                                           !.want = Sig("idle", {}, m.perma)]
                   /\ UNCHANGED queued
              ELSE Decide(m, pass.key)
           /\ UNCHANGED <<daemon, gone, restarted, rules, overtaken, mail, menu>>
  BY DEF ListsAnswered
<1> DEFINE l == Learnt(mem, got)
           apply == "perma" \in got /\ NewList(mem) /\ ~mem.active
           all == got = {"perma", "settings"}
<1>2. l \in Memories
  BY MemoryTypes DEF TypeOK
<1>3. /\ SameButLists(mem, l)
      /\ \/ l.perma = daemon.perma /\ l.hash = daemon.perma
         \/ l.perma = mem.perma /\ l.hash = mem.hash
      /\ l.known = mem.known \cup got
      /\ "perma" \in got => l.hash = daemon.perma
  <2> DEFINE n == [mem EXCEPT !.known = @ \cup got]
  <2>1. n \in Memories
    BY DEF TypeOK, Memories
  <2>2. /\ SameButLists(mem, n) /\ n.perma = mem.perma /\ n.hash = mem.hash
        /\ n.known = mem.known \cup got
    BY DEF SameButLists, TypeOK, Memories
  <2> HIDE DEF n
  <2>3. CASE "perma" \in got /\ NewList(mem)
    <3>1. l = [n EXCEPT !.hash = daemon.perma, !.perma = daemon.perma]
      BY <2>3 DEF Learnt, n
    <3> QED
      BY <2>1, <2>2, <3>1 DEF SameButLists, Memories
  <2>4. CASE ~("perma" \in got /\ NewList(mem))
    <3>1. l = n
      BY <2>4 DEF Learnt, n
    <3> QED
      BY <2>2, <2>4, <3>1 DEF NewList
  <2> QED
    BY <2>3, <2>4
<1>4. \E r \in Nat \cup {NoRev} : mem' = [l EXCEPT !.rev = r]
  <2>1. pass.rev \in Nat \cup {NoRev} /\ l.rev \in Nat \cup {NoRev}
    BY <1>2 DEF TypeOK, Passes, Memories
  <2> QED
    BY <1>1, <2>1
<1>5. mem' \in Memories /\ SameButLists(l, mem') /\ mem'.perma = l.perma /\ mem'.hash = l.hash
      /\ mem'.known = l.known
  <2> HIDE DEF l
  <2> QED
    BY <1>2, <1>4 DEF Memories, SameButLists
<1>6. SameButLists(mem, mem')
  BY <1>3, <1>5 DEF SameButLists
<1>7. ASSUME apply
      PROVE  /\ pass' \in Passes /\ PassOK(pass') /\ pass'.pc = "permarules" /\ ~mem.active
             /\ pass'.want.perma = mem'.perma
             /\ queued' \in BOOLEAN
  <2>1. pass' = [pass EXCEPT !.pc = "permarules", !.config = all,
                             !.want = Sig("idle", {}, mem'.perma)]
    BY <1>1, <1>7
  <2>2. Sig("idle", {}, mem'.perma) \in Sigs
    BY <1>5, SigType DEF Memories, Keys
  <2>3. all \in BOOLEAN
    OBVIOUS
  <2>4. pass' \in Passes /\ pass'.pc = "permarules" /\ pass'.want = Sig("idle", {}, mem'.perma)
        /\ pass'.key = pass.key
    <3> HIDE DEF all
    <3> QED
      BY <2>1, <2>2, <2>3 DEF TypeOK, Passes
  <2>5. pass.key \in Keys
    BY <1>1 DEF PassOK
  <2> QED
    BY <1>1, <1>7, <2>4, <2>5 DEF PassOK, Sig, TypeOK
<1>8. ASSUME ~apply
      PROVE  Went(pass', mem') /\ queued' \in BOOLEAN
  <2>1. Decide(mem', pass.key)
    BY <1>1, <1>8
  <2>2. pass.key \in Keys
    BY <1>1 DEF PassOK
  <2> QED
    BY <1>5, <2>1, <2>2, DecideGoes DEF TypeOK
<1>9. events' \in Nat
  BY <1>1 DEF Event, TypeOK
<1> QED
  BY <1>1, <1>3, <1>5, <1>6, <1>7, <1>8, <1>9 DEF TypeOK

\* Chrome takes rules for the permanent list alone.
LEMMA PermaRulesFacts ==
  ASSUME Typed, PermaRulesApplied
  PROVE  /\ mem' \in Memories /\ mem'.sig = Sig("idle", {}, mem.perma)
         /\ mem'.active = mem.active /\ mem'.listed = mem.listed /\ mem'.mode = mem.mode
         /\ mem'.web = mem.web /\ mem'.perma = mem.perma /\ mem'.hash = mem.hash
         /\ mem'.known = mem.known
         /\ stored' = Saved(mem')
         /\ overtaken' = (pass.want # mem'.sig) /\ rules' = Rules(pass.want)
         /\ Went(pass', mem') /\ queued' \in BOOLEAN
         /\ UNCHANGED <<daemon, gone, restarted, mail, menu, events>>
<1> USE DEF Typed
<1> DEFINE l == Listing(mem)
<1>1. l \in Memories
  BY MemoryTypes DEF TypeOK
<1>2. /\ l.sig = Sig("idle", {}, mem.perma)
      /\ l.active = mem.active /\ l.listed = mem.listed /\ l.mode = mem.mode
      /\ l.web = mem.web /\ l.perma = mem.perma /\ l.hash = mem.hash /\ l.known = mem.known
  BY DEF Listing, TypeOK, Memories
<1>3. PICK r \in Nat \cup {NoRev} : mem' = [l EXCEPT !.rev = r]
  <2>1. pass.rev \in Nat \cup {NoRev} /\ l.rev \in Nat \cup {NoRev}
    BY <1>1 DEF TypeOK, Passes, Memories
  <2> QED
    BY <2>1 DEF PermaRulesApplied
<1>4. /\ mem' \in Memories /\ mem'.sig = l.sig /\ mem'.active = l.active
      /\ mem'.listed = l.listed /\ mem'.mode = l.mode /\ mem'.web = l.web
      /\ mem'.perma = l.perma /\ mem'.hash = l.hash /\ mem'.known = l.known
  <2> HIDE DEF l
  <2> QED
    BY <1>1, <1>3 DEF Memories
<1>5. stored' = Saved(mem') /\ rules' = Rules(pass.want) /\ overtaken' = (pass.want # mem'.sig)
  BY DEF PermaRulesApplied
<1>6. Went(pass', mem') /\ queued' \in BOOLEAN
  <2>1. pass.key \in Keys
    BY DEF PermaRulesApplied, PassOK
  <2>2. Decide(mem', pass.key)
    BY DEF PermaRulesApplied
  <2> QED
    BY <1>4, <2>1, <2>2, DecideGoes DEF TypeOK
<1> QED
  BY <1>2, <1>4, <1>5, <1>6 DEF PermaRulesApplied

\* The steps of a pass, a request or a stop after which the worker remembers what it did.
LEMMA PassSteps ==
  ASSUME Typed,
         \/ Ask \/ Deliver \/ StatusAnswered \/ Unreachable \/ PermaRulesRefused
         \/ DomainsAnswered \/ RulesRefused \/ Wake
  PROVE  /\ Went(pass', mem) \/ pass' = pass
         /\ queued' \in BOOLEAN /\ events' \in Nat /\ (mail' = mail \/ mail' = NoMail)
         /\ UNCHANGED <<daemon, gone, restarted, rules, overtaken, mem, stored, menu>>
<1> USE DEF Typed
<1>0. events \in Nat /\ queued \in BOOLEAN /\ mem \in Memories
  BY DEF TypeOK
<1>1. Event => events' \in Nat
  BY <1>0 DEF Event
<1>2. ASSUME NEW sig, Refused(sig) PROVE events' \in Nat
  BY <1>0, <1>1, <1>2 DEF Refused
<1>3. Request => (Went(pass', mem) \/ pass' = pass) /\ queued' \in BOOLEAN
  BY <1>0, IdlePasses DEF Request
<1>4. ASSUME Ask PROVE (Went(pass', mem) \/ pass' = pass) /\ queued' \in BOOLEAN
                       /\ UNCHANGED <<daemon, gone, restarted, chrome, mem, mail, menu, events>>
  BY <1>3, <1>4 DEF Ask
<1>5. ASSUME Deliver PROVE (Went(pass', mem) \/ pass' = pass) /\ queued' \in BOOLEAN
                           /\ mail' = NoMail
                           /\ UNCHANGED <<daemon, gone, restarted, chrome, mem, menu, events>>
  <2>1. mail.key \in Keys /\ mail.rev \in Nat \cup {NoRev}
    BY <1>5 DEF Deliver, TypeOK
  <2>2. Use(mail.key, mail.rev) => Went(pass', mem) /\ queued' \in BOOLEAN
    BY <2>1, UseGoes
  <2> QED
    BY <1>0, <1>5, <2>2 DEF Deliver
<1>6. ASSUME StatusAnswered
      PROVE  Went(pass', mem) /\ queued' \in BOOLEAN
             /\ UNCHANGED <<daemon, gone, restarted, chrome, mem, mail, menu, events>>
  <2>1. Status.key \in Keys /\ Status.rev \in Nat \cup {NoRev}
    BY PlanKnown DEF Status, TypeOK
  <2>2. Use(Status.key, Status.rev)
    BY <1>6 DEF StatusAnswered
  <2> QED
    BY <1>6, <2>1, <2>2, UseGoes DEF StatusAnswered
<1>7. ASSUME Unreachable \/ RulesRefused
      PROVE  Went(pass', mem) /\ queued' \in BOOLEAN /\ events' \in Nat
             /\ UNCHANGED <<daemon, gone, restarted, chrome, mem, mail, menu>>
  BY <1>1, <1>2, <1>7, FinishGoes DEF Unreachable, RulesRefused
<1>8. ASSUME PermaRulesRefused
      PROVE  Went(pass', mem) /\ queued' \in BOOLEAN /\ events' \in Nat
             /\ UNCHANGED <<daemon, gone, restarted, chrome, mem, mail, menu>>
  <2>1. pass.key \in Keys
    BY <1>8 DEF PermaRulesRefused, PassOK
  <2>2. Decide(mem, pass.key)
    BY <1>8 DEF PermaRulesRefused
  <2> QED
    BY <1>0, <1>2, <1>8, <2>1, <2>2, DecideGoes DEF PermaRulesRefused
<1>9. ASSUME DomainsAnswered
      PROVE  Went(pass', mem) /\ queued' \in BOOLEAN
             /\ UNCHANGED <<daemon, gone, restarted, chrome, mem, mail, menu, events>>
  <2> DEFINE sig == Sig(pass.key, daemon.plan.domains, mem.perma)
  <2>1. pass.key \in Keys \ Open
    BY <1>9 DEF DomainsAnswered, PassOK
  <2>2. sig \in Sigs
    BY <1>0, <2>1, PlanKnown, SigType DEF Memories
  <2>3. sig.key = pass.key /\ sig.perma = mem.perma
    BY DEF Sig
  <2>4. (pass' = Replace(mem, sig) /\ UNCHANGED queued) \/ Finish
    BY <1>9 DEF DomainsAnswered
  <2> HIDE DEF sig
  <2>5. Went(Replace(mem, sig), mem)
    BY <2>1, <2>2, <2>3, ReplaceGoes
  <2> QED
    BY <1>0, <1>9, <2>4, <2>5, FinishGoes DEF DomainsAnswered
<1>10. ASSUME Wake PROVE Went(pass', mem) /\ queued' \in BOOLEAN
                         /\ UNCHANGED <<daemon, gone, restarted, chrome, mem, mail, menu, events>>
  BY <1>0, <1>10, IdlePasses DEF Wake
<1> QED
  BY <1>0, <1>4, <1>5, <1>6, <1>7, <1>8, <1>9, <1>10 DEF chrome

\* The daemon's own steps leave Chrome and the worker alone, except for the menu.
LEMMA DaemonSteps ==
  ASSUME Typed, ChangePlan \/ Block \/ Unblock \/ RestartDaemon \/ MenuPost
  PROVE  /\ daemon' \in [plan : Plans, perma : SUBSET Domains, rev : Nat]
         /\ gone' \in SUBSET Domains /\ restarted' \in BOOLEAN /\ events' \in Nat
         /\ menu' \in Domains \cup {None}
         /\ gone \subseteq gone' /\ daemon.perma \ daemon'.perma \subseteq gone'
         /\ menu' = menu \/ menu' \in daemon'.perma
         /\ UNCHANGED <<rules, overtaken, mem, stored, pass, queued, mail>>
<1> USE DEF Typed
<1>0. daemon \in [plan : Plans, perma : SUBSET Domains, rev : Nat] /\ events \in Nat
      /\ gone \in SUBSET Domains /\ restarted \in BOOLEAN /\ menu \in Domains \cup {None}
  BY DEF TypeOK
<1>1. ASSUME NEW d \in [plan : Plans, perma : SUBSET Domains, rev : Nat], Changed(d)
      PROVE  /\ daemon' \in [plan : Plans, perma : SUBSET Domains, rev : Nat]
             /\ daemon'.perma = d.perma /\ events' \in Nat
             /\ UNCHANGED <<restarted, rules, overtaken, stored>>
  BY <1>0, <1>1 DEF Changed, Event, chrome
<1>2. CASE ChangePlan
  <2>1. PICK p \in Plans : Changed([daemon EXCEPT !.plan = p])
    BY <1>2 DEF ChangePlan
  <2>2. [daemon EXCEPT !.plan = p] \in [plan : Plans, perma : SUBSET Domains, rev : Nat]
        /\ [daemon EXCEPT !.plan = p].perma = daemon.perma
    BY <1>0
  <2> QED
    BY <1>0, <1>1, <1>2, <2>1, <2>2 DEF ChangePlan, worker
<1>3. CASE Block
  <2>1. PICK d \in Domains : Changed([daemon EXCEPT !.perma = @ \cup {d}])
    BY <1>3 DEF Block
  <2>2. [daemon EXCEPT !.perma = @ \cup {d}] \in [plan : Plans, perma : SUBSET Domains, rev : Nat]
        /\ [daemon EXCEPT !.perma = @ \cup {d}].perma = daemon.perma \cup {d}
    BY <1>0
  <2> QED
    BY <1>0, <1>1, <1>3, <2>1, <2>2 DEF Block, worker
<1>4. CASE Unblock
  <2>1. PICK d \in daemon.perma : /\ Changed([daemon EXCEPT !.perma = @ \ {d}])
                                  /\ gone' = gone \cup {d}
    BY <1>4 DEF Unblock
  <2>2. [daemon EXCEPT !.perma = @ \ {d}] \in [plan : Plans, perma : SUBSET Domains, rev : Nat]
        /\ [daemon EXCEPT !.perma = @ \ {d}].perma = daemon.perma \ {d}
    BY <1>0
  <2> QED
    BY <1>0, <1>1, <1>4, <2>1, <2>2 DEF Unblock, worker
<1>5. CASE RestartDaemon
  BY <1>0, <1>5 DEF RestartDaemon, Event, worker, chrome
<1>6. CASE MenuPost
  <2>1. PICK d \in Domains :
          /\ menu' = d
          /\ IF d \in daemon.perma THEN UNCHANGED <<daemon, restarted, chrome, events>>
                                   ELSE Changed([daemon EXCEPT !.perma = @ \cup {d}])
    BY <1>6 DEF MenuPost
  <2>2. [daemon EXCEPT !.perma = @ \cup {d}] \in [plan : Plans, perma : SUBSET Domains, rev : Nat]
        /\ [daemon EXCEPT !.perma = @ \cup {d}].perma = daemon.perma \cup {d}
    BY <1>0
  <2> QED
    BY <1>0, <1>1, <1>6, <2>1, <2>2 DEF MenuPost, chrome
<1> QED
  BY <1>2, <1>3, <1>4, <1>5, <1>6

\* What the menu's answer adds.
LEMMA MenuDoneFacts ==
  ASSUME Typed, MenuDone
  PROVE  /\ mem' \in Memories /\ SameButLists(mem, mem') /\ mem'.perma = mem.perma \cup {menu}
         /\ mem'.hash = mem.hash /\ mem'.known = mem.known
         /\ (Went(pass', mem) /\ pass'.pc = "status") \/ pass' = pass
         /\ queued' \in BOOLEAN /\ menu \in Domains /\ menu' = None
         /\ UNCHANGED <<daemon, gone, restarted, rules, stored, overtaken, mail, events>>
<1> USE DEF Typed
<1>1. menu \in Domains /\ mem \in Memories /\ queued \in BOOLEAN
  BY DEF MenuDone, TypeOK
<1>2. mem' = [mem EXCEPT !.perma = @ \cup {menu}]
  BY DEF MenuDone
<1>3. /\ mem' \in Memories /\ SameButLists(mem, mem') /\ mem'.perma = mem.perma \cup {menu}
      /\ mem'.hash = mem.hash /\ mem'.known = mem.known
  BY <1>1, <1>2 DEF Memories, SameButLists
<1>4. Asking.pc = "status"
  BY DEF Asking, NoPass
<1> QED
  BY <1>1, <1>3, <1>4, IdlePasses DEF MenuDone, Request, chrome

\* A stop leaves what is stored.
LEMMA StopFacts ==
  ASSUME Typed, Suspend \/ CloseBrowser
  PROVE  /\ mem' = stored' /\ (mem' = stored \/ mem' = NoMemory) /\ mem' \in Memories
         /\ Went(pass', mem') /\ queued' \in BOOLEAN /\ events' \in Nat
         /\ mail' = NoMail /\ menu' = None
         /\ UNCHANGED <<daemon, gone, restarted, rules, overtaken>>
<1>1. stored \in Memories /\ NoMemory \in Memories /\ events \in Nat
  BY MemoryTypes DEF Typed, TypeOK
<1>2. PICK m \in {stored, NoMemory} : Stopped(m)
  BY DEF Suspend, CloseBrowser
<1>3. /\ mem' = m /\ stored' = m /\ pass' = Asleep /\ queued' = FALSE /\ mail' = NoMail
      /\ menu' = None /\ Event
      /\ UNCHANGED <<daemon, gone, restarted, rules, overtaken>>
  BY <1>2 DEF Stopped
<1>4. events' \in Nat
  BY <1>1, <1>3 DEF Event
<1>5. Went(pass', mem')
  BY <1>3, IdlePasses
<1> QED
  BY <1>1, <1>3, <1>4, <1>5

\* Chrome takes the rules of a pass.
LEMMA RulesFacts ==
  ASSUME Typed, RulesApplied
  PROVE  /\ mem' \in Memories /\ stored' = Saved(mem') /\ mem' = Committed(mem, pass.want)
         /\ rules' = Rules(pass.want) /\ overtaken' = FALSE
         /\ Went(pass', mem') /\ pass'.pc \notin {"permarules", "rules"} /\ queued' \in BOOLEAN
         /\ UNCHANGED <<daemon, gone, restarted, mail, menu, events>>
<1>1. pass.want \in Sigs /\ pass.want.key \in Keys /\ mem \in Memories
  BY DEF Typed, TypeOK, Passes, PassOK, RulesApplied
<1> QED
  BY <1>1, MemoryTypes, IdlePasses DEF RulesApplied, Finish

-----------------------------------------------------------------------------
(* What the worker remembers *)

\* The stream and the checks of navigations bring a status of the daemon.
LEMMA MailFacts ==
  ASSUME Typed, Announce \/ Navigate
  PROVE  /\ mail' \in [via : {None, "stream", "navigation"}, key : Keys \cup {None},
                       rev : Nat \cup {NoRev}]
         /\ mail'.key \in Keys
         /\ UNCHANGED <<daemon, gone, restarted, chrome, mem, pass, queued, menu, events>>
<1>1. Status.key \in Keys /\ Status.rev \in Nat
  BY PlanKnown DEF Typed, TypeOK, Status
<1> QED
  BY <1>1 DEF Announce, Navigate

\* Every step keeps types.
LEMMA TypedStep ==
  ASSUME Typed, [Next]_vars
  PROVE  Typed'
<1>1. CASE ChangePlan \/ Block \/ Unblock \/ RestartDaemon \/ MenuPost
  BY <1>1, DaemonSteps DEF Typed, TypeOK, NoMail
<1>2. CASE \/ Ask \/ Deliver \/ StatusAnswered \/ Unreachable \/ PermaRulesRefused
           \/ DomainsAnswered \/ RulesRefused \/ Wake
  <2>1. /\ Went(pass', mem) \/ pass' = pass
        /\ queued' \in BOOLEAN /\ events' \in Nat /\ (mail' = mail \/ mail' = NoMail)
        /\ UNCHANGED <<daemon, gone, restarted, rules, overtaken, mem, stored, menu>>
    BY <1>2, PassSteps
  <2>2. NoMail \in [via : {None, "stream", "navigation"}, key : Keys \cup {None},
                    rev : Nat \cup {NoRev}]
    BY DEF NoMail
  <2> QED
    BY <2>1, <2>2 DEF Typed, TypeOK, Went
<1>3. CASE Announce \/ Navigate
  BY <1>3, MailFacts DEF Typed, TypeOK, chrome
<1>4. CASE ListsAnswered
  <2>1. Saved(mem') \in Memories
    BY <1>4, ListsFacts, MemoryTypes
  <2> QED
    BY <1>4, <2>1, ListsFacts DEF Typed, TypeOK, Went
<1>5. CASE PermaRulesApplied
  <2>1. Saved(mem') \in Memories /\ rules' \in RuleSets /\ overtaken' \in BOOLEAN
    BY <1>5, PermaRulesFacts, MemoryTypes, RulesType DEF Typed, TypeOK, Passes
  <2>2. /\ mem' \in Memories /\ stored' = Saved(mem') /\ Went(pass', mem') /\ queued' \in BOOLEAN
        /\ UNCHANGED <<daemon, gone, restarted, mail, menu, events>>
    BY <1>5, PermaRulesFacts
  <2> QED
    BY <2>1, <2>2 DEF Typed, TypeOK, Went
<1>6. CASE RulesApplied
  <2>1. Saved(mem') \in Memories /\ rules' \in RuleSets
    BY <1>6, RulesFacts, MemoryTypes, RulesType DEF Typed, TypeOK, Passes
  <2> QED
    BY <1>6, <2>1, RulesFacts DEF Typed, TypeOK, Went
<1>7. CASE MenuDone
  BY <1>7, MenuDoneFacts DEF Typed, TypeOK, Went
<1>8. CASE Suspend \/ CloseBrowser
  <2>1. NoMail \in [via : {None, "stream", "navigation"}, key : Keys \cup {None},
                    rev : Nat \cup {NoRev}]
    BY DEF NoMail
  <2> QED
    BY <1>8, <2>1, StopFacts DEF Typed, TypeOK, Went
<1>9. CASE UNCHANGED vars
  BY <1>9 DEF vars, chrome, worker, Typed, TypeOK
<1> QED
  BY <1>1, <1>2, <1>3, <1>4, <1>5, <1>6, <1>7, <1>8, <1>9 DEF Next

\* At first, types are right,
LEMMA InitTyped ==
  ASSUME Init
  PROVE  Typed
<1>1. PICK b \in Beginnings : daemon = [plan |-> b.plan, perma |-> b.perma, rev |-> 0]
  BY DEF Init
<1>2. daemon \in [plan : Plans, perma : SUBSET Domains, rev : Nat]
  BY <1>1, ConstantsAssumption
<1>3. rules \in RuleSets
  BY RulesType, SigType DEF Init, NoRules, Keys
<1>4. mem \in Memories /\ stored \in Memories /\ pass \in Passes /\ PassOK(pass)
  BY MemoryTypes, IdlePasses DEF Init, Went
<1>5. mail \in [via : {None, "stream", "navigation"}, key : Keys \cup {None},
                rev : Nat \cup {NoRev}]
  BY DEF Init, NoMail
<1> QED
  BY <1>2, <1>3, <1>4, <1>5 DEF Init, Typed, TypeOK

\* TypeOK is an invariant.
THEOREM TypeCorrect == Spec => []TypeOK
<1>1. Typed => TypeOK
  BY DEF Typed
<1> QED
  BY <1>1, InitTyped, TypedStep, PTL DEF Spec

\* The fallback's state matches the signature after every step that changes one of them.
LEMMA CommittedMatches ==
  ASSUME NEW m \in Memories, NEW sig \in Sigs, sig.key \in Keys,
         sig.key \in Open => sig.domains = {}
  PROVE  Matches(Committed(m, sig)) /\ Committed(m, sig).sig = sig
<1>1. CASE sig.key \in Open
  <2>1. Committed(m, sig) = [m EXCEPT !.active = FALSE, !.key = None, !.sig = sig,
                             !.listed = {}, !.mode = None, !.web = FALSE]
    BY <1>1 DEF Committed
  <2> QED
    BY <1>1, <2>1 DEF Matches, Memories
<1>2. CASE sig.key \notin Open
  <2> DEFINE w == sig.key \in WebOnly
  <2>0. w \in BOOLEAN
    OBVIOUS
  <2>1. Committed(m, sig) = [m EXCEPT !.active = TRUE, !.key = sig.key, !.sig = sig,
                             !.listed = sig.domains, !.web = w, !.mode = Mode(sig.key)]
    BY <1>2 DEF Committed
  <2> HIDE DEF w
  <2>2. /\ Committed(m, sig).active = TRUE /\ Committed(m, sig).sig = sig
        /\ Committed(m, sig).listed = sig.domains /\ Committed(m, sig).mode = Mode(sig.key)
    BY <2>1 DEF Memories
  <2>3. Committed(m, sig).web = w
    BY <2>1, Zenon DEF Memories
  <2> QED
    BY <1>2, <2>2, <2>3 DEF Matches, w
<1> QED
  BY <1>1, <1>2

\* What is saved can be gone on with.
LEMMA SavedFacts ==
  ASSUME NEW m \in Memories
  PROVE  Durable(m, Saved(m)) /\ Saved(m).perma = m.perma /\ Saved(m).known = m.known
         /\ Saved(m).hash = {}
BY DEF Saved, Memories, Durable

\* A worker that knows nothing has nothing in place.
LEMMA NoMemoryFacts == Matches(NoMemory) /\ Durable(NoMemory, NoMemory)
BY DEF NoMemory, Matches, Durable, NoSig, Sig

\* What a step may do to what matters for the record: nothing,
LEMMA RecordUntouched ==
  ASSUME IInv, Typed', SameButLists(mem, mem'), Durable(mem', stored'),
         UNCHANGED <<rules, overtaken>>,
         pass'.pc = "permarules" => ~mem.active
  PROVE  IInv'
<1>1. Matches(mem)'
  BY DEF IInv, Matches, SameButLists
<1>2. RecordTrue'
  BY DEF IInv, RecordTrue, SameButLists
<1> QED
  BY <1>1, <1>2 DEF IInv, SameButLists

\* or what a step of the worker does.
LEMMA Step ==
  ASSUME IInv, [Next]_vars
  PROVE  IInv'
<1>0. Typed /\ Typed' /\ mem \in Memories /\ mem' \in Memories
  BY TypedStep DEF IInv, Typed, TypeOK
<1>1. Durable(mem, stored) /\ (pass.pc = "permarules" => ~mem.active)
  BY DEF IInv
<1>2. CASE ChangePlan \/ Block \/ Unblock \/ RestartDaemon \/ MenuPost
  BY <1>0, <1>1, <1>2, DaemonSteps, RecordUntouched DEF SameButLists
<1>3. CASE \/ Ask \/ Deliver \/ StatusAnswered \/ Unreachable \/ PermaRulesRefused
           \/ DomainsAnswered \/ RulesRefused \/ Wake
  <2>1. /\ Went(pass', mem) \/ pass' = pass
        /\ UNCHANGED <<rules, overtaken, mem, stored>>
    BY <1>0, <1>3, PassSteps
  <2> QED
    BY <1>0, <1>1, <2>1, RecordUntouched DEF SameButLists, Went
<1>4. CASE Announce \/ Navigate
  BY <1>0, <1>1, <1>4, MailFacts, RecordUntouched DEF SameButLists, chrome
<1>5. CASE ListsAnswered
  <2>1. /\ SameButLists(mem, mem') /\ (stored' = stored \/ stored' = Saved(mem'))
        /\ Went(pass', mem') \/ ~mem.active
        /\ UNCHANGED <<rules, overtaken>>
    BY <1>0, <1>5, ListsFacts
  <2>2. Durable(mem', stored')
    BY <1>0, <1>1, <2>1, SavedFacts DEF Durable, SameButLists
  <2> QED
    BY <1>0, <2>1, <2>2, RecordUntouched DEF Went
<1>6. CASE PermaRulesApplied
  <2>1. /\ mem'.sig = Sig("idle", {}, mem.perma)
        /\ mem'.active = mem.active /\ mem'.listed = mem.listed /\ mem'.mode = mem.mode
        /\ mem'.web = mem.web
        /\ stored' = Saved(mem')
        /\ overtaken' = (pass.want # mem'.sig) /\ rules' = Rules(pass.want)
        /\ Went(pass', mem')
    BY <1>0, <1>6, PermaRulesFacts
  <2>2. ~mem.active
    BY <1>1, <1>6 DEF PermaRulesApplied
  <2>3. Matches(mem)'
    BY <2>1, <2>2 DEF IInv, Matches, Sig, Keys, Open
  <2>4. Durable(mem', stored')
    BY <1>0, <2>1, SavedFacts
  <2>5. RecordTrue'
    BY <2>1 DEF RecordTrue
  <2> QED
    BY <1>0, <2>1, <2>3, <2>4, <2>5 DEF IInv, Went
<1>7. CASE RulesApplied
  <2>1. pass.want \in Sigs /\ pass.want.key \in Keys
        /\ (pass.want.key \in Open => pass.want.domains = {})
    BY <1>0, <1>7 DEF Typed, TypeOK, Passes, PassOK, RulesApplied
  <2>2. /\ mem' = Committed(mem, pass.want) /\ stored' = Saved(mem')
        /\ rules' = Rules(pass.want) /\ Went(pass', mem')
    BY <1>0, <1>7, RulesFacts
  <2>3. Matches(mem)' /\ mem'.sig = pass.want
    BY <1>0, <2>1, <2>2, CommittedMatches DEF Matches
  <2>4. Durable(mem', stored')
    BY <1>0, <2>2, SavedFacts
  <2>5. RecordTrue'
    BY <2>2, <2>3 DEF RecordTrue
  <2> QED
    BY <1>0, <2>2, <2>3, <2>4, <2>5 DEF IInv, Went
<1>8. CASE MenuDone
  <2>1. /\ SameButLists(mem, mem') /\ UNCHANGED <<rules, overtaken, stored>>
        /\ pass'.pc = "permarules" => pass.pc = "permarules"
    BY <1>0, <1>8, MenuDoneFacts
  <2>2. Durable(mem', stored')
    BY <1>1, <2>1 DEF Durable, SameButLists
  <2> QED
    BY <1>0, <1>1, <2>1, <2>2, RecordUntouched
<1>9. CASE Suspend \/ CloseBrowser
  <2>1. /\ mem' = stored' /\ (mem' = stored \/ mem' = NoMemory) /\ Went(pass', mem')
        /\ UNCHANGED <<rules, overtaken>>
    BY <1>0, <1>9, StopFacts
  <2>2. CASE mem' = stored
    <3>1. SameButLists(mem, mem') /\ Durable(mem', stored')
      BY <1>1, <2>1, <2>2 DEF SameButLists, Durable
    <3> QED
      BY <1>0, <2>1, <3>1, RecordUntouched DEF Went
  <2>3. CASE mem' = NoMemory
    <3>1. Matches(mem)' /\ Durable(mem', stored')
      BY <2>1, <2>3, NoMemoryFacts DEF Matches, Durable
    <3>2. RecordTrue'
      BY <2>3 DEF RecordTrue, NoMemory
    <3> QED
      BY <1>0, <2>1, <3>1, <3>2 DEF IInv, Went
  <2> QED
    BY <2>1, <2>2, <2>3
<1>10. CASE UNCHANGED vars
  BY <1>0, <1>1, <1>10, RecordUntouched DEF vars, chrome, worker, SameButLists
<1> QED
  BY <1>2, <1>3, <1>4, <1>5, <1>6, <1>7, <1>8, <1>9, <1>10 DEF Next

\* It holds at first,
LEMMA InitHolds ==
  ASSUME Init
  PROVE  IInv
<1>1. Typed
  BY InitTyped
<1>2. mem = NoMemory /\ stored = NoMemory /\ pass = Asleep
  BY DEF Init
<1>3. Matches(mem) /\ Durable(mem, stored)
  BY <1>2, NoMemoryFacts
<1>4. pass.pc # "permarules"
  BY <1>2, IdlePasses
<1>5. RecordTrue
  BY <1>2 DEF RecordTrue, NoMemory
<1> QED
  BY <1>1, <1>3, <1>4, <1>5 DEF IInv

\* so it holds for ever.
LEMMA Invariant == Spec => []IInv
BY InitHolds, Step, PTL DEF Spec

\* What the worker remembers of its rules is what Chrome enforces.
THEOREM RecordIsTrue == Spec => []RecordTrue
<1>1. IInv => RecordTrue
  BY DEF IInv
<1> QED
  BY <1>1, Invariant, PTL

\* Rules that the signature describes block what the fallback blocks.
LEMMA LayersAgree ==
  ASSUME IInv
  PROVE  FallbackAgrees
<1> SUFFICES ASSUME mem.sig # NoSig, mem.sig.perma = mem.perma, ~overtaken
             PROVE  /\ mem.web = rules.web
                    /\ \A d \in Domains : Blocks(rules, d) <=> ShouldBlock(mem, d)
  BY DEF FallbackAgrees
<1>1. rules = Rules(mem.sig) /\ mem.sig.key \in Keys /\ Matches(mem) /\ mem.web \in BOOLEAN
  BY DEF IInv, RecordTrue, Matches, Typed, TypeOK, Memories
<1>2. /\ rules.base = IF mem.sig.key \in Open \cup Listed THEN "listed" ELSE "allbut"
      /\ rules.domains = IF mem.sig.key \in Listed THEN mem.sig.domains \ mem.sig.perma
                                                   ELSE mem.sig.domains
      /\ rules.perma = mem.perma
  BY <1>1 DEF Rules
<1>3. rules.web = (mem.sig.key \in WebOnly)
  BY <1>1, Zenon DEF Rules
<1>4. CASE mem.active
  <2>1. mem.web = rules.web
    BY <1>1, <1>3, <1>4 DEF Matches
  <2>2. mem.sig.key \notin Open /\ mem.listed = mem.sig.domains /\ mem.mode = Mode(mem.sig.key)
    BY <1>1, <1>4 DEF Matches
  <2>3. \A d \in Domains : Blocks(rules, d) <=> ShouldBlock(mem, d)
    <3>1. CASE mem.sig.key \in Listed
      <4>1. rules.base = "listed" /\ rules.domains = mem.sig.domains \ mem.perma
            /\ mem.mode = "blacklist"
        BY <1>2, <2>2, <3>1 DEF Mode
      <4> QED
        BY <1>2, <2>2, <4>1 DEF Blocks, ShouldBlock
    <3>2. CASE mem.sig.key \notin Listed
      <4>1. rules.base = "allbut" /\ rules.domains = mem.sig.domains
            /\ mem.mode \in {"whitelist", "ban"}
        BY <1>2, <2>2, <3>2 DEF Mode
      <4> QED
        BY <1>2, <2>2, <4>1 DEF Blocks, ShouldBlock
    <3> QED
      BY <3>1, <3>2
  <2> QED
    BY <2>1, <2>3
<1>5. CASE ~mem.active
  <2>1. mem.sig.key \in Open /\ mem.sig.domains = {} /\ mem.mode = None /\ ~mem.web
    BY <1>1, <1>5 DEF Matches, Keys, None
  <2>2. ~rules.web
    BY <1>3, <2>1 DEF Open, WebOnly
  <2>3. \A d \in Domains : Blocks(rules, d) <=> ShouldBlock(mem, d)
    BY <1>2, <2>1 DEF Blocks, ShouldBlock, Open, Listed, None
  <2>4. rules.web \in BOOLEAN
    BY <1>3
  <2> QED
    BY <1>1, <2>1, <2>2, <2>3, <2>4
<1> QED
  BY <1>4, <1>5

\* Whatever passes have run, the rules and the fallback judge every page alike.
THEOREM FallbackIsTrue == Spec => []FallbackAgrees
BY LayersAgree, Invariant, PTL

-----------------------------------------------------------------------------
(* What is blocked for ever *)

\* What rules that are in force leave of the lists.
LEMMA CommittedLists ==
  ASSUME NEW m \in Memories, NEW sig \in Sigs
  PROVE  /\ Committed(m, sig).perma = m.perma /\ Committed(m, sig).hash = m.hash
         /\ Committed(m, sig).known = m.known
BY DEF Committed, Memories

\* A step that leaves Chrome's rules alone, when what it remembers is what it knew.
LEMMA PermaUntouched ==
  ASSUME PermaInv, Went(pass', mem) \/ pass' = pass, menu' = menu \/ menu' = None,
         UNCHANGED <<daemon, gone, rules, mem, stored>>
  PROVE  PermaInv'
<1>1. CASE pass' = pass
  BY <1>1 DEF PermaInv, Believed, None
<1>2. CASE Went(pass', mem)
  <2>1. pass'.pc # "permarules" /\ (pass'.pc = "rules" => pass'.want.perma = mem.perma)
        /\ (pass'.pc = "rules" /\ pass'.informed => "perma" \in mem.known)
        /\ pass'.want.perma \subseteq mem.perma
    BY <1>2 DEF Went, NoSig, Sig
  <2> QED
    BY <2>1 DEF PermaInv, Believed, None
<1> QED
  BY <1>1, <1>2

\* Every step keeps the permanent list among those who know it.
LEMMA PermaStep ==
  ASSUME Typed, PermaInv, [Next]_vars
  PROVE  PermaInv'
<1>0. mem \in Memories /\ gone \subseteq Domains
  BY DEF Typed, TypeOK
<1>1. ASSUME NEW m, Went(pass', m)
      PROVE  /\ pass'.pc # "permarules" /\ (pass'.pc = "rules" => pass'.want.perma = m.perma)
             /\ (pass'.pc = "rules" /\ pass'.informed => "perma" \in m.known)
             /\ pass'.want.perma \subseteq m.perma
  BY <1>1 DEF Went, NoSig, Sig
<1>2. CASE ChangePlan \/ Block \/ Unblock \/ RestartDaemon \/ MenuPost
  <2>1. /\ gone \subseteq gone' /\ daemon.perma \ daemon'.perma \subseteq gone'
        /\ menu' = menu \/ menu' \in daemon'.perma
        /\ UNCHANGED <<rules, mem, stored, pass>>
    BY <1>2, DaemonSteps
  <2> QED
    BY <2>1 DEF PermaInv, Believed
<1>3. CASE \/ Ask \/ Deliver \/ StatusAnswered \/ Unreachable \/ PermaRulesRefused
           \/ DomainsAnswered \/ RulesRefused \/ Wake
  BY <1>3, PassSteps, PermaUntouched
<1>4. CASE Announce \/ Navigate
  BY <1>4, MailFacts, PermaUntouched DEF chrome
<1>5. CASE ListsAnswered
  <2>1. /\ mem' \in Memories
        /\ stored' = stored \/ stored' = Saved(mem')
        /\ \/ mem'.perma = daemon.perma /\ mem'.hash = daemon.perma
           \/ mem'.perma = mem.perma /\ mem'.hash = mem.hash
        /\ "perma" \in mem'.known => "perma" \in mem.known \/ mem'.hash = daemon.perma
        /\ Went(pass', mem') \/ (pass'.pc = "permarules" /\ pass'.want.perma = mem'.perma)
        /\ UNCHANGED <<daemon, gone, rules, menu>>
    BY <1>5, ListsFacts
  <2>2. mem'.hash \subseteq mem'.perma /\ mem'.perma \ daemon.perma \subseteq gone
    BY <2>1 DEF PermaInv, Believed
  <2>3. "perma" \in mem'.known => rules.perma \ mem'.perma \subseteq gone
    BY <2>1, <2>2 DEF PermaInv, Believed
  <2>4. stored'.perma \ daemon.perma \subseteq gone /\ stored'.hash = {}
        /\ ("perma" \in stored'.known => rules.perma \ stored'.perma \subseteq gone)
    BY <2>1, <2>2, <2>3, SavedFacts DEF PermaInv, Believed
  <2>5. /\ pass'.want.perma \subseteq mem'.perma
        /\ pass'.pc = "rules" /\ pass'.informed =>
             "perma" \in mem'.known /\ pass'.want.perma = mem'.perma
    BY <1>1, <2>1
  <2> QED
    BY <2>1, <2>2, <2>3, <2>4, <2>5 DEF PermaInv, Believed
<1>6. ASSUME mem'.perma = mem.perma, mem'.hash = mem.hash, mem'.known = mem.known,
             stored' = Saved(mem'), mem' \in Memories, rules' = Rules(pass.want),
             pass.want \in Sigs, pass.pc \in {"permarules", "rules"},
             Went(pass', mem'), UNCHANGED <<daemon, gone, menu>>
      PROVE  PermaInv'
  <2>1. rules'.perma \subseteq mem.perma
    BY <1>6, RulesType DEF PermaInv
  <2>2. stored'.perma = mem.perma /\ stored'.hash = {}
    BY <1>6, SavedFacts
  <2>3. /\ pass'.pc # "permarules" /\ pass'.want.perma \subseteq mem'.perma
        /\ pass'.pc = "rules" => pass'.want.perma = mem.perma
    BY <1>1, <1>6
  <2> QED
    BY <1>6, <2>1, <2>2, <2>3 DEF PermaInv, Believed
<1>7. CASE PermaRulesApplied
  <2>1. pass.want \in Sigs /\ pass.pc = "permarules"
    BY <1>7 DEF PermaRulesApplied, Typed, TypeOK, Passes
  <2> QED
    BY <1>6, <1>7, <2>1, PermaRulesFacts
<1>8. CASE RulesApplied
  <2>1. pass.want \in Sigs /\ pass.pc = "rules"
    BY <1>8 DEF RulesApplied, Typed, TypeOK, Passes
  <2>2. mem'.perma = mem.perma /\ mem'.hash = mem.hash /\ mem'.known = mem.known
    BY <1>0, <1>8, <2>1, RulesFacts, CommittedLists
  <2> QED
    BY <1>6, <1>8, <2>1, <2>2, RulesFacts
<1>9. CASE MenuDone
  <2>1. /\ mem'.perma = mem.perma \cup {menu} /\ mem'.hash = mem.hash /\ mem'.known = mem.known
        /\ menu \in Domains /\ menu' = None
        /\ (Went(pass', mem) /\ pass'.pc = "status") \/ pass' = pass
        /\ UNCHANGED <<daemon, gone, rules, stored>>
    BY <1>9, MenuDoneFacts
  <2>2. menu \in daemon.perma \cup gone
    BY <1>9 DEF MenuDone, PermaInv
  <2>3. (pass'.pc # "permarules" /\ pass'.pc # "rules" /\ pass'.want.perma \subseteq mem.perma)
        \/ pass' = pass
    BY <1>1, <2>1
  <2> QED
    BY <2>1, <2>2, <2>3 DEF PermaInv, Believed, None
<1>10. CASE Suspend \/ CloseBrowser
  <2>1. /\ mem' = stored' /\ (mem' = stored \/ mem' = NoMemory)
        /\ Went(pass', mem') /\ menu' = None
        /\ UNCHANGED <<daemon, gone, rules>>
    BY <1>10, StopFacts
  <2>2. NoMemory.perma = {} /\ NoMemory.hash = {} /\ NoMemory.known = {}
    BY DEF NoMemory
  <2>3. /\ pass'.pc # "permarules" /\ pass'.want.perma \subseteq mem'.perma
        /\ pass'.pc = "rules" => pass'.want.perma = mem'.perma
        /\ pass'.pc = "rules" /\ pass'.informed => "perma" \in mem'.known
    BY <1>1, <2>1
  <2> QED
    BY <2>1, <2>2, <2>3 DEF PermaInv, Believed
<1>11. CASE UNCHANGED vars
  BY <1>11, PermaUntouched DEF vars, chrome, worker
<1> QED
  BY <1>2, <1>3, <1>4, <1>5, <1>7, <1>8, <1>9, <1>10, <1>11 DEF Next

\* Nobody knows of anything that is blocked for ever at first.
LEMMA PermaInit ==
  ASSUME Init
  PROVE  PermaInv
BY DEF Init, PermaInv, Believed, NoRules, Rules, Sig, NoMemory, Asleep, NoPass, NoSig, None

\* Rules that were made with the permanent list drop nothing from it that was not let go of.
THEOREM PermaStays == Spec => PermaKeptByTheInformed
<1>1. ASSUME Typed, PermaInv, [Next]_vars
      PROVE  [pass.pc = "rules" /\ pass.informed => rules.perma \ rules'.perma \subseteq gone]_vars
  <2> SUFFICES ASSUME pass.pc = "rules", pass.informed
               PROVE  rules.perma \ rules'.perma \subseteq gone
    OBVIOUS
  <2>1. rules.perma \ pass.want.perma \subseteq gone
    BY <1>1 DEF PermaInv
  <2>2. CASE RulesApplied
    <3>1. pass.want \in Sigs
      BY <1>1 DEF Typed, TypeOK, Passes
    <3>2. rules'.perma = pass.want.perma
      BY <1>1, <2>2, <3>1, RulesFacts, RulesType
    <3> QED
      BY <2>1, <3>2
  <2>3. CASE ~RulesApplied
    <3>1. ~PermaRulesApplied
      BY DEF PermaRulesApplied
    <3>2. UNCHANGED rules
      BY <1>1, <2>3, <3>1, PassSteps, DaemonSteps, MailFacts, ListsFacts, MenuDoneFacts, StopFacts
         DEF Next, vars, chrome
    <3> QED
      BY <3>2
  <2> QED
    BY <2>2, <2>3
<1>2. IInv => Typed
  BY DEF IInv
<1>3. Spec => []PermaInv
  BY <1>2, PermaInit, PermaStep, Invariant, PTL DEF Spec
<1> QED
  BY <1>1, <1>2, <1>3, Invariant, PTL DEF Spec, PermaKeptByTheInformed

=============================================================================
