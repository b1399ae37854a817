--------------------------- MODULE ExtensionSync ----------------------------
(***************************************************************************)
(* The background worker of the Chrome extension.  The daemon decides what *)
(* is blocked; the worker asks for the status, for the permanent list when *)
(* the revision has changed and for the domains of the session, and        *)
(* replaces Chrome's rules when the signature of what they should say      *)
(* differs from the one it remembers.  One pass of this runs at a time;    *)
(* every answer may come after the daemon has moved on, Chrome may refuse  *)
(* the rules, and the worker is stopped and started again with what it     *)
(* saved.  Rules outlive the worker and the browser, its memory does not.  *)
(***************************************************************************)
EXTENDS Integers, FiniteSets

CONSTANTS
  Domains,
  Plans,                     \* what the daemon may ask for: a key and the domains that go with it
  Beginnings,                \* the plan and the permanent list when the extension is installed
  RuleLimit,                 \* getDynamicRuleLimit
  MaxEvents                  \* bound: of changes, failed calls and stops together

Keys == {"idle", "break", "blacklist", "sleep-blacklist", "whitelist", "sleep-whitelist",
         "rescue", "ban"}
Open == {"idle", "break"}                      \* nothing but the permanent list is blocked
Closed == {"rescue", "ban"}                    \* nothing is allowed, no domains are fetched
Listed == {"blacklist", "sleep-blacklist"}
WebOnly == {"sleep-blacklist", "sleep-whitelist"}

ASSUME ConstantsAssumption ==
  /\ IsFiniteSet(Domains)
  /\ \A p \in Plans : /\ p.key \in Keys /\ p.domains \subseteq Domains
                      /\ p.key = "idle" => p.domains = {}
  /\ \A b \in Beginnings : b.plan \in Plans /\ b.perma \subseteq Domains
  /\ RuleLimit \in Nat
  /\ MaxEvents \in Nat

VARIABLES
  daemon,                    \* its plan, permanent list and state revision
  gone,                      \* domains that were taken off the permanent list (history)
  restarted,                 \* the daemon was (history)
  overtaken,                 \* the signature is of a list that its rules missed (history)
  rules,                     \* in force in Chrome
  mem, stored,               \* the worker's variables; chrome.storage.session
  pass,                      \* the synchronisation that runs, if any
  queued,                    \* syncQueued
  mail,                      \* a status under way that nobody in a pass has asked for
  menu,                      \* the domain the context menu has posted, until it is told so
  events

chrome == <<rules, stored, overtaken>>
worker == <<mem, pass, queued, mail, menu>>
vars == <<daemon, gone, restarted, chrome, worker, events>>

None == "none"
NoRev == -1

-----------------------------------------------------------------------------
(* Rules and signatures *)

\* buildRulesSignature
Sig(key, ds, perma) == [key |-> key, domains |-> ds, perma |-> perma]
NoSig == Sig(None, {}, {})

\* generateBlockRules, generateWhitelistRules: what a set of rules does.  Of a blacklist,
\* domains that are blocked for ever get one pair of rules only, the permanent one.
Rules(sig) ==
  [base |-> IF sig.key \in Open \cup Listed THEN "listed" ELSE "allbut",
   web |-> sig.key \in WebOnly,
   domains |-> IF sig.key \in Listed THEN sig.domains \ sig.perma ELSE sig.domains,
   perma |-> sig.perma]

NoRules == Rules(Sig("idle", {}, {}))

\* Two rules a domain; four for everything else and for localhost, one for what is allowed.
RuleCount(r) ==
  2 * Cardinality(r.perma) + (IF r.base = "listed" THEN 2 * Cardinality(r.domains)
                                                   ELSE 4 + Cardinality(r.domains))

\* assertDynamicRuleCapacity
Fits(sig) == RuleCount(Rules(sig)) <= RuleLimit

\* What rules block of the web: a page at domain d.
Blocks(r, d) == d \in r.perma \/ (IF r.base = "listed" THEN d \in r.domains ELSE d \notin r.domains)

\* shouldBlockUrl, isHostnameBlocked, isHostnamePermaBlocked, for a page of the web: the
\* fallback for navigations that meet no rule.
ShouldBlock(m, d) ==
  \/ d \in m.perma
  \/ m.mode = "blacklist" /\ d \in m.listed
  \/ m.mode \in {"whitelist", "ban"} /\ d \notin m.listed

-----------------------------------------------------------------------------
(* The worker's variables.  known: cachedPermaData and cachedSettings.  hash stands for      *)
(* lastPermaHash, the one that is not saved.                                                 *)

NoMemory == [active |-> FALSE, key |-> None, sig |-> NoSig, listed |-> {}, mode |-> None,
             web |-> FALSE, perma |-> {}, hash |-> {}, known |-> {}, rev |-> NoRev]

\* saveState and loadState
Saved(m) == [m EXCEPT !.hash = {}]

\* currentBlockMode
Mode(key) == IF key \in Listed THEN "blacklist" ELSE IF key = "ban" THEN "ban" ELSE "whitelist"

\* Mutant: the fallback takes the key for its mode.
CommittedByKey(m, sig) ==
  [m EXCEPT !.active = sig.key \notin Open, !.key = sig.key, !.sig = sig,
            !.listed = sig.domains, !.web = sig.key \in WebOnly, !.mode = sig.key]

\* Mutant: the fallback's state outlives a session.
CommittedKeeping(m, sig) ==
  IF sig.key \in Open
  THEN [m EXCEPT !.active = FALSE, !.key = None, !.sig = sig]
  ELSE [m EXCEPT !.active = TRUE, !.key = sig.key, !.sig = sig, !.listed = sig.domains,
                 !.web = sig.key \in WebOnly,
                 !.mode = Mode(sig.key)]

\* lastActive, lastMode, lastRulesSignature and the fallback's state, once rules are in force.
Committed(m, sig) ==
  IF sig.key \in Open
  THEN [m EXCEPT !.active = FALSE, !.key = None, !.sig = sig, !.listed = {}, !.mode = None,
                 !.web = FALSE]
  ELSE [m EXCEPT !.active = TRUE, !.key = sig.key, !.sig = sig, !.listed = sig.domains,
                 !.web = sig.key \in WebOnly,
                 !.mode = Mode(sig.key)]

\* Mutant: rules are replaced when the mode changes, whatever the domains.
NeedsUpdateByMode(m, sig) ==
  IF sig.key \in Open THEN m.active ELSE ~m.active \/ m.key # sig.key

NeedsUpdate(m, sig) ==
  \/ m.sig # sig
  \/ IF sig.key \in Open THEN m.active ELSE ~m.active \/ m.key # sig.key

NoPass == [pc |-> "rest", key |-> None, rev |-> NoRev, config |-> FALSE, want |-> NoSig,
           informed |-> FALSE]
Asleep == [NoPass EXCEPT !.pc = "asleep"]
Asking == [NoPass EXCEPT !.pc = "status"]

Awake == pass.pc # "asleep"

Status == [key |-> daemon.plan.key, rev |-> daemon.rev]

Sigs == [key : Keys \cup {None}, domains : SUBSET Domains, perma : SUBSET Domains]

RuleSets == [base : {"listed", "allbut"}, web : BOOLEAN, domains : SUBSET Domains,
             perma : SUBSET Domains]

Memories == [active : BOOLEAN, key : Keys \cup {None}, sig : Sigs, listed : SUBSET Domains,
             mode : {None, "blacklist", "whitelist", "ban"}, web : BOOLEAN,
             perma : SUBSET Domains, hash : SUBSET Domains,
             known : SUBSET {"perma", "settings"}, rev : Nat \cup {NoRev}]

Passes == [pc : {"asleep", "rest", "status", "lists", "permarules", "domains", "rules"},
           key : Keys \cup {None}, rev : Nat \cup {NoRev}, config : BOOLEAN, want : Sigs,
           informed : BOOLEAN]

\* What the module's variables range over.
TypeOK ==
  /\ daemon \in [plan : Plans, perma : SUBSET Domains, rev : Nat]
  /\ gone \subseteq Domains /\ restarted \in BOOLEAN /\ overtaken \in BOOLEAN
  /\ rules \in RuleSets
  /\ mem \in Memories /\ stored \in Memories
  /\ pass \in Passes
  /\ queued \in BOOLEAN
  /\ mail \in [via : {None, "stream", "navigation"}, key : Keys \cup {None},
               rev : Nat \cup {NoRev}]
  /\ menu \in Domains \cup {None}
  /\ events \in Nat

NoMail == [via |-> None, key |-> None, rev |-> NoRev]

Init ==
  /\ daemon \in {[plan |-> b.plan, perma |-> b.perma, rev |-> 0] : b \in Beginnings}
  /\ gone = {} /\ restarted = FALSE /\ overtaken = FALSE
  /\ rules = NoRules
  /\ mem = NoMemory /\ stored = NoMemory
  /\ pass = Asleep /\ queued = FALSE
  /\ mail = NoMail /\ menu = None
  /\ events = 0

-----------------------------------------------------------------------------
(* The daemon *)

Event == events < MaxEvents /\ events' = events + 1

Changed(d) ==
  /\ Event
  /\ daemon' = [d EXCEPT !.rev = daemon.rev + 1]
  /\ UNCHANGED <<restarted, chrome>>

\* A session starts, ends, changes its domains or takes a break.
ChangePlan ==
  /\ \E p \in Plans \ {daemon.plan} : Changed([daemon EXCEPT !.plan = p])
  /\ UNCHANGED <<gone, worker>>

\* A domain is blocked for ever, on any surface but the extension's menu.
Block ==
  /\ \E d \in Domains \ daemon.perma : Changed([daemon EXCEPT !.perma = @ \cup {d}])
  /\ UNCHANGED <<gone, worker>>

\* A domain is let go of, half an hour after that was asked for: a worker that is awake has
\* seen the list with the domain on it.
Unblock ==
  /\ \E d \in daemon.perma :
       /\ Awake => d \in mem.hash /\ d # menu
       /\ Changed([daemon EXCEPT !.perma = @ \ {d}])
       /\ gone' = gone \cup {d}
  /\ UNCHANGED worker

\* The revision is not kept, it starts again from zero.
RestartDaemon ==
  /\ Event
  /\ restarted' = TRUE
  /\ daemon' = [daemon EXCEPT !.rev = 0]
  /\ UNCHANGED <<gone, chrome, worker>>

-----------------------------------------------------------------------------
(* A pass of syncBlockRules *)

\* A pass ends, and makes up for one that was refused meanwhile.
Finish == pass' = (IF queued THEN Asking ELSE NoPass) /\ queued' = FALSE

\* Every request for a pass: alarms, messages, menus, pages that connect.
Request ==
  IF pass.pc = "rest" THEN pass' = Asking /\ UNCHANGED queued
                      ELSE queued' = TRUE /\ UNCHANGED pass

\* Mutant: the rules of a session are made without the permanent list.
ReplaceBare(m, sig) ==
  [NoPass EXCEPT !.pc = "rules", !.want = [sig EXCEPT !.perma = {}],
                 !.informed = "perma" \in m.known]

\* Rules are on their way to Chrome; informed is history: the permanent list was known.
Replace(m, sig) ==
  [NoPass EXCEPT !.pc = "rules", !.want = sig, !.informed = "perma" \in m.known]

\* What a pass does about a status, with the lists that m knows.
Decide(m, key) ==
  LET sig == Sig(key, {}, m.perma)
  IN IF key \notin Open \cup Closed
     THEN pass' = [NoPass EXCEPT !.pc = "domains", !.key = key] /\ UNCHANGED queued
     ELSE IF NeedsUpdate(m, sig)
     THEN pass' = Replace(m, sig) /\ UNCHANGED queued
     ELSE Finish

Use(key, rev) ==
  IF mem.known # {"perma", "settings"} \/ rev # mem.rev
  THEN pass' = [NoPass EXCEPT !.pc = "lists", !.key = key, !.rev = rev] /\ UNCHANGED queued
  ELSE Decide(mem, key)

Ask ==
  /\ Awake
  /\ Request
  /\ UNCHANGED <<daemon, gone, restarted, chrome, mem, mail, menu, events>>

\* The stream sends a status; it takes its time.
Announce ==
  /\ Awake /\ mail = NoMail
  /\ mail' = [via |-> "stream", key |-> Status.key, rev |-> Status.rev]
  /\ UNCHANGED <<daemon, gone, restarted, chrome, mem, pass, queued, menu, events>>

\* onBeforeNavigate, onErrorOccurred: before a page is redirected the status is asked for.
Navigate ==
  /\ Awake /\ mail = NoMail
  /\ \E d \in Domains : ShouldBlock(mem, d)
  /\ mail' = [via |-> "navigation", key |-> Status.key, rev |-> Status.rev]
  /\ UNCHANGED <<daemon, gone, restarted, chrome, mem, pass, queued, menu, events>>

\* Such a status starts a pass of its own.  When one runs it is dropped, and the next pass
\* asks again.  A navigation only lets go of blocks.
Deliver ==
  /\ mail # NoMail
  /\ mail' = NoMail
  /\ IF mail.via = "navigation" /\ (mail.key # "idle" \/ mem.perma # {})
     THEN UNCHANGED <<pass, queued>>
     ELSE IF pass.pc = "rest" THEN Use(mail.key, mail.rev)
     ELSE queued' = TRUE /\ UNCHANGED pass
  /\ UNCHANGED <<daemon, gone, restarted, chrome, mem, menu, events>>

StatusAnswered ==
  /\ pass.pc = "status"
  /\ Use(Status.key, Status.rev)
  /\ UNCHANGED <<daemon, gone, restarted, chrome, mem, mail, menu, events>>

\* The rules are kept when the daemon does not answer.
Unreachable ==
  /\ pass.pc \in {"status", "domains"}
  /\ Event
  /\ Finish
  /\ UNCHANGED <<daemon, gone, restarted, chrome, mem, mail, menu>>

\* syncPermaBlocklist and syncSettings: the answer to the first, and what it changes.
NewList(m) == daemon.perma # m.hash

Learnt(m, got) ==
  LET n == [m EXCEPT !.known = @ \cup got]
  IN IF "perma" \in got /\ NewList(m) THEN [n EXCEPT !.hash = daemon.perma, !.perma = daemon.perma]
                                      ELSE n

ListsAnswered ==
  \E got \in SUBSET {"perma", "settings"} :
    LET all == got = {"perma", "settings"}
        apply == "perma" \in got /\ NewList(mem) /\ ~mem.active
        m == [Learnt(mem, got) EXCEPT !.rev = IF all /\ ~apply THEN pass.rev ELSE @]
    IN /\ pass.pc = "lists"
       /\ IF all THEN UNCHANGED events ELSE Event
       /\ mem' = m
       /\ stored' = IF got = {} THEN stored ELSE Saved(m)
       /\ IF apply
          THEN /\ pass' = [pass EXCEPT !.pc = "permarules", !.config = all,
                                       !.want = Sig("idle", {}, m.perma)]
               /\ UNCHANGED queued
          ELSE Decide(m, pass.key)
       /\ UNCHANGED <<daemon, gone, restarted, rules, overtaken, mail, menu>>

\* Chrome has taken rules for the permanent list alone: the signature is that of the list the
\* worker has by now.
Listing(m) == [m EXCEPT !.sig = Sig("idle", {}, m.perma)]

PermaRulesApplied ==
  LET m == [Listing(mem) EXCEPT !.rev = IF pass.config THEN pass.rev ELSE @]
  IN /\ pass.pc = "permarules" /\ Fits(pass.want)
     /\ rules' = Rules(pass.want)
     /\ overtaken' = (pass.want # m.sig)
     /\ mem' = m /\ stored' = Saved(m)
     /\ Decide(m, pass.key)
     /\ UNCHANGED <<daemon, gone, restarted, mail, menu, events>>

\* Chrome may refuse any rules, and too many are never put to it.
Refused(sig) == IF Fits(sig) THEN Event ELSE UNCHANGED events

PermaRulesRefused ==
  /\ pass.pc = "permarules"
  /\ Refused(pass.want)
  /\ Decide(mem, pass.key)
  /\ UNCHANGED <<daemon, gone, restarted, chrome, mem, mail, menu>>

\* fetchSessionDomains: those of the session that runs by now.
DomainsAnswered ==
  LET sig == Sig(pass.key, daemon.plan.domains, mem.perma)
  IN /\ pass.pc = "domains"
     /\ IF NeedsUpdate(mem, sig)
        THEN pass' = Replace(mem, sig) /\ UNCHANGED queued
        ELSE Finish
     /\ UNCHANGED <<daemon, gone, restarted, chrome, mem, mail, menu, events>>

\* applyBlockRules, applyWhitelistRules, the open branches: nothing is remembered before
\* Chrome has taken the rules.
RulesApplied ==
  /\ pass.pc = "rules" /\ Fits(pass.want)
  /\ rules' = Rules(pass.want)
  /\ overtaken' = FALSE
  /\ mem' = Committed(mem, pass.want)
  /\ stored' = Saved(Committed(mem, pass.want))
  /\ Finish
  /\ UNCHANGED <<daemon, gone, restarted, mail, menu, events>>

\* Mutant: rules that Chrome refuses are remembered all the same.
RulesRefusedRemembered ==
  /\ pass.pc = "rules"
  /\ Refused(pass.want)
  /\ mem' = Committed(mem, pass.want)
  /\ Finish
  /\ UNCHANGED <<daemon, gone, restarted, chrome, mail, menu>>

RulesRefused ==
  /\ pass.pc = "rules"
  /\ Refused(pass.want)
  /\ Finish
  /\ UNCHANGED <<daemon, gone, restarted, chrome, mem, mail, menu>>

-----------------------------------------------------------------------------
(* Outside of a pass *)

\* contextMenus.onClicked: the domain is posted, and the answer adds it to what the worker
\* knows.  One that is on the list already is added all the same.
MenuPost ==
  /\ Awake /\ menu = None
  /\ \E d \in Domains :
       /\ menu' = d
       /\ IF d \in daemon.perma THEN UNCHANGED <<daemon, restarted, chrome, events>>
                                ELSE Changed([daemon EXCEPT !.perma = @ \cup {d}])
  /\ UNCHANGED <<gone, mem, pass, queued, mail>>

MenuDone ==
  /\ menu # None
  /\ menu' = None
  /\ mem' = [mem EXCEPT !.perma = @ \cup {menu}]
  /\ Request
  /\ UNCHANGED <<daemon, gone, restarted, chrome, mail, events>>

-----------------------------------------------------------------------------
(* The worker and the browser *)

\* mem is what the worker will load when it starts again.
Stopped(m) ==
  /\ Event
  /\ mem' = m /\ stored' = m
  /\ pass' = Asleep /\ queued' = FALSE /\ mail' = NoMail /\ menu' = None
  /\ UNCHANGED <<daemon, gone, restarted, rules, overtaken>>

\* The worker is stopped when it waits for the network or for nothing; not, for idleness,
\* between a call to updateDynamicRules and the saveState that follows it.
Suspend ==
  /\ pass.pc \in {"rest", "status", "lists", "domains"}
  /\ Stopped(stored)

\* The session's storage goes with the browser, the rules stay.
CloseBrowser == Stopped(NoMemory)

\* Whatever wakes the worker, it synchronises first; an alarm does so within a minute.
Wake ==
  /\ pass = Asleep
  /\ pass' = Asking
  /\ UNCHANGED <<daemon, gone, restarted, chrome, mem, queued, mail, menu, events>>

-----------------------------------------------------------------------------
Answers ==
  \/ StatusAnswered \/ ListsAnswered \/ PermaRulesApplied \/ PermaRulesRefused
  \/ DomainsAnswered \/ RulesApplied \/ RulesRefused

Next ==
  \/ ChangePlan \/ Block \/ Unblock \/ RestartDaemon
  \/ Ask \/ Announce \/ Navigate \/ Deliver
  \/ StatusAnswered \/ Unreachable \/ ListsAnswered \/ PermaRulesApplied \/ PermaRulesRefused
  \/ DomainsAnswered \/ RulesApplied \/ RulesRefused
  \/ MenuPost \/ MenuDone
  \/ Suspend \/ CloseBrowser \/ Wake

\* Calls are answered or time out, the alarm of every minute asks for a pass and wakes the
\* worker, and what has arrived is handled.
Spec ==
  /\ Init /\ [][Next]_vars
  /\ WF_vars(Answers) /\ WF_vars(Wake) /\ WF_vars(Deliver) /\ WF_vars(MenuDone)
  /\ WF_vars(pass.pc = "rest" /\ Ask)

-----------------------------------------------------------------------------
(* Properties *)

\* What Chrome should enforce for the daemon's plan, with the permanent list perma.
Wanted(perma) ==
  Sig(daemon.plan.key,
      IF daemon.plan.key \in Open \cup Closed THEN {} ELSE daemon.plan.domains, perma)

\* The signature the worker goes by says what Chrome enforces: a pass never finds nothing to
\* do because of rules that are not there (the comparisons of syncBlockRules, and
\* saveState, which only follows rules that Chrome has taken).
RecordTrue == mem.sig # NoSig /\ ~overtaken => rules = Rules(mem.sig)

\* The two layers agree: a navigation that meets no rule and is checked by shouldBlockUrl is
\* judged as the rules would judge it, whatever pass was the last to change either.
FallbackAgrees ==
  pass.pc = "rest" /\ mem.sig # NoSig /\ mem.sig.perma = mem.perma /\ ~overtaken =>
    mem.web = rules.web /\ \A d \in Domains : Blocks(rules, d) <=> ShouldBlock(mem, d)

\* What background.js says of every session's end and of breaks, "keep permanent blocks": a
\* domain that is blocked for ever leaves Chrome's rules only after it was let go of.
PermaKept == [][rules.perma \ rules'.perma \subseteq gone]_vars

\* It does so as long as the worker knew the permanent list when it made the rules, however
\* old they are when Chrome takes them.
PermaKeptByTheInformed ==
  [][pass.pc = "rules" /\ pass.informed => rules.perma \ rules'.perma \subseteq gone]_vars

\* Whatever was lost, refused or stopped: once the daemon's plan stands, Chrome enforces it.
\* The code does not get there when there are too many rules; when the last domain was let go
\* of while the worker was stopped; when the daemon was restarted and has counted up to the
\* revision the worker last saw; and when the menu's answer overtakes rules that are then
\* refused.
Settles ==
  <>[](\/ rules = Rules(Wanted(daemon.perma))
       \/ ~Fits(Wanted(daemon.perma))
       \/ daemon.perma = {} /\ rules = Rules(Wanted(rules.perma))
       \/ restarted /\ mem.rev = daemon.rev /\ mem.perma # daemon.perma
       \/ overtaken)
=============================================================================
