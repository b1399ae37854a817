# ForcedFocus in TLA+

ForcedFocus blocks web sites for the length of a focus session and is built to
be hard to talk out of it: a root daemon (`daemon/`) owns the state and enforces
it through `/etc/hosts`, DNS, the packet filter and browser policies; a Chrome
extension, a web dashboard, a menu bar application and a command line client
talk to it.  This directory models the daemon's own logic, the background worker
of the extension and the two web pages that follow the daemon, checks them with
TLC and proves what it can with TLAPS.  Paths below are those of the repository.

## 1. The system

| component | state it keeps | operations | what is hard about it |
|---|---|---|---|
| session (`session/core.py`, `state.py`) | the active session, its deadlines by two clocks, an unlock request | start, merge, request and cancel an unlock, expire | every answer must be on disk before it is given; two clocks; prayers freeze it |
| pomodoro (`session/pomodoro.py`) | phase, next phase, round | phase changes | three phases with timers of their own, one of them not persisted |
| watchdog (`watchdog.py`) | counters | one tick every 250 ms, two critical sections | the order of its checks; what happens between the sections |
| prayer (`prayer.py`, `watchdog.py`) | the window that is open, the captured remainders, a calendar cache | suspend, resume, refresh the calendar | races with every other timer; a background worker |
| permanent blocklist (`domains.py`) | list, pending unblock requests, the file's mtime | add, request, cancel, mature, reload | delays across failures and restarts; a file others may edit |
| enforcement (`enforcement/*.py`) | hashes, stats, saved DNS servers | write the hosts file, DNS, firewall, policies; undo them | threads that work while the decision they carry out is withdrawn |
| schedules and rules (`schedules.py`) | one-offs, recurring rules | add, edit, pause, skip, remove, cancel | overlaps across midnight; the last twenty minutes |
| sleep schedule (`sleep_schedule.py`) | schedule, stopped occurrences, a queued edit | save, queue, promote, start, suppress | a second file that must agree with the first across crashes |
| daemon (`forcefocus_daemon.py`) | the lock file | start-up, restore, persist | crash at any moment, validation at a restart |
| state store, migrations (`state_store.py`, `migrations.py`) | JSON files, manifest, backups | atomic write, validate, migrate, roll back | crash in the middle of a migration |
| settings, lists, groups, history, notifications, event bus | files, a revision number | read, modify, write, broadcast | unlocked read-modify-write, lost revisions |
| proxies (`dns_proxy.py`, `sni_proxy.py`) | sockets, an event loop | start, stop, relay | start and stop from several threads |
| API (`command_service.py`, `api_socket.py`, `api_http.py`) | sessions of clients | dispatch | concurrency of handlers, all but a few under the daemon's lock |
| Chrome extension (`chrome-extension/background.js`) | Chrome's rules, what they are taken to say, the fallback for navigations | passes that ask and replace rules, alarms, context menu | passes overlap with events, Chrome refuses rules, the worker is stopped at will |
| dashboard (`web/js/app.js`, `web/shared/intent-tasks.js`) | the session shown, handlers under way, whether it is on line | start, stop, tick, follow the stream | statuses on two ways, requests that are shared, answers that are lost |
| settings page (`web/js/settings.js`) | two forms, their edits, the revision seen | load, edit, save | loads and messages that meet edits and each other |
| client (`web/shared/api.js`) | requests under way | ask, share, time out | who asks may get an older answer |
| popup, blocked page, menu bar page, native application, CLI, installer | display state | display, forward commands | nothing that the pages above do not have |

Components meet in five ways.  *Calls under one lock*: commands and the two
halves of a watchdog tick hold `daemon.lock`, so each is one action here.
*The event bus* (`events.py`) is synchronous: `SESSION_STARTED` and
`SESSION_ENDED` run the enforcement handlers inside the caller.  *Threads*:
enforcement of a mode is left to new threads that hold `enforcement_lock`, not
the daemon's.  *Requests and streams*: the extension and the pages ask over HTTP
and listen to `/api/stream`, which sends the status and the state revision every
few seconds and after every change; nothing orders an answer and a message.
*Files*: `session.lock`, `sleep_schedule.json` and
`perma_blocklist.json` carry state across restarts; `/etc/hosts` is shared with
everybody.

What makes the components correct: a commitment can only be made longer, and
ends only when its time has been served, an unlock has waited out its delay or
the last round is over; what was answered is what a restart brings back; while
the user is to be focused sites are blocked, and afterwards nothing is left
behind; a permanent block goes only after its delay; what was scheduled takes
place, without overlaps, and cannot be withdrawn at the last moment; Chrome comes
to enforce what the daemon asks for, and never less for ever than was promised;
a page comes to show the daemon's state, and takes no edit from its user.
`PROJECT.json` lists the hazards with their lines.

## 2. Modules

| module | models | checked by |
|---|---|---|
| `Commitment` | abstract promise about a session: no clocks, files, crashes | refined by `FocusSession` |
| `FocusSession` | sessions, pomodoros, prayers, unlocks, `session.lock`, crash, restart | `MCFocusSession` |
| `FocusSession_proofs` | its invariants for all constants | TLAPS |
| `FocusPromise_proofs` | that it implements `Commitment`, for all constants | TLAPS |
| `PermaPromise` | abstract promise about the permanent blocklist | refined by `PermaBlock` |
| `PermaBlock` | permanent blocklist, its file, watchdog, crash, restart with validation | `MCPermaBlock` |
| `PermaBlock_proofs` | its invariants and the refinement, for all constants | TLAPS |
| `Enforcement` | hosts file, firewall, DNS, policies; threads against the watchdog | `MCEnforcement` |
| `Enforcement_proofs` | all its invariants for all constants | TLAPS |
| `Scheduler` | one-offs, rules, sleep schedule, what the watchdog starts, two files | `MCScheduler` |
| `Scheduler_proofs` | all its safety properties for all constants | TLAPS |
| `ExtensionSync` | the extension's worker against daemon, Chrome and its own end | `MCExtensionSync` |
| `ExtensionSync_proofs` | its types and three of its properties, for all constants | TLAPS |
| `SettingsPage` | the settings page: two forms, revisions, loads and saves | `MCSettingsPage` |
| `SettingsPage_proofs` | all its properties, for all constants | TLAPS |
| `SessionView` | the dashboard's view of a session | `MCSessionView` |
| `SessionView_proofs` | its types and recaps, for all constants | TLAPS |

The first modules are parts of one daemon cut where the coupling is thin.
`FocusSession` reduces what a session blocks to the flag `blocked`, which
`Enforcement` takes apart; `Scheduler` reduces a session to its kind, end and
unlock request, which `FocusSession` takes apart.  The last three are clients:
each has as much of a daemon as it can tell apart, which others change at will,
and a network that delays, loses and repeats.

### FocusSession

`mem` holds the fields of `SessionState`, `PomodoroState` and the daemon that
matter to time (`expiry`/`end` are `session_expiry`/`_mono_session_end`, and so
on), `lock` the fields of `session.lock`.  Each command (`Start`, `Merge`,
`RequestStop`, `CancelStop`, `StatusPoll`) and each branch of a watchdog tick
(`PrayerStarts`, `PrayerEnds`, `SessionEnds`, `PhaseEnds`, `TamperCheck`) is an
action; `Crash` and `Boot` (`RestartIdle`, `RestartExpired`, `Restart`) are the
daemon going down and `_restore_session`.  Writes either answer for their
failure (`Commit`, with the roll-back; the file may have been replaced when only
the sync of the directory failed) or ignore it (`Save`).

Left out: groups and the sites of a session (a merge with groups is told apart,
since it enforces again), passphrases, history, steps of the wall clock, SIGHUP,
the periodic save in the tick that ends a session, deletion of the lock file
while the daemon is down, a direct change from one prayer window to another.
The leftover length of a phase `none` is taken as 0.  Sleep sessions are in
`Scheduler`.

### PermaBlock

`list` and `until` are `perma_blocklist` and `perma_pending_unlocks`, `file` is
`perma_blocklist.json`, `watched` and `stale` stand for the cached mtime.
`Commit` rolls back what a failed write promised, `Mature` is the watchdog's
removal, `Boot` validates the file first, as `StateStore` does.

### Enforcement

`session`, `break`, `prayer`, `perma` are the daemon's decisions; `hosts` has a
section for the session and one for the permanent list.  `waiting` counts the
threads that wait for the enforcement lock; `worker` is the one that has it: how
far it has come, what file it has read and which rules it has made.
`_remove_block` runs without that lock, so it is three actions.  `overtaken`
remembers that a thread was still at work when focus ended or a prayer began.

Writing the file fails (`Fails`) before anything happens or when `write_text` has
already emptied it.  Another program empties the file at any time: while a thread
works, between the reading and the writing of `_remove_block` (`Tamper`), or
between a write of the daemon's thread and its stat (`Writes`).  `hostsStat` says
of which file the remembered stat of the session's section is: an older one, the
one that was written, or what had become of it by the time of the stat, which the
watchdog then takes for its own; `fooled` says the last of the permanent section.

Left out: the immutable flag, the SNI proxy, empty blacklists, sleep sessions,
crashes, the tables of resolved addresses, the order of the sections in the
file, steps after the write that fail (each of the programs that are called, on
its own), and other changes by another program than emptying the file.

### Scheduler

`plans`, `rules` and `session` live in `session.lock` (`lock`), the sleep
schedule in `sleepFile`.  A tick is `Watch` (pick what is due, under the lock)
and `StartPicked` (start it, under the lock again), with any command in
between; a tick that picks nothing may `Expire` the session.  Time passes only
when the watchdog has nothing to do or is down.  A day has `Day` units, a date
is a number and a weekday its remainder by seven.

Left out: templates, duplicates (created paused), the cap of 31 stopped
occurrences, the order of rules in their list (several due at once are picked in
any order), the ten seconds between looks at the rules, commands whose only
effect is an error, identities of rules across restarts, texts of results.  What
is skipped is the next run, as the dashboard asks for it.  `raced`, `promoted` and
`masked` are history; they name the cases in which the code does not keep what the
properties say.

### ExtensionSync

`daemon` is what the daemon asks for (a plan: a key and domains; the permanent
list; the revision), `rules` what Chrome enforces, `mem` the worker's variables,
`stored` what `saveState` put into `chrome.storage.session`, `pass` how far the
synchronisation that runs has come and what it means to do.  A pass is a chain
of actions, one for each `await` of `syncBlockRules` and of the functions it
calls, so everything else may happen between any two; `queued` is `syncQueued`.
A worker may be stopped while it waits for the daemon or for nothing
(`Suspend`), and the browser may be closed at any of them (`CloseBrowser`).  It is
not stopped between `updateDynamicRules` (`background.js:411`) and the `saveState`
that follows (847, 872, 894), since Chrome stops workers that are idle; after such
a kill the signature on disk would describe rules that are gone.

Left out: the period of the alarm and its slowing down, badges, notifications and
analytics, the cap of 5000 domains, subdomains, failures of storage, and the
fetch of the permanent list that `getBlockState` makes outside the guard.  A call
to Chrome takes effect at once; answers are read when they arrive; a worker that
wakes has loaded its state before the first answer.  Domains leave the permanent
list only when nobody in the extension has yet to hear of their addition: the
thirty minutes of an unblock request are long against the alarm.

### SettingsPage

`doc` are versions of the two documents, `rev` the state revision, `unannounced`
the changes that are made and not yet counted, `last` is `_lastRevision`.  `form`
has for both forms the version shown, the state of the edits and the flags of
the code; `get`, `saves`, `sleepSave` are requests; `off` and `mark` the disabled
controls and `dataset.settingsDisabled`.  `missed`, `early`, `troubled` and
`restarted` are history: they name the cases in which the code does not keep what
the properties say.

Left out: the third document that `fetchData` loads with the first two goes with
them as one, edits before `init` has attached its listeners, a reload of the
page, the lock of the prayer switch, groups, validation.  One message of the
stream is under way at a time; counting the revision is atomic.

### SessionView

`session` is a number, 0 for none, so that one session can be told from the next;
`view`, `active`, `job`, `controls`, `frozen` are the page's.  `get` is the one
request for the status that everything on the page shares, `refreshes` how many
times `refreshStatus` waits for it.  The handlers of a start and a stop go
through `sent`, `accepted`, `asking`, `pausing`; `post` are ticks under way.
`Render` is `setActiveUI`.  `recapped`, `seen` and `overtaken` are history.

Left out: the rescue button (a start without the flag that hides statuses), the
withdrawal of a stop, schedules and the sleep card, the display of the countdown,
the text of the intent, the lists that a newer revision reloads.  Whether a
session is of the mode and type a start asked for is left open.  A prayer window
shows as a session of its own.

## 3. Runs

| run | instance | shows |
|---|---|---|
| `session_standard` | lengths up to 3, time to 9, a prayer, two crashes, a failed write, a watchdog that may be late | clocks agree, prayers freeze, nothing durable is lost, focus is blocked, the promise is kept |
| `session_restart` | standard and pomodoro of two rounds, time to 22, two crashes, a prayer, a failed write | the same through rounds, and that every session ends |
| `perma` | two domains, delay 2, two crashes, two failed writes, edits by others | requests, durability, the watched file, the delay, no endless wait |
| `enforcement` | both modes, one domain, two threads, two faults (510 052 states) | no lost permanent entries, clean idle machine, ban holds, focus and permanent blocks arrive |
| `schedules` | a day of four units, a rule after midnight, a night across it, a one-off, one crash or failed write | no double booking, stopped sleep stays stopped, restorable, locked in, edits apply |
| `extension` | two domains, plans of all kinds, room for 8 rules, 3 events (452 240 states) | the signature and the fallback describe Chrome's rules, permanent blocks stay, passes settle on what the daemon asks for |
| `settings_page` | two saves at a time, 3 events (3.3 million states) | a form at rest is current, edits survive |
| `session_view` | one task, two polls, 4 events (580 918 states) | recaps are true, the page comes to show the daemon's session and no handler hangs |

Each property has a mutant in `PROJECT.json`: a definition changed as a
plausible bug would change it, under which TLC finds the property violated.

The bounds are enough for the cases the properties are about: sessions long
enough to be merged, suspended, unlocked and crashed before they end; two
rounds, so that there is a break that is not the last; two crashes, so that
what a restart wrote is restored once more; a failed write at every place; two
threads, so that one waits for the other; two faults, so that what failed is
followed by another failure before it is made up for; two nights and runs on both sides of
midnight.  In `schedules` crashes and failed writes share one bound, and one-offs
are at most two units ahead; in `session_standard` the watchdog may be arbitrarily late
(`Prompt = FALSE`), in the others it runs between any two units of time.  In the
clients one bound is shared by changes of the daemon, clicks, failures and ends
of workers: three events let a change and a failure fall into one pass, or two
saves and a failure overlap; four let a session end, another begin and an answer
be lost in between.  The five plans are one for each way the worker makes rules;
the blacklist may overlap with the permanent list, and a whitelist with two
permanent domains exceeds the room for rules.  `schedules` has one plan and one
rule at a time, so that what `NoDoubleBooking` says of two plans or of two rules
is met by the proofs alone.  In `session_view` two ticks of one
task may be under way.

Four runs end in a violation, each of something a comment, a message or a
document says of the program (see `findings`):

* `crash_between_phases`: the phase after a two-second pause is not on disk; a
  restart in the pause leaves the pomodoro in no phase.
* `perma_reboot`: with a pending unblock request the daemon refuses to start,
  since the validator expects the older shape of the file.
* `ban_overwritten`: a thread loads rules made before a prayer over its ban.
* `perma_dropped`: a worker that has not yet heard of the permanent list replaces
  Chrome's rules by ones without it, when its request for the list fails.

Fairness: the watchdog loops every 250 ms and launchd restarts the daemon
(`KeepAlive`), hence weak fairness of its steps and of a restart; time passes.
Clients are never obliged to do anything.  In `Enforcement` threads that can run
do, and the daemon's thread gets the enforcement lock in the end when it waits
for it (strong fairness): it starts no new threads meanwhile.  In `Scheduler`
only the steps of the watchdog, expiry and restart are fair.  In `ExtensionSync`
the daemon and Chrome answer, the alarm goes off and wakes the worker, the menu's
handler runs to its end.  In `SessionView` requests are answered or time out
(`fetchWithTimeout`), handlers and timers run, the stream goes on sending and is
opened again; nobody has to click, to show the page or to check the daemon.
`SettingsPage` states safety only.

Deadlock is checked in `settings_page` and `session_view`.  In the others
(`CHECK_DEADLOCK FALSE`) time or the number of events is bounded and every
instance ends.

## 4. Proofs

All for every value of the constants, under the assumptions
`ConstantsAssumption` of each module, which say that lengths and delays are
positive and bounds are numbers.

`FocusSession_proofs`: the inductive invariant `IInv` is a condition on a memory
(`MemOK`: type, the clocks agree, the round is in range, an idle memory is
clean), one on a lock file (`LockOK`: the same for what is on disk) and
`Frozen` (suspended exactly in a prayer).  `DeadlinesAgree` is not inductive by
itself: a restart takes its deadlines from disk, so the lock file must agree as
well, and resuming takes them from the captured remainders.  What each operator
does to a memory is a lemma; each action cites them.  Results: `TypeCorrect`,
`ClocksAgree`, `SuspensionIsPrayer`, and `NothingIsLost` (durability), which
needs `IInv` and the lemma that a snapshot brings back the memory it was made of.
`FocusEnforced` adds `Guarded`, of a memory: a break or no phase at all leads to
nothing that was promised, and the block is up where it is due.  A restart knows
phase and type only from the lock file, where a standard session has to be in
its one phase (`StandardPhase`).

`FocusPromise_proofs`: `PromiseIsKept` shows `Spec => KeepsPromise`.  The pact of
a memory at a time (debt, unlock request, rounds) is what the mapping shows of a
running daemon; a lemma per action says what becomes of it.  A merge needs that
the clocks agree, or a later advertised deadline might be an earlier real one; a
crash is a stutter when the file holds what memory holds (`Durable`) and the
promise's `Upset` otherwise; a restart needs that what is restored owes what the
file says.

`Enforcement_proofs`: `PermaKept` needs `SawTrue` (whoever is about to write back
the file he read has its permanent entries right, as these change only under the
lock and outside of `_remove_block`, as long as the file was never emptied),
`BanHolds` needs that a ban which met no
thread meets none later, and `TypeOK` that a thread about to load rules has them.
`NothingIsLeftBehind` needs, of a machine that was not disturbed, that all threads
at work are of the session there is (`OneSession`), that only a whitelist runs the
proxy, and that what `_remove_block` has undone stays undone until it has
finished (`Orderly`).

`PermaBlock_proofs`: `IInv` joins the safety properties with `Background` (the
memory of a daemon that is down is empty), which a restart needs.  Results:
the four invariants, and `KeepsItsDelay`: the module implements `PermaPromise`
under the mapping in `PermaBlock`, each step a step or a stutter of the promise.

`ExtensionSync_proofs`: the invariant follows a pass: what it has asked for, what
it means to commit, and that between Chrome's answer and the worker's memory
nothing else replaces rules (the guard).  `RecordIsTrue` (the signature describes
the rules), `FallbackIsTrue` (the fallback judges as they do) and `PermaStays`
(rules made by a worker that knew the list keep it) come from it; a stopped
worker needs that what was stored is what memory held when the rules were set.

`SettingsPage_proofs`: five conjuncts.  `EditsKept`: edits that meet a load or a
save are known to be early.  `OneAtATime`: a load of the sleep schedule excludes
its save.  `Locked`: its form is locked during both, as long as nothing forced
the controls.  `InOrder`: what is shown is no newer than what is on its way.
`Told`: what a form has not missed it shows, or a revision is still to come.

`SessionView_proofs`: a recap is of `view.session`, so the invariant `Ordered`
says where a session that is shown, asked for or on its way stands among those
that were started, and that of what is over nothing newer than `seen` says that it
goes on; ends are recapped once since a status that is shown again is older.

`Scheduler_proofs`: `StaysStopped` says that a session of sleep is not one that was
stopped early.  `StopInv` adds where this is known: in memory (what was stopped is
in `sleep.stopped`), in the file as long as no write failed, for what the watchdog
has picked but not started, and for what `session.lock` would bring back; a crash
before any failed write loses nothing, and a failed write before any crash is made
up for by memory.  `LockedIn` needs that plans end after they start (a plan that is
dropped since its end has passed is not one about to start), in memory and in the
lock file, and that a run still to come is among those the guard of a pause looks
at.  `NightsSurvive` (`Restorable`) is about two files: `Told` says that a night
which is on, or picked, is one of the sleep schedule in the other file (`Backed`)
and that a queued edit waits for the end of some night (`Whole`), so that an edit
which takes effect never takes it from under a night that goes on; that nights
of one schedule end in the order of their dates is arithmetic of days
(`NightsAlign`).

`NothingTwice` (`NoDoubleBooking`) rests on what the checks for conflicts do not
look at.  They look at a window of dates, while `Booked` speaks of all dates:
`AllRunsSeen` and `AllNightsSeen` show that what lasts a day at most can only meet
what is on the dates they look at, `WeekAwake` and `WeekApart` that a rule which
skips nothing and meets no night, or no run of another rule, within a week never
does (what meets on two dates meets `7 * k` days later as well).  `BookInv` then
says that memory is `Booked`; that session.lock has, as long as no write failed,
the same plans but for those that are over, and the same rules but for when they
were triggered; and that the files alone are `Booked` while the daemon is down.
Time, lost plans and skips that are cleared once their run has started keep it
(`StillBooked`); each accepting command has a lemma of its own.  `RulesStayApart`
is what it shows of two rules, which no run has.  The attempt to prove it found the
exception `masked` (section 5): until then `NoDoubleBooking` held in the runs
because their rules run on every day of the week.

The runs of TLC have one or two faults, the proofs any number.  The two liveness
properties of `Enforcement` have no proof; with three faults TLC finds them true of
blacklist sessions, and each exception they name is needed: without it TLC finds a
counterexample.

Only model-checked is all liveness (`SessionIsLeft`, `RequestsEnd`,
`FocusGetsBlocked`, `PermaGetsBlocked`, `EditsApply`, `Settles`, `Follows`), which
with fairness and ENABLED is out of the prover's reach.  Every invariant and
every action property of a passing run is proved.  Results of recursive
definitions are out of reach, too; no module here has one.

## 5. Not modelled, and what the code does not keep

Not modelled, since nothing of what is blocked depends on it or since it has no
state that two actors share: packet relays (`dns_proxy.py`, `sni_proxy.py`), HTTP
routing and tokens, history and its statistics, rendering, native windows, the
command line, installers, and `.agents/`, a third-party toolkit for design work
that is vendored with the repository and which no part of the program uses; it
makes up four fifths of the repository's JavaScript.  The popup and the menu bar
page follow a session as the dashboard does, by the same client.

Left for later: the calendar worker (generations, back-off, its cache file),
migrations with their roll-back, the unlocked read-modify-write of settings and
history on the daemon's side, steps of the wall clock in the restore of a
session, and the two seconds between phases against the length of a pomodoro.

Seen while modelling, without a run of its own; the models have these behaviours,
and the properties name them or leave them out:

* a prayer that ends in a break blocks the break (`watchdog.py:194`);
* an extension during a prayer is announced and discarded (`watchdog.py:257`);
* a blacklist session ends with the default DNS servers, not the user's
  (`enforcement/__init__.py:45`);
* a file that changes between the write and the stat of a thread is taken for its
  own (`enforcement/dns.py:173`); if what should write it once more fails, the
  session's section is never written (the exception in `FocusGetsBlocked`).  The
  same window of the permanent section (`enforcement/dns.py:74`) needs no further
  failure (the first exception in `PermaGetsBlocked`);
* a newer permanent list that could not be written over an older one is not written
  again, as the older hash is still the file's (`enforcement/dns.py:84`; the second
  exception);
* of two schedules back to back the second is dropped (`watchdog.py:121`);
* a rule is compared with the sleep schedule over eight days and without the run
  it skips (`schedules.py:402`, `sleep_schedule.py:255`): skip Friday's run on a
  Monday, save a sleep schedule for Fridays, and from the week after on every run
  falls into a night and is refused.  TLC finds it with `Day = 2`, `MaxTime = 20`,
  a rule and nights on weekday 5 only, and no `~masked` in `NoDoubleBooking`;
* edits of the settings that are made during a load or a save, or before a sound
  is uploaded or deleted, are replaced (`settings.js:432`, `settings.js:394`);
* two failures in a row mark controls as disabled before, so that no success
  enables them (`app.js:249`, `settings.js:123`);
* an answer that is read before the stream's next message and handled after it
  shows an older status: a recap too early or twice (`app.js:466`);
* a page that loads a document while it changes, or a daemon that starts again and
  counts from zero, leaves the settings page behind until the next change;
* the last domain that leaves the permanent list while the worker is stopped, more
  rules than Chrome takes, a revision that coincides after a restart and a menu
  answer that overtakes refused rules keep the extension from settling.
