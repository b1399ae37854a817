---------------------------- MODULE SettingsPage -----------------------------
(***************************************************************************)
(* The settings page: two forms, the settings and the sleep schedule, over *)
(* documents that other surfaces change as well.  A stream tells the page  *)
(* the state revision; a newer one makes it load both documents again,     *)
(* unless there are edits.  Loads of one document share one request, saves *)
(* may overlap, and what fails or comes late meets fields that have been   *)
(* edited since.  The daemon changes a document before it counts the       *)
(* revision up, and counts from zero when it is restarted.                 *)
(***************************************************************************)
EXTENDS Integers

CONSTANTS
  Slots,                     \* bound: saves of the settings at one time
  MaxEvents                  \* bound: of changes, saves, failed calls and restarts together

ASSUME EventsAssumption == MaxEvents \in Nat

Forms == {"settings", "sleep"}
NoRev == -1
Idle == -1                   \* no request
Sent == -2                   \* a request that is not answered yet
Failed == -3                 \* one that came to nothing

VARIABLES
  doc,                       \* the version of each document
  rev, unannounced,          \* the state revision, and changes that have not counted yet
  restarted,                 \* the daemon was (history)
  last,                      \* _lastRevision
  mail,                      \* a revision on its way down the stream
  open,                      \* init has attached its listeners
  form,                      \* what each form shows, and the flags of its edits
  get,                       \* the request for each document, with the version it was answered
  shared,                    \* requests that more than one load waits for
  saves,                     \* those of the settings
  sleepSave,                 \* that of the sleep schedule
  sound,                     \* a sound is being uploaded or deleted
  off, mark,                 \* disabled controls, and dataset.settingsDisabled
  missed,                    \* forms that a change has passed by (history)
  early,                     \* edits fell into a load or a save, or the page is off line (history)
  troubled,                  \* settings failed to load (history)
  events

daemon == <<doc, rev, unannounced, restarted>>
stream == <<last, mail>>
requests == <<get, shared, saves, sleepSave, sound>>
controls == <<off, mark>>
history == <<missed, early, troubled>>
vars == <<daemon, stream, open, form, requests, controls, history, events>>

\* What the module's variables range over.  A form's edits: none, some that were never sent,
\* or all of them sent.
TypeOK ==
  /\ doc \in [Forms -> Nat] /\ rev \in Nat /\ unannounced \in Nat /\ restarted \in BOOLEAN
  /\ last \in Nat \cup {NoRev} /\ mail \in Nat \cup {NoRev} /\ open \in BOOLEAN
  /\ form \in [Forms -> [base : Nat, edits : {"none", "unsent", "sent"}, dirty : BOOLEAN,
                         ready : BOOLEAN]]
  /\ get \in [Forms -> Nat \cup {Idle, Sent, Failed}] /\ shared \subseteq Forms
  /\ saves \in [Slots -> {"idle", "sent", "served", "failed", "loading"}]
  /\ sleepSave \in Nat \cup {Idle, Sent, Failed}
  /\ sound \in BOOLEAN
  /\ off \in [Forms -> BOOLEAN] /\ mark \in [Forms -> {"none", "forced", "already"}]
  /\ missed \subseteq Forms /\ early \in BOOLEAN /\ troubled \in BOOLEAN
  /\ events \in Nat

Saving == \E i \in Slots : saves[i] # "idle"
SavingSleep == sleepSave # Idle

\* The page asks for both documents at once.
Init ==
  /\ doc = [f \in Forms |-> 1] /\ rev = 0 /\ unannounced = 0 /\ restarted = FALSE
  /\ last = NoRev /\ mail = NoRev /\ open = FALSE
  /\ form = [f \in Forms |-> [base |-> 0, edits |-> "none", dirty |-> FALSE, ready |-> FALSE]]
  /\ get = [f \in Forms |-> Sent] /\ shared = {}
  /\ saves = [i \in Slots |-> "idle"] /\ sleepSave = Idle /\ sound = FALSE
  /\ off = [f \in Forms |-> f = "sleep"] /\ mark = [f \in Forms |-> "none"]
  /\ missed = {} /\ early = FALSE /\ troubled = FALSE
  /\ events = 0

-----------------------------------------------------------------------------
(* The daemon *)

Event == events < MaxEvents /\ events' = events + 1

Write(f) == doc' = [doc EXCEPT ![f] = @ + 1] /\ unannounced' = unannounced + 1

\* Another surface saves a document.
ChangeElsewhere ==
  /\ Event
  /\ \E f \in Forms : Write(f)
  /\ UNCHANGED <<rev, restarted, stream, open, form, requests, controls, history>>

\* Mutant: two changes are counted at once.
AnnounceTwo ==
  /\ unannounced > 0
  /\ rev' = rev + 1 /\ unannounced' = unannounced - 2
  /\ UNCHANGED <<doc, restarted, stream, open, form, requests, controls, history, events>>

\* broadcast_state_changed, after the change.
Announce ==
  /\ unannounced > 0
  /\ rev' = rev + 1 /\ unannounced' = unannounced - 1
  /\ UNCHANGED <<doc, restarted, stream, open, form, requests, controls, history, events>>

\* What the daemon had not answered is lost.
RestartDaemon ==
  /\ Event
  /\ rev' = 0 /\ unannounced' = 0 /\ restarted' = TRUE
  /\ get' = [f \in Forms |-> IF get[f] = Sent THEN Failed ELSE get[f]]
  /\ saves' = [i \in Slots |-> IF saves[i] = "sent" THEN "failed" ELSE saves[i]]
  /\ sleepSave' = IF sleepSave = Sent THEN Failed ELSE sleepSave
  /\ mail' = NoRev
  /\ UNCHANGED <<doc, last, open, form, shared, sound, controls, history>>

AnswerGet ==
  /\ \E f \in Forms : get[f] = Sent /\ get' = [get EXCEPT ![f] = doc[f]]
  /\ UNCHANGED <<daemon, stream, open, form, shared, saves, sleepSave, sound, controls, history,
                 events>>

\* Timeouts and errors, before or after the daemon has read the document.
FailGet ==
  /\ Event
  /\ \E f \in Forms : get[f] \notin {Idle, Failed} /\ get' = [get EXCEPT ![f] = Failed]
  /\ UNCHANGED <<daemon, stream, open, form, shared, saves, sleepSave, sound, controls, history>>

AnswerSave ==
  /\ \E i \in Slots : saves[i] = "sent" /\ saves' = [saves EXCEPT ![i] = "served"]
  /\ Write("settings")
  /\ UNCHANGED <<rev, restarted, stream, open, form, get, shared, sleepSave, sound, controls,
                 history, events>>

AnswerSleepSave ==
  /\ sleepSave = Sent
  /\ Write("sleep") /\ sleepSave' = doc'["sleep"]
  /\ UNCHANGED <<rev, restarted, stream, open, form, get, shared, saves, sound, controls,
                 history, events>>

\* A save is refused, or its answer is lost.
FailSave ==
  /\ Event
  /\ \/ /\ \E i \in Slots : saves[i] \in {"sent", "served"} /\ saves' = [saves EXCEPT ![i] = "failed"]
        /\ UNCHANGED sleepSave
     \/ /\ sleepSave \notin {Idle, Failed} /\ sleepSave' = Failed
        /\ UNCHANGED saves
  /\ UNCHANGED <<daemon, stream, open, form, get, shared, sound, controls, history>>

\* The stream sends the revision.  When it is cut, that is sent again later.
Send ==
  /\ open /\ mail = NoRev
  /\ mail' = rev
  /\ UNCHANGED <<daemon, last, open, form, requests, controls, history, events>>

-----------------------------------------------------------------------------
(* Loading *)

\* api: a request that is under way is shared, what it was answered included.
Load(fs) ==
  /\ get' = [f \in Forms |-> IF f \in fs /\ get[f] = Idle THEN Sent ELSE get[f]]
  /\ shared' = (shared \ {f \in fs : get[f] = Idle}) \cup {f \in fs : get[f] # Idle}
  /\ missed' = (missed \ {f \in fs : get[f] \in {Idle, Sent}})
               \cup {f \in fs : get[f] \notin {Idle, Sent}}

\* Mutant: the sleep schedule can be edited while it is loaded.
LoadSleepUnlocked ==
  form' = [form EXCEPT !["sleep"].ready = FALSE, !["sleep"].dirty = FALSE] /\ UNCHANGED off

\* fetchSleepSchedule, before its request: the form is locked and taken to be clean.
LoadSleep ==
  /\ form' = [form EXCEPT !["sleep"].ready = FALSE, !["sleep"].dirty = FALSE]
  /\ off' = [off EXCEPT !["sleep"] = TRUE]

Dirty == \E f \in Forms : form[f].dirty

\* Mutant: a new revision reloads the forms, edits or not.
ReceiveRegardless ==
  /\ mail # NoRev /\ mail' = NoRev
  /\ IF mail > last
     THEN Load(Forms) /\ LoadSleep /\ last' = mail
     ELSE UNCHANGED <<last, missed, get, shared, form, off>>
  /\ UNCHANGED <<daemon, open, saves, sleepSave, sound, mark, early, troubled, events>>

\* Mutant: a new revision reloads the settings only.
ReceiveSettings ==
  /\ mail # NoRev /\ mail' = NoRev
  /\ IF last # NoRev /\ mail > last /\ ~Dirty
     THEN Load({"settings"}) /\ last' = mail /\ UNCHANGED <<form, off>>
     ELSE last' = mail /\ UNCHANGED <<missed, get, shared, form, off>>
  /\ UNCHANGED <<daemon, open, saves, sleepSave, sound, mark, early, troubled, events>>

\* eventSource.onmessage: the first revision is taken as it is, a newer one reloads both
\* forms, or tells the user when one has edits.
Receive ==
  /\ mail # NoRev /\ mail' = NoRev
  /\ \/ /\ last = NoRev
        /\ last' = mail
        /\ missed' = missed \cup {f \in Forms : form[f].base # doc[f]}
        /\ UNCHANGED <<get, shared, form, off>>
     \/ /\ last # NoRev /\ mail > last
        /\ last' = mail
        /\ IF Dirty THEN missed' = Forms /\ UNCHANGED <<get, shared, form, off>>
                    ELSE Load(Forms) /\ LoadSleep
     \/ /\ last # NoRev /\ mail <= last
        /\ UNCHANGED <<last, missed, get, shared, form, off>>
  /\ UNCHANGED <<daemon, open, saves, sleepSave, sound, mark, early, troubled, events>>

\* settingsHealthAction.
Retry ==
  /\ open /\ ~form["settings"].ready
  /\ Load({"settings"})
  /\ UNCHANGED <<daemon, stream, open, form, saves, sleepSave, sound, controls, early, troubled,
                 events>>

\* btnRetrySleepSchedule, a control of the page like those of the settings.
RetrySleep ==
  /\ open /\ ~form["sleep"].ready /\ get["sleep"] = Idle /\ ~off["settings"]
  /\ Load({"sleep"}) /\ LoadSleep
  /\ UNCHANGED <<daemon, stream, open, saves, sleepSave, sound, mark, early, troubled, events>>

\* The saves that waited for the settings they reload are over.
SavesOver == saves' = [i \in Slots |-> IF saves[i] = "loading" THEN "idle" ELSE saves[i]]

\* setSettingsHealth: what was forced comes back.
Healthy ==
  /\ off' = [f \in Forms |-> off[f] /\ mark[f] # "forced"]
  /\ mark' = [f \in Forms |-> IF mark[f] = "forced" THEN "none" ELSE mark[f]]

\* Everything is disabled, once for every load that has waited.
Offline ==
  /\ off' = [f \in Forms |-> TRUE]
  /\ mark' = [f \in Forms |-> IF off[f] \/ "settings" \in shared THEN "already" ELSE "forced"]

\* fetchData: the fields are made anew.
Loaded ==
  /\ get["settings"] >= 0
  /\ form' = [form EXCEPT !["settings"] =
                [base |-> get["settings"], edits |-> "none", dirty |-> FALSE, ready |-> TRUE]]
  /\ get' = [get EXCEPT !["settings"] = Idle] /\ shared' = shared \ {"settings"}
  /\ Healthy /\ SavesOver
  /\ early' = FALSE
  /\ UNCHANGED <<daemon, stream, open, sleepSave, sound, missed, troubled, events>>

NotLoaded ==
  /\ get["settings"] = Failed
  /\ form' = [form EXCEPT !["settings"].ready = FALSE,
                          !["settings"].dirty = @ /\ \A i \in Slots : saves[i] # "loading"]
  /\ get' = [get EXCEPT !["settings"] = Idle] /\ shared' = shared \ {"settings"}
  /\ Offline /\ SavesOver
  /\ troubled' = TRUE
  /\ UNCHANGED <<daemon, stream, open, sleepSave, sound, missed, early, events>>

\* fetchSleepSchedule and renderSleepSchedule.
SleepLoaded ==
  /\ get["sleep"] >= 0
  /\ form' = [form EXCEPT !["sleep"] =
                [base |-> get["sleep"], edits |-> "none", dirty |-> FALSE, ready |-> TRUE]]
  /\ off' = [off EXCEPT !["sleep"] = SavingSleep]
  /\ get' = [get EXCEPT !["sleep"] = Idle] /\ shared' = shared \ {"sleep"}
  /\ UNCHANGED <<daemon, stream, open, saves, sleepSave, sound, mark, history, events>>

SleepNotLoaded ==
  /\ get["sleep"] = Failed
  /\ form' = [form EXCEPT !["sleep"].ready = FALSE, !["sleep"].dirty = FALSE]
  /\ off' = [off EXCEPT !["sleep"] = TRUE]
  /\ get' = [get EXCEPT !["sleep"] = Idle] /\ shared' = shared \ {"sleep"}
  /\ UNCHANGED <<daemon, stream, open, saves, sleepSave, sound, mark, history, events>>

\* init goes on when both forms are through with their first load.
Opened ==
  /\ ~open /\ \A f \in Forms : get[f] = Idle
  /\ open' = TRUE
  /\ UNCHANGED <<daemon, stream, form, requests, controls, history, events>>

-----------------------------------------------------------------------------
(* Editing and saving *)

\* markSettingsDirty.  The selects are made anew by every load, so there is something to
\* edit whenever the settings are ready.
Edit ==
  /\ open /\ form["settings"].ready
  /\ form' = [form EXCEPT !["settings"].edits = "unsent", !["settings"].dirty = TRUE]
  /\ early' = (early \/ get["settings"] # Idle \/ Saving)
  /\ UNCHANGED <<daemon, stream, open, requests, controls, missed, troubled, events>>

EditSleep ==
  /\ open /\ ~off["sleep"]
  /\ form' = [form EXCEPT !["sleep"].edits = "unsent", !["sleep"].dirty = TRUE]
  /\ UNCHANGED <<daemon, stream, open, requests, controls, history, events>>

\* saveSettings: the button is disabled until there are more edits or the save is over.
Save ==
  /\ open /\ form["settings"].ready /\ form["settings"].dirty
  /\ Saving => form["settings"].edits = "unsent"
  /\ Event
  /\ \E i \in Slots : saves[i] = "idle" /\ saves' = [saves EXCEPT ![i] = "sent"]
  /\ form' = [form EXCEPT !["settings"].edits = IF @ = "unsent" THEN "sent" ELSE @]
  /\ early' = FALSE
  /\ UNCHANGED <<daemon, stream, open, get, shared, sleepSave, sound, controls, missed, troubled>>

\* What was saved is loaded, by a request that may be older.
SaveAnswered ==
  /\ \E i \in Slots : saves[i] = "served" /\ saves' = [saves EXCEPT ![i] = "loading"]
  /\ Load({"settings"})
  /\ UNCHANGED <<daemon, stream, open, form, sleepSave, sound, controls, early, troubled, events>>

SaveFailed ==
  /\ \E i \in Slots : saves[i] = "failed" /\ saves' = [saves EXCEPT ![i] = "idle"]
  /\ form' = [form EXCEPT !["settings"].edits = IF @ = "sent" THEN "unsent" ELSE @]
  /\ early' = (\/ early \/ get["settings"] # Idle \/ ~form["settings"].ready
               \/ \E i \in Slots : saves'[i] # "idle")
  /\ UNCHANGED <<daemon, stream, open, get, shared, sleepSave, sound, controls, missed, troubled,
                 events>>

\* saveSleepSchedule: the form is locked until the answer, which it shows.
SaveSleep ==
  /\ open /\ form["sleep"].ready /\ form["sleep"].dirty /\ ~off["sleep"] /\ ~SavingSleep
  /\ Event
  /\ sleepSave' = Sent
  /\ form' = [form EXCEPT !["sleep"].edits = "sent"]
  /\ off' = [off EXCEPT !["sleep"] = TRUE]
  /\ UNCHANGED <<daemon, stream, open, get, shared, saves, sound, mark, history>>

SleepSaveAnswered ==
  /\ sleepSave \notin {Idle, Sent}
  /\ sleepSave' = Idle
  /\ LET z == form["sleep"] IN
     form' = [form EXCEPT !["sleep"] =
                IF sleepSave = Failed
                THEN [z EXCEPT !.edits = IF z.edits = "sent" THEN "unsent" ELSE z.edits,
                               !.dirty = z.dirty /\ z.ready]
                ELSE [z EXCEPT !.base = sleepSave, !.edits = "none", !.dirty = FALSE]]
  /\ off' = [off EXCEPT !["sleep"] = ~form["sleep"].ready]
  /\ UNCHANGED <<daemon, stream, open, get, shared, saves, sound, mark, history, events>>

\* handleFileUpload, deleteSound: when they are done the fields of the settings are rendered
\* again, from what was loaded last.
Sound ==
  /\ open /\ ~sound /\ form["settings"].ready
  /\ sound' = TRUE
  /\ UNCHANGED <<daemon, stream, open, form, get, shared, saves, sleepSave, controls, history,
                 events>>

SoundDone ==
  /\ sound /\ sound' = FALSE
  /\ form' = [form EXCEPT !["settings"].edits = "none"]
  /\ UNCHANGED <<daemon, stream, open, get, shared, saves, sleepSave, controls, history, events>>

-----------------------------------------------------------------------------
Next ==
  \/ ChangeElsewhere \/ Announce \/ RestartDaemon
  \/ AnswerGet \/ FailGet \/ AnswerSave \/ AnswerSleepSave \/ FailSave
  \/ Send \/ Receive \/ Retry \/ RetrySleep
  \/ Loaded \/ NotLoaded \/ SleepLoaded \/ SleepNotLoaded \/ Opened
  \/ Edit \/ EditSleep \/ Save \/ SaveAnswered \/ SaveFailed
  \/ SaveSleep \/ SleepSaveAnswered \/ Sound \/ SoundDone

Spec == Init /\ [][Next]_vars

-----------------------------------------------------------------------------
(* Properties *)

AtRest(f) == unannounced = 0 /\ last = rev /\ get[f] = Idle /\ ~Saving /\ ~SavingSleep

\* "Instant Config Sync": a form without edits that has seen the daemon's revision shows the
\* daemon's document.  The code does not get there when the change fell between the first
\* load and the first message, when the refresh joined a request that was answered before,
\* when there were edits in the other form (the user is told so), and after a restart of the
\* daemon, whose revisions start again.
ShownIsCurrent ==
  \A f \in Forms : open /\ AtRest(f) /\ form[f].ready /\ ~form[f].dirty
                   /\ f \notin missed /\ ~restarted => form[f].base = doc[f]

\* A step that takes edits from a form that were never sent.
Loses(f) == form[f].edits = "unsent" /\ form'[f].edits = "none"

\* "Never replace fields the user is actively editing with a background refresh from another
\* ForcedFocus surface": edits of the settings that were begun while nothing was under way are
\* there until they are sent.  Edits that fall into a load or a save, and those at hand when a
\* sound is uploaded or deleted, the code does replace.
SettingsEditsSurvive == [][Loses("settings") => early \/ SoundDone]_vars

\* The sleep schedule keeps its edits as long as the settings have always loaded: what
\* locks its controls is not undone by what unlocks those of the settings.
SleepEditsSurvive == [][Loses("sleep") => troubled]_vars
=============================================================================
