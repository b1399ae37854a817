------------------------- MODULE SettingsPage_proofs ------------------------
(***************************************************************************)
(* Proofs about SettingsPage, for all numbers of saves and bounds: types,  *)
(* that edits survive, and that a form at rest shows the daemon's document.*)
(***************************************************************************)
EXTENDS SettingsPage, TLAPS

-----------------------------------------------------------------------------
(* The inductive invariant *)

\* Edits of the settings that are not begun early meet no load and no save.
EditsKept ==
  LET s == form["settings"] IN
  /\ s.edits = "unsent" /\ (get["settings"] # Idle \/ Saving \/ ~s.ready) => early
  /\ s.edits = "unsent" => s.dirty \/ early
  /\ s.edits = "sent" => s.dirty \/ ~s.ready

\* The sleep form is not ready while it is loaded, and what is saved is dirty, so no load
\* meets a save.
OneAtATime ==
  LET z == form["sleep"] IN
  /\ get["sleep"] # Idle => ~z.ready
  /\ SavingSleep => z.ready /\ z.dirty

\* As long as the settings have always loaded, the sleep form is locked while it is loaded or
\* saved, and its edits are known.
Locked ==
  LET z == form["sleep"] IN
  ~troubled => /\ \A f \in Forms : mark[f] = "none"
               /\ ~z.ready => off["sleep"]
               /\ SavingSleep => off["sleep"] /\ z.edits # "unsent"
               /\ z.edits # "none" => z.dirty /\ z.ready

\* What a form shows is no newer than what is on its way, and that no newer than the document.
InOrder ==
  /\ \A f \in Forms : /\ form[f].base <= doc[f]
                      /\ get[f] >= 0 => form[f].base <= get[f] /\ get[f] <= doc[f]
  /\ sleepSave >= 0 => form["sleep"].base <= sleepSave /\ sleepSave <= doc["sleep"]
  /\ ~restarted => last <= rev /\ mail <= rev

\* What form f shows, or is about to, is the document.
Fresh(f) ==
  /\ get[f] >= 0 => get[f] = doc[f]
  /\ get[f] = Idle /\ form[f].ready => form[f].base = doc[f]
  /\ f = "sleep" /\ sleepSave >= 0 => sleepSave = doc[f]

\* What a form has not missed it shows, or there is a revision to come that says so.
Told == ~restarted => \A f \in Forms \ missed : rev + unannounced > last \/ Fresh(f)

IInv == TypeOK /\ EditsKept /\ OneAtATime /\ Locked /\ InOrder /\ Told
-----------------------------------------------------------------------------
(* Types *)

\* The types of the forms, and of everything else.
Fields == [base : Nat, edits : {"none", "unsent", "sent"}, dirty : BOOLEAN, ready : BOOLEAN]
FormOK == form \in [Forms -> Fields]
DaemonOK == doc \in [Forms -> Nat] /\ rev \in Nat /\ unannounced \in Nat /\ restarted \in BOOLEAN
StreamOK == last \in Nat \cup {NoRev} /\ mail \in Nat \cup {NoRev} /\ open \in BOOLEAN
RequestsOK ==
  /\ get \in [Forms -> Nat \cup {Idle, Sent, Failed}] /\ shared \subseteq Forms
  /\ saves \in [Slots -> {"idle", "sent", "served", "failed", "loading"}]
  /\ sleepSave \in Nat \cup {Idle, Sent, Failed}
  /\ sound \in BOOLEAN
ControlsOK == off \in [Forms -> BOOLEAN] /\ mark \in [Forms -> {"none", "forced", "already"}]
HistoryOK ==
  missed \subseteq Forms /\ early \in BOOLEAN /\ troubled \in BOOLEAN /\ events \in Nat
Parts == DaemonOK /\ StreamOK /\ FormOK /\ RequestsOK /\ ControlsOK /\ HistoryOK

LEMMA TypeParts == TypeOK <=> Parts
BY DEF TypeOK, Parts, DaemonOK, StreamOK, FormOK, Fields, RequestsOK, ControlsOK, HistoryOK

\* Every step keeps the types.
LEMMA TypeStep == ASSUME TypeOK, [Next]_vars PROVE TypeOK'
<1> USE EventsAssumption
<1>0. Parts
  BY TypeParts
<1> SUFFICES Parts'
  BY TypeParts DEF TypeOK, Parts, DaemonOK, StreamOK, FormOK, Fields, RequestsOK, ControlsOK, HistoryOK
<1> USE DEF Forms, Idle, Sent, Failed, NoRev
<1>1. CASE ChangeElsewhere
  BY <1>0, <1>1
  DEF Parts, DaemonOK, StreamOK, FormOK, RequestsOK, ControlsOK, HistoryOK,
      ChangeElsewhere, Event, Write, stream, requests, controls, history
<1>2. CASE Announce
  BY <1>0, <1>2
  DEF Parts, DaemonOK, StreamOK, FormOK, RequestsOK, ControlsOK, HistoryOK,
      Announce, stream, requests, controls, history
<1>3. CASE RestartDaemon
  BY <1>0, <1>3
  DEF Parts, DaemonOK, StreamOK, FormOK, RequestsOK, ControlsOK, HistoryOK,
      RestartDaemon, Event, controls, history
<1>4. CASE AnswerGet
  BY <1>0, <1>4
  DEF Parts, DaemonOK, StreamOK, FormOK, RequestsOK, ControlsOK, HistoryOK,
      AnswerGet, daemon, stream, controls, history
<1>5. CASE FailGet
  BY <1>0, <1>5
  DEF Parts, DaemonOK, StreamOK, FormOK, RequestsOK, ControlsOK, HistoryOK,
      FailGet, Event, daemon, stream, controls, history
<1>6. CASE AnswerSave
  BY <1>0, <1>6
  DEF Parts, DaemonOK, StreamOK, FormOK, RequestsOK, ControlsOK, HistoryOK,
      AnswerSave, Write, stream, controls, history
<1>7. CASE AnswerSleepSave
  BY <1>0, <1>7
  DEF Parts, DaemonOK, StreamOK, FormOK, RequestsOK, ControlsOK, HistoryOK,
      AnswerSleepSave, Write, stream, controls, history
<1>8. CASE FailSave
  BY <1>0, <1>8
  DEF Parts, DaemonOK, StreamOK, FormOK, RequestsOK, ControlsOK, HistoryOK,
      FailSave, Event, daemon, stream, controls, history
<1>9. CASE Send
  BY <1>0, <1>9
  DEF Parts, DaemonOK, StreamOK, FormOK, RequestsOK, ControlsOK, HistoryOK,
      Send, daemon, requests, controls, history
<1>10. CASE Receive
  <2>1. DaemonOK' /\ StreamOK' /\ HistoryOK'
    BY <1>0, <1>10 DEF Parts, DaemonOK, StreamOK, HistoryOK, Receive, Load, daemon
  <2>2. \/ UNCHANGED <<get, shared, form, off>>
        \/ Load(Forms) /\ LoadSleep
    BY <1>10 DEF Receive
  <2>3. UNCHANGED <<saves, sleepSave, sound, mark>>
    BY <1>10 DEF Receive
  <2>4. CASE UNCHANGED <<get, shared, form, off>>
    <3>1. RequestsOK' /\ ControlsOK'
      BY <1>0, <2>3, <2>4 DEF Parts, RequestsOK, ControlsOK
    <3>2. FormOK'
      BY <1>0, <2>4 DEF Parts, FormOK
    <3> QED
      BY <2>1, <3>1, <3>2 DEF Parts
  <2>5. CASE Load(Forms) /\ LoadSleep
    <3>1. RequestsOK'
      BY <1>0, <2>3, <2>5 DEF Parts, RequestsOK, Load
    <3>2. FormOK'
      BY <1>0, <2>5 DEF Parts, FormOK, Fields, LoadSleep
    <3>3. ControlsOK'
      BY <1>0, <2>3, <2>5 DEF Parts, ControlsOK, LoadSleep
    <3> QED
      BY <2>1, <3>1, <3>2, <3>3 DEF Parts
  <2> QED
    BY <2>2, <2>4, <2>5
<1>11. CASE Retry
  BY <1>0, <1>11
  DEF Parts, DaemonOK, StreamOK, FormOK, RequestsOK, ControlsOK, HistoryOK,
      Retry, Load, daemon, stream, controls
<1>12. CASE RetrySleep
  <2>1. DaemonOK' /\ StreamOK' /\ RequestsOK' /\ ControlsOK' /\ HistoryOK'
    BY <1>0, <1>12
    DEF Parts, DaemonOK, StreamOK, RequestsOK, ControlsOK, HistoryOK,
        SavingSleep, RetrySleep, Load, LoadSleep, daemon, stream
  <2>2. FormOK'
    BY <1>0, <1>12 DEF Parts, FormOK, Fields, RequestsOK, RetrySleep, LoadSleep
  <2> QED
    BY <2>1, <2>2 DEF Parts
<1>13. CASE Loaded
  <2>1. DaemonOK' /\ StreamOK' /\ RequestsOK' /\ ControlsOK' /\ HistoryOK'
    BY <1>0, <1>13
    DEF Parts, DaemonOK, StreamOK, RequestsOK, ControlsOK, HistoryOK,
        SavingSleep, Loaded, SavesOver, Healthy, daemon, stream
  <2>2. FormOK'
    BY <1>0, <1>13 DEF Parts, FormOK, Fields, RequestsOK, Loaded
  <2> QED
    BY <2>1, <2>2 DEF Parts
<1>14. CASE NotLoaded
  <2>1. DaemonOK' /\ StreamOK' /\ RequestsOK' /\ ControlsOK' /\ HistoryOK'
    BY <1>0, <1>14
    DEF Parts, DaemonOK, StreamOK, RequestsOK, ControlsOK, HistoryOK,
        SavingSleep, NotLoaded, SavesOver, Offline, daemon, stream
  <2>2. FormOK'
    BY <1>0, <1>14 DEF Parts, FormOK, Fields, RequestsOK, NotLoaded
  <2> QED
    BY <2>1, <2>2 DEF Parts
<1>15. CASE SleepLoaded
  <2>1. DaemonOK' /\ StreamOK' /\ RequestsOK' /\ ControlsOK' /\ HistoryOK'
    BY <1>0, <1>15
    DEF Parts, DaemonOK, StreamOK, RequestsOK, ControlsOK, HistoryOK,
        SavingSleep, SleepLoaded, daemon, stream, history
  <2>2. FormOK'
    BY <1>0, <1>15 DEF Parts, FormOK, Fields, RequestsOK, SleepLoaded
  <2> QED
    BY <2>1, <2>2 DEF Parts
<1>16. CASE SleepNotLoaded
  <2>1. DaemonOK' /\ StreamOK' /\ RequestsOK' /\ ControlsOK' /\ HistoryOK'
    BY <1>0, <1>16
    DEF Parts, DaemonOK, StreamOK, RequestsOK, ControlsOK, HistoryOK,
        SavingSleep, SleepNotLoaded, daemon, stream, history
  <2>2. FormOK'
    BY <1>0, <1>16 DEF Parts, FormOK, Fields, RequestsOK, SleepNotLoaded
  <2> QED
    BY <2>1, <2>2 DEF Parts
<1>17. CASE Opened
  BY <1>0, <1>17
  DEF Parts, DaemonOK, StreamOK, FormOK, RequestsOK, ControlsOK, HistoryOK,
      Opened, daemon, stream, requests, controls, history
<1>18. CASE Edit
  <2>1. DaemonOK' /\ StreamOK' /\ RequestsOK' /\ ControlsOK' /\ HistoryOK'
    BY <1>0, <1>18
    DEF Parts, DaemonOK, StreamOK, RequestsOK, ControlsOK, HistoryOK,
        SavingSleep, Edit, daemon, stream, requests, controls
  <2>2. FormOK'
    BY <1>0, <1>18 DEF Parts, FormOK, Fields, RequestsOK, Edit
  <2> QED
    BY <2>1, <2>2 DEF Parts
<1>19. CASE EditSleep
  <2>1. DaemonOK' /\ StreamOK' /\ RequestsOK' /\ ControlsOK' /\ HistoryOK'
    BY <1>0, <1>19
    DEF Parts, DaemonOK, StreamOK, RequestsOK, ControlsOK, HistoryOK,
        SavingSleep, EditSleep, daemon, stream, requests, controls, history
  <2>2. FormOK'
    BY <1>0, <1>19 DEF Parts, FormOK, Fields, RequestsOK, EditSleep
  <2> QED
    BY <2>1, <2>2 DEF Parts
<1>20. CASE Save
  <2>0. /\ UNCHANGED <<daemon, stream, open, controls, missed, troubled>>
        /\ early' = FALSE /\ events' = events + 1
    BY <1>20 DEF Save, Event
  <2>1. DaemonOK' /\ StreamOK' /\ ControlsOK' /\ HistoryOK'
    <3>1. DaemonOK' /\ StreamOK' /\ ControlsOK'
      BY <1>0, <2>0 DEF Parts, DaemonOK, StreamOK, ControlsOK, daemon, stream, controls
    <3>2. HistoryOK'
      <4>1. missed' = missed /\ troubled' = troubled
        BY <2>0
      <4>2. early' \in BOOLEAN
        BY <2>0
      <4>3. events' \in Nat
        BY <1>0, <2>0 DEF Parts, HistoryOK
      <4> QED
        BY <1>0, <4>1, <4>2, <4>3 DEF Parts, HistoryOK
    <3> QED
      BY <3>1, <3>2
  <2>2. PICK i \in Slots : saves' = [saves EXCEPT ![i] = "sent"]
    BY <1>20 DEF Save
  <2>3. UNCHANGED <<get, shared, sleepSave, sound>>
    BY <1>20 DEF Save
  <2>4. RequestsOK'
    BY <1>0, <2>2, <2>3 DEF Parts, RequestsOK
  <2>5. FormOK'
    BY <1>0, <1>20 DEF Parts, FormOK, Fields, Save
  <2> QED
    BY <2>1, <2>4, <2>5 DEF Parts
<1>21. CASE SaveAnswered
  BY <1>0, <1>21
  DEF Parts, DaemonOK, StreamOK, FormOK, RequestsOK, ControlsOK, HistoryOK,
      SaveAnswered, Load, daemon, stream, controls
<1>22. CASE SaveFailed
  <2>1. DaemonOK' /\ StreamOK' /\ RequestsOK' /\ ControlsOK' /\ HistoryOK'
    BY <1>0, <1>22
    DEF Parts, DaemonOK, StreamOK, RequestsOK, ControlsOK, HistoryOK,
        SavingSleep, SaveFailed, daemon, stream, controls
  <2>2. FormOK'
    BY <1>0, <1>22 DEF Parts, FormOK, Fields, RequestsOK, SaveFailed
  <2> QED
    BY <2>1, <2>2 DEF Parts
<1>23. CASE SaveSleep
  <2>1. DaemonOK' /\ StreamOK' /\ RequestsOK' /\ ControlsOK' /\ HistoryOK'
    BY <1>0, <1>23
    DEF Parts, DaemonOK, StreamOK, RequestsOK, ControlsOK, HistoryOK,
        SavingSleep, SaveSleep, Event, daemon, stream, history
  <2>2. FormOK'
    BY <1>0, <1>23 DEF Parts, FormOK, Fields, RequestsOK, SaveSleep
  <2> QED
    BY <2>1, <2>2 DEF Parts
<1>24. CASE SleepSaveAnswered
  <2>1. DaemonOK' /\ StreamOK' /\ RequestsOK' /\ ControlsOK' /\ HistoryOK'
    BY <1>0, <1>24
    DEF Parts, DaemonOK, StreamOK, RequestsOK, ControlsOK, HistoryOK,
        SavingSleep, SleepSaveAnswered, daemon, stream, history
  <2>2. FormOK'
    <3>1. CASE sleepSave = Failed
      <4>1. form["sleep"] \in Fields
        BY <1>0 DEF Parts, FormOK
      <4> DEFINE z == form["sleep"]
                 e == IF z.edits = "sent" THEN "unsent" ELSE z.edits
      <4>2. form' = [form EXCEPT !["sleep"] = [z EXCEPT !.edits = e, !.dirty = z.dirty /\ z.ready]]
        BY <1>24, <3>1 DEF SleepSaveAnswered
      <4>3. [z EXCEPT !.edits = e, !.dirty = z.dirty /\ z.ready] \in Fields
        BY <4>1 DEF Fields
      <4> QED
        BY <1>0, <4>2, <4>3 DEF Parts, FormOK
    <3>2. CASE sleepSave # Failed
      <4>1. sleepSave \in Nat
        BY <1>0, <1>24, <3>2 DEF Parts, RequestsOK, SleepSaveAnswered
      <4> QED
        BY <1>0, <1>24, <3>2, <4>1 DEF Parts, FormOK, Fields, SleepSaveAnswered
    <3> QED
      BY <3>1, <3>2
  <2> QED
    BY <2>1, <2>2 DEF Parts
<1>25. CASE Sound
  BY <1>0, <1>25
  DEF Parts, DaemonOK, StreamOK, FormOK, RequestsOK, ControlsOK, HistoryOK,
      Sound, daemon, stream, controls, history
<1>26. CASE SoundDone
  <2>1. DaemonOK' /\ StreamOK' /\ RequestsOK' /\ ControlsOK' /\ HistoryOK'
    BY <1>0, <1>26
    DEF Parts, DaemonOK, StreamOK, RequestsOK, ControlsOK, HistoryOK,
        SavingSleep, SoundDone, daemon, stream, controls, history
  <2>2. FormOK'
    BY <1>0, <1>26 DEF Parts, FormOK, Fields, RequestsOK, SoundDone
  <2> QED
    BY <2>1, <2>2 DEF Parts
<1>27. CASE UNCHANGED vars
  BY <1>0, <1>27
  DEF Parts, DaemonOK, StreamOK, FormOK, RequestsOK, ControlsOK, HistoryOK,
      vars, daemon, stream, requests, controls, history
<1> QED
  BY <1>1, <1>2, <1>3, <1>4, <1>5, <1>6, <1>7, <1>8, <1>9, <1>10, <1>11, <1>12, <1>13, <1>14,
     <1>15, <1>16, <1>17, <1>18, <1>19, <1>20, <1>21, <1>22, <1>23, <1>24, <1>25, <1>26, <1>27 DEF Next
-----------------------------------------------------------------------------
(* What every step keeps *)

\* Edits that are not begun early go on meeting no load and no save: a load is begun by a
\* message only without edits, and by a save only after it.
LEMMA KeptStep == ASSUME TypeOK, EditsKept, [Next]_vars PROVE EditsKept'
<1> USE DEF Forms, Idle, Sent, Failed, NoRev
<1>1. CASE ChangeElsewhere
  BY <1>1
  DEF TypeOK, EditsKept, Saving, ChangeElsewhere, Event, Write, stream, requests,
      controls, history
<1>2. CASE Announce
  BY <1>2
  DEF TypeOK, EditsKept, Saving, Announce, stream, requests, controls, history
<1>3. CASE RestartDaemon
  BY <1>3
  DEF TypeOK, EditsKept, Saving, RestartDaemon, Event, controls, history
<1>4. CASE AnswerGet
  BY <1>4
  DEF TypeOK, EditsKept, Saving, AnswerGet, daemon, stream, controls, history
<1>5. CASE FailGet
  BY <1>5
  DEF TypeOK, EditsKept, Saving, FailGet, Event, daemon, stream, controls, history
<1>6. CASE AnswerSave
  BY <1>6
  DEF TypeOK, EditsKept, Saving, AnswerSave, Write, stream, controls, history
<1>7. CASE AnswerSleepSave
  BY <1>7
  DEF TypeOK, EditsKept, Saving, AnswerSleepSave, Write, stream, controls, history
<1>8. CASE FailSave
  BY <1>8
  DEF TypeOK, EditsKept, Saving, FailSave, Event, daemon, stream, controls, history
<1>9. CASE Send
  BY <1>9
  DEF TypeOK, EditsKept, Saving, Send, daemon, requests, controls, history
<1>10. CASE Receive
  BY <1>10
  DEF TypeOK, EditsKept, Saving, Dirty, Receive, Load, LoadSleep, daemon
<1>11. CASE Retry
  BY <1>11
  DEF TypeOK, EditsKept, Saving, Retry, Load, daemon, stream, controls
<1>12. CASE RetrySleep
  BY <1>12
  DEF TypeOK, EditsKept, Saving, RetrySleep, Load, LoadSleep, daemon, stream
<1>13. CASE Loaded
  BY <1>13
  DEF TypeOK, EditsKept, Saving, Loaded, SavesOver, Healthy, daemon, stream
<1>14. CASE NotLoaded
  BY <1>14
  DEF TypeOK, EditsKept, Saving, NotLoaded, SavesOver, Offline, daemon, stream
<1>15. CASE SleepLoaded
  BY <1>15
  DEF TypeOK, EditsKept, Saving, SleepLoaded, daemon, stream, history
<1>16. CASE SleepNotLoaded
  BY <1>16
  DEF TypeOK, EditsKept, Saving, SleepNotLoaded, daemon, stream, history
<1>17. CASE Opened
  BY <1>17
  DEF TypeOK, EditsKept, Saving, Opened, daemon, stream, requests, controls, history
<1>18. CASE Edit
  BY <1>18
  DEF TypeOK, EditsKept, Saving, Edit, daemon, stream, requests, controls
<1>19. CASE EditSleep
  BY <1>19
  DEF TypeOK, EditsKept, Saving, EditSleep, daemon, stream, requests, controls,
      history
<1>20. CASE Save
  BY <1>20
  DEF TypeOK, EditsKept, Saving, Save, Event, daemon, stream, controls
<1>21. CASE SaveAnswered
  BY <1>21
  DEF TypeOK, EditsKept, Saving, SaveAnswered, Load, daemon, stream, controls
<1>22. CASE SaveFailed
  BY <1>22
  DEF TypeOK, EditsKept, Saving, SaveFailed, daemon, stream, controls
<1>23. CASE SaveSleep
  BY <1>23
  DEF TypeOK, EditsKept, Saving, SaveSleep, Event, daemon, stream, history
<1>24. CASE SleepSaveAnswered
  BY <1>24
  DEF TypeOK, EditsKept, Saving, SleepSaveAnswered, daemon, stream, history
<1>25. CASE Sound
  BY <1>25
  DEF TypeOK, EditsKept, Saving, Sound, daemon, stream, controls, history
<1>26. CASE SoundDone
  BY <1>26
  DEF TypeOK, EditsKept, Saving, SoundDone, daemon, stream, controls, history
<1>27. CASE UNCHANGED vars
  BY <1>27
  DEF TypeOK, EditsKept, Saving, vars, daemon, stream, requests, controls, history
<1> QED
  BY <1>1, <1>2, <1>3, <1>4, <1>5, <1>6, <1>7, <1>8, <1>9, <1>10, <1>11, <1>12, <1>13, <1>14,
     <1>15, <1>16, <1>17, <1>18, <1>19, <1>20, <1>21, <1>22, <1>23, <1>24, <1>25, <1>26, <1>27 DEF Next

\* A load of the sleep schedule makes the form not ready, and is not begun while it is dirty.
LEMMA OneStep == ASSUME TypeOK, OneAtATime, [Next]_vars PROVE OneAtATime'
<1> USE DEF Forms, Idle, Sent, Failed, NoRev
<1>1. CASE ChangeElsewhere
  BY <1>1
  DEF TypeOK, OneAtATime, SavingSleep, ChangeElsewhere, Event, Write, stream,
      requests, controls, history
<1>2. CASE Announce
  BY <1>2
  DEF TypeOK, OneAtATime, SavingSleep, Announce, stream, requests, controls, history
<1>3. CASE RestartDaemon
  BY <1>3
  DEF TypeOK, OneAtATime, SavingSleep, RestartDaemon, Event, controls, history
<1>4. CASE AnswerGet
  BY <1>4
  DEF TypeOK, OneAtATime, SavingSleep, AnswerGet, daemon, stream, controls, history
<1>5. CASE FailGet
  BY <1>5
  DEF TypeOK, OneAtATime, SavingSleep, FailGet, Event, daemon, stream, controls,
      history
<1>6. CASE AnswerSave
  BY <1>6
  DEF TypeOK, OneAtATime, SavingSleep, AnswerSave, Write, stream, controls, history
<1>7. CASE AnswerSleepSave
  BY <1>7
  DEF TypeOK, OneAtATime, SavingSleep, AnswerSleepSave, Write, stream, controls,
      history
<1>8. CASE FailSave
  BY <1>8
  DEF TypeOK, OneAtATime, SavingSleep, FailSave, Event, daemon, stream, controls,
      history
<1>9. CASE Send
  BY <1>9
  DEF TypeOK, OneAtATime, SavingSleep, Send, daemon, requests, controls, history
<1>10. CASE Receive
  BY <1>10
  DEF TypeOK, OneAtATime, SavingSleep, Dirty, Receive, Load, LoadSleep, daemon
<1>11. CASE Retry
  BY <1>11
  DEF TypeOK, OneAtATime, SavingSleep, Retry, Load, daemon, stream, controls
<1>12. CASE RetrySleep
  BY <1>12
  DEF TypeOK, OneAtATime, SavingSleep, RetrySleep, Load, LoadSleep, daemon, stream
<1>13. CASE Loaded
  BY <1>13
  DEF TypeOK, OneAtATime, SavingSleep, Loaded, SavesOver, Healthy, daemon, stream
<1>14. CASE NotLoaded
  BY <1>14
  DEF TypeOK, OneAtATime, SavingSleep, NotLoaded, SavesOver, Offline, daemon, stream
<1>15. CASE SleepLoaded
  BY <1>15
  DEF TypeOK, OneAtATime, SavingSleep, SleepLoaded, daemon, stream, history
<1>16. CASE SleepNotLoaded
  BY <1>16
  DEF TypeOK, OneAtATime, SavingSleep, SleepNotLoaded, daemon, stream, history
<1>17. CASE Opened
  BY <1>17
  DEF TypeOK, OneAtATime, SavingSleep, Opened, daemon, stream, requests, controls,
      history
<1>18. CASE Edit
  BY <1>18
  DEF TypeOK, OneAtATime, SavingSleep, Edit, daemon, stream, requests, controls
<1>19. CASE EditSleep
  BY <1>19
  DEF TypeOK, OneAtATime, SavingSleep, EditSleep, daemon, stream, requests, controls,
      history
<1>20. CASE Save
  BY <1>20
  DEF TypeOK, OneAtATime, SavingSleep, Save, Event, daemon, stream, controls
<1>21. CASE SaveAnswered
  BY <1>21
  DEF TypeOK, OneAtATime, SavingSleep, SaveAnswered, Load, daemon, stream, controls
<1>22. CASE SaveFailed
  BY <1>22
  DEF TypeOK, OneAtATime, SavingSleep, SaveFailed, daemon, stream, controls
<1>23. CASE SaveSleep
  BY <1>23
  DEF TypeOK, OneAtATime, SavingSleep, SaveSleep, Event, daemon, stream, history
<1>24. CASE SleepSaveAnswered
  BY <1>24
  DEF TypeOK, OneAtATime, SavingSleep, SleepSaveAnswered, daemon, stream, history
<1>25. CASE Sound
  BY <1>25
  DEF TypeOK, OneAtATime, SavingSleep, Sound, daemon, stream, controls, history
<1>26. CASE SoundDone
  BY <1>26
  DEF TypeOK, OneAtATime, SavingSleep, SoundDone, daemon, stream, controls, history
<1>27. CASE UNCHANGED vars
  BY <1>27
  DEF TypeOK, OneAtATime, SavingSleep, vars, daemon, stream, requests, controls,
      history
<1> QED
  BY <1>1, <1>2, <1>3, <1>4, <1>5, <1>6, <1>7, <1>8, <1>9, <1>10, <1>11, <1>12, <1>13, <1>14,
     <1>15, <1>16, <1>17, <1>18, <1>19, <1>20, <1>21, <1>22, <1>23, <1>24, <1>25, <1>26, <1>27 DEF Next

\* What locks the sleep form is not undone while nothing was forced.
LEMMA LockedStep == ASSUME TypeOK, OneAtATime, Locked, [Next]_vars PROVE Locked'
<1> USE DEF Forms, Idle, Sent, Failed, NoRev
<1>1. CASE ChangeElsewhere
  BY <1>1
  DEF TypeOK, Locked, OneAtATime, SavingSleep, ChangeElsewhere, Event, Write, stream,
      requests, controls, history
<1>2. CASE Announce
  BY <1>2
  DEF TypeOK, Locked, OneAtATime, SavingSleep, Announce, stream, requests, controls,
      history
<1>3. CASE RestartDaemon
  BY <1>3
  DEF TypeOK, Locked, OneAtATime, SavingSleep, RestartDaemon, Event, controls, history
<1>4. CASE AnswerGet
  BY <1>4
  DEF TypeOK, Locked, OneAtATime, SavingSleep, AnswerGet, daemon, stream, controls,
      history
<1>5. CASE FailGet
  BY <1>5
  DEF TypeOK, Locked, OneAtATime, SavingSleep, FailGet, Event, daemon, stream,
      controls, history
<1>6. CASE AnswerSave
  BY <1>6
  DEF TypeOK, Locked, OneAtATime, SavingSleep, AnswerSave, Write, stream, controls,
      history
<1>7. CASE AnswerSleepSave
  BY <1>7
  DEF TypeOK, Locked, OneAtATime, SavingSleep, AnswerSleepSave, Write, stream,
      controls, history
<1>8. CASE FailSave
  BY <1>8
  DEF TypeOK, Locked, OneAtATime, SavingSleep, FailSave, Event, daemon, stream,
      controls, history
<1>9. CASE Send
  BY <1>9
  DEF TypeOK, Locked, OneAtATime, SavingSleep, Send, daemon, requests, controls,
      history
<1>10. CASE Receive
  BY <1>10
  DEF TypeOK, Locked, OneAtATime, SavingSleep, Dirty, Receive, Load, LoadSleep, daemon
<1>11. CASE Retry
  BY <1>11
  DEF TypeOK, Locked, OneAtATime, SavingSleep, Retry, Load, daemon, stream, controls
<1>12. CASE RetrySleep
  BY <1>12
  DEF TypeOK, Locked, OneAtATime, SavingSleep, RetrySleep, Load, LoadSleep, daemon,
      stream
<1>13. CASE Loaded
  BY <1>13
  DEF TypeOK, Locked, OneAtATime, SavingSleep, Loaded, SavesOver, Healthy, daemon,
      stream
<1>14. CASE NotLoaded
  BY <1>14
  DEF TypeOK, Locked, OneAtATime, SavingSleep, NotLoaded, SavesOver, Offline, daemon,
      stream
<1>15. CASE SleepLoaded
  BY <1>15
  DEF TypeOK, Locked, OneAtATime, SavingSleep, SleepLoaded, daemon, stream, history
<1>16. CASE SleepNotLoaded
  BY <1>16
  DEF TypeOK, Locked, OneAtATime, SavingSleep, SleepNotLoaded, daemon, stream, history
<1>17. CASE Opened
  BY <1>17
  DEF TypeOK, Locked, OneAtATime, SavingSleep, Opened, daemon, stream, requests,
      controls, history
<1>18. CASE Edit
  BY <1>18
  DEF TypeOK, Locked, OneAtATime, SavingSleep, Edit, daemon, stream, requests,
      controls
<1>19. CASE EditSleep
  BY <1>19
  DEF TypeOK, Locked, OneAtATime, SavingSleep, EditSleep, daemon, stream, requests,
      controls, history
<1>20. CASE Save
  BY <1>20
  DEF TypeOK, Locked, OneAtATime, SavingSleep, Save, Event, daemon, stream, controls
<1>21. CASE SaveAnswered
  BY <1>21
  DEF TypeOK, Locked, OneAtATime, SavingSleep, SaveAnswered, Load, daemon, stream,
      controls
<1>22. CASE SaveFailed
  BY <1>22
  DEF TypeOK, Locked, OneAtATime, SavingSleep, SaveFailed, daemon, stream, controls
<1>23. CASE SaveSleep
  BY <1>23
  DEF TypeOK, Locked, OneAtATime, SavingSleep, SaveSleep, Event, daemon, stream,
      history
<1>24. CASE SleepSaveAnswered
  BY <1>24
  DEF TypeOK, Locked, OneAtATime, SavingSleep, SleepSaveAnswered, daemon, stream,
      history
<1>25. CASE Sound
  BY <1>25
  DEF TypeOK, Locked, OneAtATime, SavingSleep, Sound, daemon, stream, controls,
      history
<1>26. CASE SoundDone
  BY <1>26
  DEF TypeOK, Locked, OneAtATime, SavingSleep, SoundDone, daemon, stream, controls,
      history
<1>27. CASE UNCHANGED vars
  BY <1>27
  DEF TypeOK, Locked, OneAtATime, SavingSleep, vars, daemon, stream, requests,
      controls, history
<1> QED
  BY <1>1, <1>2, <1>3, <1>4, <1>5, <1>6, <1>7, <1>8, <1>9, <1>10, <1>11, <1>12, <1>13, <1>14,
     <1>15, <1>16, <1>17, <1>18, <1>19, <1>20, <1>21, <1>22, <1>23, <1>24, <1>25, <1>26, <1>27 DEF Next

\* Documents and revisions only grow, and a save of the sleep schedule meets no load.
LEMMA OrderStep == ASSUME TypeOK, OneAtATime, InOrder, [Next]_vars PROVE InOrder'
<1> USE DEF Forms, Idle, Sent, Failed, NoRev
<1>1. CASE ChangeElsewhere
  BY <1>1
  DEF TypeOK, InOrder, OneAtATime, SavingSleep, ChangeElsewhere, Event, Write, stream,
      requests, controls, history
<1>2. CASE Announce
  BY <1>2
  DEF TypeOK, InOrder, OneAtATime, SavingSleep, Announce, stream, requests, controls,
      history
<1>3. CASE RestartDaemon
  BY <1>3
  DEF TypeOK, InOrder, OneAtATime, SavingSleep, RestartDaemon, Event, controls,
      history
<1>4. CASE AnswerGet
  BY <1>4
  DEF TypeOK, InOrder, OneAtATime, SavingSleep, AnswerGet, daemon, stream, controls,
      history
<1>5. CASE FailGet
  BY <1>5
  DEF TypeOK, InOrder, OneAtATime, SavingSleep, FailGet, Event, daemon, stream,
      controls, history
<1>6. CASE AnswerSave
  BY <1>6
  DEF TypeOK, InOrder, OneAtATime, SavingSleep, AnswerSave, Write, stream, controls,
      history
<1>7. CASE AnswerSleepSave
  BY <1>7
  DEF TypeOK, InOrder, OneAtATime, SavingSleep, AnswerSleepSave, Write, stream,
      controls, history
<1>8. CASE FailSave
  BY <1>8
  DEF TypeOK, InOrder, OneAtATime, SavingSleep, FailSave, Event, daemon, stream,
      controls, history
<1>9. CASE Send
  BY <1>9
  DEF TypeOK, InOrder, OneAtATime, SavingSleep, Send, daemon, requests, controls,
      history
<1>10. CASE Receive
  BY <1>10
  DEF TypeOK, InOrder, OneAtATime, SavingSleep, Receive, Load, LoadSleep, daemon
<1>11. CASE Retry
  BY <1>11
  DEF TypeOK, InOrder, OneAtATime, SavingSleep, Retry, Load, daemon, stream, controls
<1>12. CASE RetrySleep
  BY <1>12
  DEF TypeOK, InOrder, OneAtATime, SavingSleep, RetrySleep, Load, LoadSleep, daemon,
      stream
<1>13. CASE Loaded
  BY <1>13
  DEF TypeOK, InOrder, OneAtATime, SavingSleep, Loaded, SavesOver, Healthy, daemon,
      stream
<1>14. CASE NotLoaded
  BY <1>14
  DEF TypeOK, InOrder, OneAtATime, SavingSleep, NotLoaded, SavesOver, Offline, daemon,
      stream
<1>15. CASE SleepLoaded
  BY <1>15
  DEF TypeOK, InOrder, OneAtATime, SavingSleep, SleepLoaded, daemon, stream, history
<1>16. CASE SleepNotLoaded
  BY <1>16
  DEF TypeOK, InOrder, OneAtATime, SavingSleep, SleepNotLoaded, daemon, stream,
      history
<1>17. CASE Opened
  BY <1>17
  DEF TypeOK, InOrder, OneAtATime, SavingSleep, Opened, daemon, stream, requests,
      controls, history
<1>18. CASE Edit
  BY <1>18
  DEF TypeOK, InOrder, OneAtATime, SavingSleep, Edit, daemon, stream, requests,
      controls
<1>19. CASE EditSleep
  BY <1>19
  DEF TypeOK, InOrder, OneAtATime, SavingSleep, EditSleep, daemon, stream, requests,
      controls, history
<1>20. CASE Save
  BY <1>20
  DEF TypeOK, InOrder, OneAtATime, SavingSleep, Save, Event, daemon, stream, controls
<1>21. CASE SaveAnswered
  BY <1>21
  DEF TypeOK, InOrder, OneAtATime, SavingSleep, SaveAnswered, Load, daemon, stream,
      controls
<1>22. CASE SaveFailed
  BY <1>22
  DEF TypeOK, InOrder, OneAtATime, SavingSleep, SaveFailed, daemon, stream, controls
<1>23. CASE SaveSleep
  BY <1>23
  DEF TypeOK, InOrder, OneAtATime, SavingSleep, SaveSleep, Event, daemon, stream,
      history
<1>24. CASE SleepSaveAnswered
  BY <1>24
  DEF TypeOK, InOrder, OneAtATime, SavingSleep, SleepSaveAnswered, daemon, stream,
      history
<1>25. CASE Sound
  BY <1>25
  DEF TypeOK, InOrder, OneAtATime, SavingSleep, Sound, daemon, stream, controls,
      history
<1>26. CASE SoundDone
  BY <1>26
  DEF TypeOK, InOrder, OneAtATime, SavingSleep, SoundDone, daemon, stream, controls,
      history
<1>27. CASE UNCHANGED vars
  BY <1>27
  DEF TypeOK, InOrder, OneAtATime, SavingSleep, vars, daemon, stream, requests,
      controls, history
<1> QED
  BY <1>1, <1>2, <1>3, <1>4, <1>5, <1>6, <1>7, <1>8, <1>9, <1>10, <1>11, <1>12, <1>13, <1>14,
     <1>15, <1>16, <1>17, <1>18, <1>19, <1>20, <1>21, <1>22, <1>23, <1>24, <1>25, <1>26, <1>27 DEF Next

\* A change of a document is counted after it; a message that is the last of what was counted
\* loads the forms, or passes them by.
LEMMA ToldStep == ASSUME TypeOK, OneAtATime, InOrder, Told, [Next]_vars PROVE Told'
<1> USE DEF Forms, Idle, Sent, Failed, NoRev
<1>1. CASE ChangeElsewhere
  BY <1>1
  DEF TypeOK, Told, Fresh, InOrder, OneAtATime, SavingSleep, ChangeElsewhere, Event,
      Write, stream, requests, controls, history
<1>2. CASE Announce
  BY <1>2
  DEF TypeOK, Told, Fresh, InOrder, OneAtATime, SavingSleep, Announce, stream,
      requests, controls, history
<1>3. CASE RestartDaemon
  BY <1>3
  DEF TypeOK, Told, Fresh, InOrder, OneAtATime, SavingSleep, RestartDaemon, Event,
      controls, history
<1>4. CASE AnswerGet
  BY <1>4
  DEF TypeOK, Told, Fresh, InOrder, OneAtATime, SavingSleep, AnswerGet, daemon,
      stream, controls, history
<1>5. CASE FailGet
  BY <1>5
  DEF TypeOK, Told, Fresh, InOrder, OneAtATime, SavingSleep, FailGet, Event, daemon,
      stream, controls, history
<1>6. CASE AnswerSave
  BY <1>6
  DEF TypeOK, Told, Fresh, InOrder, OneAtATime, SavingSleep, AnswerSave, Write,
      stream, controls, history
<1>7. CASE AnswerSleepSave
  BY <1>7
  DEF TypeOK, Told, Fresh, InOrder, OneAtATime, SavingSleep, AnswerSleepSave, Write,
      stream, controls, history
<1>8. CASE FailSave
  BY <1>8
  DEF TypeOK, Told, Fresh, InOrder, OneAtATime, SavingSleep, FailSave, Event, daemon,
      stream, controls, history
<1>9. CASE Send
  BY <1>9
  DEF TypeOK, Told, Fresh, InOrder, OneAtATime, SavingSleep, Send, daemon, requests,
      controls, history
<1>10. CASE Receive
  BY <1>10
  DEF TypeOK, Told, Fresh, InOrder, OneAtATime, SavingSleep, Dirty, Receive, Load,
      LoadSleep, daemon
<1>11. CASE Retry
  BY <1>11
  DEF TypeOK, Told, Fresh, InOrder, OneAtATime, SavingSleep, Retry, Load, daemon,
      stream, controls
<1>12. CASE RetrySleep
  BY <1>12
  DEF TypeOK, Told, Fresh, InOrder, OneAtATime, SavingSleep, RetrySleep, Load,
      LoadSleep, daemon, stream
<1>13. CASE Loaded
  BY <1>13
  DEF TypeOK, Told, Fresh, InOrder, OneAtATime, SavingSleep, Loaded, SavesOver,
      Healthy, daemon, stream
<1>14. CASE NotLoaded
  BY <1>14
  DEF TypeOK, Told, Fresh, InOrder, OneAtATime, SavingSleep, NotLoaded, SavesOver,
      Offline, daemon, stream
<1>15. CASE SleepLoaded
  BY <1>15
  DEF TypeOK, Told, Fresh, InOrder, OneAtATime, SavingSleep, SleepLoaded, daemon,
      stream, history
<1>16. CASE SleepNotLoaded
  BY <1>16
  DEF TypeOK, Told, Fresh, InOrder, OneAtATime, SavingSleep, SleepNotLoaded, daemon,
      stream, history
<1>17. CASE Opened
  BY <1>17
  DEF TypeOK, Told, Fresh, InOrder, OneAtATime, SavingSleep, Opened, daemon, stream,
      requests, controls, history
<1>18. CASE Edit
  BY <1>18
  DEF TypeOK, Told, Fresh, InOrder, OneAtATime, SavingSleep, Edit, daemon, stream,
      requests, controls
<1>19. CASE EditSleep
  BY <1>19
  DEF TypeOK, Told, Fresh, InOrder, OneAtATime, SavingSleep, EditSleep, daemon,
      stream, requests, controls, history
<1>20. CASE Save
  BY <1>20
  DEF TypeOK, Told, Fresh, InOrder, OneAtATime, SavingSleep, Save, Event, daemon,
      stream, controls
<1>21. CASE SaveAnswered
  BY <1>21
  DEF TypeOK, Told, Fresh, InOrder, OneAtATime, SavingSleep, SaveAnswered, Load,
      daemon, stream, controls
<1>22. CASE SaveFailed
  BY <1>22
  DEF TypeOK, Told, Fresh, InOrder, OneAtATime, SavingSleep, SaveFailed, daemon,
      stream, controls
<1>23. CASE SaveSleep
  BY <1>23
  DEF TypeOK, Told, Fresh, InOrder, OneAtATime, SavingSleep, SaveSleep, Event, daemon,
      stream, history
<1>24. CASE SleepSaveAnswered
  BY <1>24
  DEF TypeOK, Told, Fresh, InOrder, OneAtATime, SavingSleep, SleepSaveAnswered,
      daemon, stream, history
<1>25. CASE Sound
  BY <1>25
  DEF TypeOK, Told, Fresh, InOrder, OneAtATime, SavingSleep, Sound, daemon, stream,
      controls, history
<1>26. CASE SoundDone
  BY <1>26
  DEF TypeOK, Told, Fresh, InOrder, OneAtATime, SavingSleep, SoundDone, daemon,
      stream, controls, history
<1>27. CASE UNCHANGED vars
  BY <1>27
  DEF TypeOK, Told, Fresh, InOrder, OneAtATime, SavingSleep, vars, daemon, stream,
      requests, controls, history
<1> QED
  BY <1>1, <1>2, <1>3, <1>4, <1>5, <1>6, <1>7, <1>8, <1>9, <1>10, <1>11, <1>12, <1>13, <1>14,
     <1>15, <1>16, <1>17, <1>18, <1>19, <1>20, <1>21, <1>22, <1>23, <1>24, <1>25, <1>26, <1>27 DEF Next

\* Nothing but a load and a sound takes edits from the settings.
LEMMA OnlyLoadsTake ==
  ASSUME TypeOK, Next, ~Loaded, ~SoundDone,
         form["settings"].edits # "none"
  PROVE  form'["settings"].edits # "none"
<1> USE DEF Forms
<1>1. CASE Receive
  BY <1>1 DEF TypeOK, Receive, LoadSleep
<1>2. CASE RetrySleep
  BY <1>2 DEF TypeOK, RetrySleep, LoadSleep
<1>3. CASE NotLoaded
  BY <1>3 DEF TypeOK, NotLoaded
<1>4. CASE SleepNotLoaded
  BY <1>4 DEF TypeOK, SleepNotLoaded
<1>5. CASE Edit
  BY <1>5 DEF TypeOK, Edit
<1>6. CASE EditSleep
  BY <1>6 DEF TypeOK, EditSleep
<1>7. CASE Save
  BY <1>7 DEF TypeOK, Save
<1>8. CASE SaveFailed
  BY <1>8 DEF TypeOK, SaveFailed
<1>9. CASE SaveSleep
  BY <1>9 DEF TypeOK, SaveSleep
<1>10. CASE SleepLoaded
  BY <1>10 DEF TypeOK, SleepLoaded
<1>11. CASE SleepSaveAnswered
  BY <1>11 DEF TypeOK, SleepSaveAnswered
<1>12. CASE ChangeElsewhere \/ Announce \/ RestartDaemon \/ AnswerGet \/ FailGet \/
         AnswerSave \/ AnswerSleepSave \/ FailSave \/ Send \/ Retry \/ Opened \/
         SaveAnswered \/ Sound
  BY <1>12
  DEF ChangeElsewhere, Announce, RestartDaemon, AnswerGet, FailGet, AnswerSave,
      AnswerSleepSave, FailSave, Send, Retry, Opened, SaveAnswered, Sound
<1> QED
  BY <1>1, <1>2, <1>3, <1>4, <1>5, <1>6, <1>7, <1>8, <1>9, <1>10, <1>11, <1>12 DEF Next

\* Nothing but a load and an answered save takes edits from the sleep form.
LEMMA OnlyAnswersTake ==
  ASSUME TypeOK, Next, ~SleepLoaded, ~SleepSaveAnswered,
         form["sleep"].edits # "none"
  PROVE  form'["sleep"].edits # "none"
<1> USE DEF Forms
<1>1. CASE Receive
  BY <1>1 DEF TypeOK, Receive, LoadSleep
<1>2. CASE RetrySleep
  BY <1>2 DEF TypeOK, RetrySleep, LoadSleep
<1>3. CASE NotLoaded
  BY <1>3 DEF TypeOK, NotLoaded
<1>4. CASE SleepNotLoaded
  BY <1>4 DEF TypeOK, SleepNotLoaded
<1>5. CASE Edit
  BY <1>5 DEF TypeOK, Edit
<1>6. CASE EditSleep
  BY <1>6 DEF TypeOK, EditSleep
<1>7. CASE Save
  BY <1>7 DEF TypeOK, Save
<1>8. CASE SaveFailed
  BY <1>8 DEF TypeOK, SaveFailed
<1>9. CASE SaveSleep
  BY <1>9 DEF TypeOK, SaveSleep
<1>10. CASE Loaded
  BY <1>10 DEF TypeOK, Loaded
<1>11. CASE SoundDone
  BY <1>11 DEF TypeOK, SoundDone
<1>12. CASE ChangeElsewhere \/ Announce \/ RestartDaemon \/ AnswerGet \/ FailGet \/
         AnswerSave \/ AnswerSleepSave \/ FailSave \/ Send \/ Retry \/ Opened \/
         SaveAnswered \/ Sound
  BY <1>12
  DEF ChangeElsewhere, Announce, RestartDaemon, AnswerGet, FailGet, AnswerSave,
      AnswerSleepSave, FailSave, Send, Retry, Opened, SaveAnswered, Sound
<1> QED
  BY <1>1, <1>2, <1>3, <1>4, <1>5, <1>6, <1>7, <1>8, <1>9, <1>10, <1>11, <1>12 DEF Next

-----------------------------------------------------------------------------
(* The theorems *)

\* The invariant holds.
LEMMA IInvHolds == Spec => []IInv
<1>1. Init => IInv
  <2> SUFFICES ASSUME Init PROVE IInv
    OBVIOUS
  <2> USE EventsAssumption DEF Forms, Idle, Sent, Failed, NoRev
  <2>1. TypeOK
    BY DEF Init, TypeOK
  <2>2. EditsKept /\ OneAtATime /\ Locked
    BY DEF Init, EditsKept, OneAtATime, Locked, SavingSleep
  <2>3. InOrder /\ Told
    BY DEF Init, InOrder, Told
  <2> QED
    BY <2>1, <2>2, <2>3 DEF IInv
<1>2. IInv /\ [Next]_vars => IInv'
  BY TypeStep, KeptStep, OneStep, LockedStep, OrderStep, ToldStep DEF IInv
<1> QED
  BY <1>1, <1>2, PTL DEF Spec

\* Every variable of the page keeps its type.
THEOREM TypeCorrect == Spec => []TypeOK
<1>1. IInv => TypeOK
  BY DEF IInv
<1> QED
  BY <1>1, IInvHolds, PTL

\* "Instant Config Sync": a form without edits that has seen the daemon's revision shows the
\* daemon's document, with the exceptions of ShownIsCurrent.
THEOREM RestIsCurrent == Spec => []ShownIsCurrent
<1>1. IInv => ShownIsCurrent
  <2> SUFFICES ASSUME IInv, NEW f \in Forms,
                      AtRest(f), form[f].ready, f \notin missed, ~restarted
               PROVE  form[f].base = doc[f]
    BY DEF ShownIsCurrent
  <2>1. ~(rev + unannounced > last)
    BY DEF AtRest, IInv, TypeOK
  <2> QED
    BY <2>1 DEF AtRest, IInv, Told, Fresh
<1> QED
  BY <1>1, IInvHolds, PTL

\* Edits of the settings that were begun while nothing was under way are there until they are
\* sent, unless a sound is uploaded or deleted.
THEOREM EditsStay == Spec => SettingsEditsSurvive
<1>1. IInv /\ [Next]_vars => [Loses("settings") => early \/ SoundDone]_vars
  <2> SUFFICES ASSUME IInv, Next, Loses("settings"), ~SoundDone PROVE early
    BY DEF vars
  <2>1. form["settings"].edits = "unsent" /\ form'["settings"].edits = "none"
    BY DEF Loses
  <2>2. EditsKept
    BY DEF IInv
  <2>3. Loaded
    BY <2>1, OnlyLoadsTake DEF IInv
  <2> QED
    BY <2>1, <2>2, <2>3 DEF EditsKept, Loaded, Idle
<1> QED
  BY <1>1, IInvHolds, PTL DEF Spec, SettingsEditsSurvive

\* The sleep schedule keeps its edits as long as the settings have always loaded.
THEOREM SleepEditsStay == Spec => SleepEditsSurvive
<1>1. IInv /\ [Next]_vars => [Loses("sleep") => troubled]_vars
  <2> SUFFICES ASSUME IInv, Next, Loses("sleep"), ~troubled PROVE FALSE
    BY DEF vars
  <2>1. form["sleep"].edits = "unsent" /\ form'["sleep"].edits = "none"
    BY DEF Loses
  <2>2. SleepLoaded \/ SleepSaveAnswered
    BY <2>1, OnlyAnswersTake DEF IInv
  <2>3. OneAtATime /\ Locked
    BY DEF IInv
  <2>4. ~SleepLoaded
    BY <2>1, <2>3 DEF OneAtATime, Locked, SleepLoaded, Idle
  <2>5. ~SleepSaveAnswered
    BY <2>1, <2>3 DEF Locked, SleepSaveAnswered, SavingSleep, Idle, Sent, Failed
  <2> QED
    BY <2>2, <2>4, <2>5
<1> QED
  BY <1>1, IInvHolds, PTL DEF Spec, SleepEditsSurvive
=============================================================================
