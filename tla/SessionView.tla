----------------------------- MODULE SessionView -----------------------------
(***************************************************************************)
(* The dashboard's view of a session.  Statuses reach the page by a stream *)
(* and by requests that it shares among everything that asks at one time;  *)
(* so an answer may be older than what is shown.  While the page starts a  *)
(* session it shows none of them.  It starts and stops sessions and polls  *)
(* until a status confirms that; it ticks tasks off by sending all of them;*)
(* it recaps a session when it sees it end; when a refresh fails it        *)
(* disables its controls until the user has the daemon checked again.      *)
(***************************************************************************)
EXTENDS Integers

CONSTANTS
  Tasks,                     \* of a session
  Posts,                     \* bound: ticks under way at one time
  Attempts,                  \* polls of waitForStatusConfirmation
  MaxEvents                  \* bound: of clicks, changes by others, cuts and failed calls together

ASSUME ConstantsAssumption == Attempts \in Nat \ {0} /\ MaxEvents \in Nat

Jobs == {"start", "stop"}

VARIABLES
  session,                   \* the daemon's session, 0 for none
  latest,                    \* the last one that was started
  done, pending,             \* its ticked tasks, and whether an unlock was requested
  now,                       \* changes of the status (history)
  up, hidden, mail,          \* the stream, the page, a status on its way
  get, refreshes,            \* the request for the status; refreshStatus waiting for it
  job, tries,                \* handlers that start and stop a session, and their polls
  post,                      \* ticks on their way
  active, view,              \* lastActiveState; sessionSnapshot, whose tasks are those shown
  recapped, seen, overtaken, \* sessions; the status shown; an older one was shown (history)
  banner, checking,          \* the page is off line; it is being checked again
  controls, frozen,          \* dataset.reliabilityDisabled of the buttons; the boxes are disabled
  events

daemon == <<session, latest, done, pending, now>>
stream == <<up, hidden, mail>>
request == <<get, refreshes>>
jobs == <<job, tries>>
shown == <<active, view, recapped, seen, overtaken>>
health == <<banner, checking, controls, frozen>>
vars == <<daemon, stream, request, jobs, post, shown, health, events>>

Statuses == [session : Nat, done : SUBSET Tasks, pending : BOOLEAN, at : Nat]
Status == [session |-> session, done |-> done, pending |-> pending, at |-> now]
NoStatus == [session |-> 0, done |-> {}, pending |-> FALSE, at |-> -1]
NoPost == [state |-> "none", task |-> "none", sent |-> {}, fresh |-> FALSE]

\* What the module's variables range over.
TypeOK ==
  /\ session \in {0, latest} /\ latest \in Nat /\ done \subseteq Tasks /\ pending \in BOOLEAN
  /\ now \in Nat
  /\ up \in BOOLEAN /\ hidden \in BOOLEAN /\ mail \in Statuses \cup {NoStatus}
  /\ get \in [state : {"idle", "sent", "answered", "failed"}, status : Statuses \cup {NoStatus}]
  /\ refreshes \in 0..2
  /\ job \in [Jobs -> {"idle", "sent", "accepted", "refused", "asking", "pausing"}]
  /\ tries \in [Jobs -> 0..Attempts]
  /\ post \in [Posts -> [state : {"none", "sent", "ok", "failed"}, task : Tasks \cup {"none"},
                         sent : SUBSET Tasks, fresh : BOOLEAN]]
  /\ active \in BOOLEAN /\ view \in [session : Nat, done : SUBSET Tasks]
  /\ recapped \subseteq 1..latest /\ seen \in Nat /\ overtaken \in BOOLEAN
  /\ banner \in BOOLEAN /\ checking \in BOOLEAN
  /\ controls \in {"on", "forced", "already"} /\ frozen \in BOOLEAN
  /\ events \in 0..MaxEvents

\* The page has loaded and shown that there is no session; it is about to open the stream.
Init ==
  /\ session = 0 /\ latest = 0 /\ done = {} /\ pending = FALSE /\ now = 0
  /\ up = FALSE /\ hidden = FALSE /\ mail = NoStatus
  /\ get = [state |-> "idle", status |-> NoStatus] /\ refreshes = 0
  /\ job = [j \in Jobs |-> "idle"] /\ tries = [j \in Jobs |-> 0]
  /\ post = [p \in Posts |-> NoPost]
  /\ active = FALSE /\ view = [session |-> 0, done |-> {}]
  /\ recapped = {} /\ seen = 0 /\ overtaken = FALSE
  /\ banner = FALSE /\ checking = FALSE /\ controls = "on" /\ frozen = FALSE
  /\ events = 0

Event == events < MaxEvents /\ events' = events + 1

-----------------------------------------------------------------------------
(* The daemon *)

\* cmd_start_session: a new session, or a longer one.
Begin ==
  /\ IF session = 0
     THEN session' = latest + 1 /\ latest' = latest + 1 /\ done' = {} /\ pending' = FALSE
     ELSE UNCHANGED <<session, latest, done, pending>>
  /\ now' = now + 1

Unlock == pending' = TRUE /\ now' = now + 1 /\ UNCHANGED <<session, latest, done>>

\* Another surface starts a session, asks to unlock it or ticks a task; or a session ends.
Elsewhere ==
  /\ Event
  /\ \/ session = 0 /\ Begin
     \/ session # 0 /\ ~pending /\ Unlock
     \/ /\ session # 0 /\ \E t \in Tasks \ done : done' = done \cup {t}
        /\ now' = now + 1 /\ UNCHANGED <<session, latest, pending>>
     \/ /\ session # 0 /\ session' = 0 /\ done' = {} /\ pending' = FALSE
        /\ now' = now + 1 /\ UNCHANGED latest
  /\ UNCHANGED <<stream, request, jobs, post, shown, health>>

\* The daemon takes the POST of a handler: it is done, or refused, or done and its answer is
\* lost.  A start may be a schedule, which does not start anything yet; to stop what is over
\* or about to be unlocked is done by doing nothing.
Handle(j) ==
  /\ job[j] = "sent"
  /\ \/ /\ \/ j = "start" /\ (Begin \/ UNCHANGED daemon)
           \/ j = "stop" /\ IF session # 0 /\ ~pending THEN Unlock ELSE UNCHANGED daemon
        /\ job' = [job EXCEPT ![j] = "accepted"] /\ UNCHANGED events
     \/ /\ Event /\ IF j = "start" THEN Begin ELSE session # 0 /\ ~pending /\ Unlock
        /\ job' = [job EXCEPT ![j] = "refused"]
     \/ /\ job' = [job EXCEPT ![j] = "refused"]
        /\ UNCHANGED <<daemon, events>>
  /\ UNCHANGED <<stream, request, tries, post, shown, health>>

\* cmd_set_intent: the tasks of whatever session there is are those that were sent.
Apply(p) ==
  /\ post[p].state = "sent"
  /\ \/ /\ session # 0 /\ done' = post[p].sent /\ now' = now + 1
        /\ post' = [post EXCEPT ![p].state = "ok"] /\ UNCHANGED events
     \/ /\ session # 0 /\ Event /\ done' = post[p].sent /\ now' = now + 1
        /\ post' = [post EXCEPT ![p].state = "failed"]
     \/ /\ session = 0 \/ events < MaxEvents
        /\ events' = IF session = 0 THEN events ELSE events + 1
        /\ post' = [post EXCEPT ![p].state = "failed"] /\ UNCHANGED <<done, now>>
  /\ UNCHANGED <<session, latest, pending, stream, request, jobs, shown, health>>

AnswerGet ==
  /\ get.state = "sent"
  /\ get' = [state |-> "answered", status |-> Status]
  /\ UNCHANGED <<daemon, stream, refreshes, jobs, post, shown, health, events>>

FailGet ==
  /\ get.state \in {"sent", "answered"} /\ Event
  /\ get' = [state |-> "failed", status |-> NoStatus]
  /\ UNCHANGED <<daemon, stream, refreshes, jobs, post, shown, health>>

\* The stream repeats the status every few seconds and sends a new one at once.
Send ==
  /\ up /\ mail = NoStatus
  /\ mail' = Status
  /\ UNCHANGED <<daemon, up, hidden, request, jobs, post, shown, health, events>>

-----------------------------------------------------------------------------
(* What the page shows *)

Starting == job["start"] # "idle"

\* setActiveUI: the boxes of an active session are made anew, of its own tasks.
Render(s) ==
  IF Starting THEN UNCHANGED <<shown, post, frozen>>
  ELSE /\ active' = (s.session # 0)
       /\ recapped' = IF active /\ ~active' THEN recapped \cup {view.session} ELSE recapped
       /\ seen' = s.at /\ overtaken' = (overtaken \/ s.at < seen)
       /\ IF active'
          THEN /\ view' = [session |-> s.session, done |-> s.done]
               /\ post' = [p \in Posts |-> [post[p] EXCEPT !.fresh = FALSE]]
               /\ frozen' = FALSE
          ELSE UNCHANGED <<view, post, frozen>>

\* eventSource.onmessage.
Deliver ==
  /\ mail # NoStatus /\ mail' = NoStatus
  /\ Render(mail)
  /\ UNCHANGED <<daemon, up, hidden, request, jobs, banner, checking, controls, events>>

\* Mutant: a stream that is lost is taken for an idle daemon.
CutToIdle ==
  /\ up /\ Event
  /\ up' = FALSE /\ mail' = NoStatus
  /\ Render([session |-> 0, done |-> {}, pending |-> FALSE, at |-> seen])
  /\ UNCHANGED <<daemon, hidden, request, jobs, banner, checking, controls>>

\* eventSource.onerror.
Cut ==
  /\ up /\ Event
  /\ up' = FALSE /\ mail' = NoStatus
  /\ UNCHANGED <<daemon, hidden, request, jobs, post, shown, health>>

\* connectSSE, after three seconds.
Reconnect ==
  /\ ~up /\ ~hidden
  /\ up' = TRUE
  /\ UNCHANGED <<daemon, hidden, mail, request, jobs, post, shown, health, events>>

\* api: a status that is asked for already is shared.
Ask == get' = IF get.state = "idle" THEN [state |-> "sent", status |-> NoStatus] ELSE get

Refresh == Ask /\ refreshes' = IF refreshes = 0 THEN 1 ELSE 2

\* visibilitychange.
Hide ==
  /\ ~hidden /\ Event
  /\ hidden' = TRUE /\ up' = FALSE /\ mail' = NoStatus
  /\ UNCHANGED <<daemon, request, jobs, post, shown, health>>

Show ==
  /\ hidden
  /\ hidden' = FALSE /\ up' = TRUE
  /\ Refresh
  /\ UNCHANGED <<daemon, mail, jobs, post, shown, health, events>>

\* scheduleCountdownRefresh: the countdown of an active session is over.
CountdownOver ==
  /\ active /\ Event
  /\ Refresh
  /\ UNCHANGED <<daemon, stream, jobs, post, shown, health>>

-----------------------------------------------------------------------------
(* Answers to status requests *)

\* sessionStatusMatchesPayload, stopStatusConfirmed.  Whether the session is of the mode and
\* type that were asked for is left open.
Met(s) ==
  {ms \in SUBSET {j \in Jobs : job[j] = "asking"} :
     /\ "start" \in ms => s.session # 0
     /\ "stop" \in ms <=> job["stop"] = "asking" /\ (s.session = 0 \/ s.pending)}

\* Mutant: one poll too many.
GoOnOnce(ms) ==
  job' = [j \in Jobs |-> IF job[j] # "asking" THEN job[j]
                         ELSE IF j \in ms \/ tries[j] > Attempts THEN "idle" ELSE "pausing"]

\* waitForStatusConfirmation: polls that were not met go on, up to their number.
GoOn(ms) ==
  job' = [j \in Jobs |-> IF job[j] # "asking" THEN job[j]
                         ELSE IF j \in ms \/ tries[j] >= Attempts THEN "idle" ELSE "pausing"]

\* The request is over; the handler of a start that is, too, refreshes the status.
Over ==
  IF Starting /\ job'["start"] = "idle"
  THEN get' = [state |-> "sent", status |-> NoStatus] /\ refreshes' = 1
  ELSE get' = [state |-> "idle", status |-> NoStatus] /\ refreshes' = 0

\* Who waited goes on in the same turn, so while it starts a session the page does not show
\* the status that confirms it.
GotStatus ==
  /\ get.state = "answered"
  /\ \E ms \in Met(get.status) :
       /\ GoOn(ms) /\ Over
       /\ IF refreshes > 0 \/ "stop" \in ms THEN Render(get.status)
                                            ELSE UNCHANGED <<shown, post, frozen>>
  /\ UNCHANGED <<daemon, stream, tries, banner, checking, controls, events>>

\* setReliabilityState with a problem, once or more often: what is disabled is marked.
Offline(twice) ==
  /\ banner' = TRUE /\ frozen' = TRUE
  /\ controls' = IF controls = "on" /\ ~twice THEN "forced" ELSE "already"

\* setReliabilityState without one: what was forced comes back.
Healthy ==
  /\ banner' = FALSE
  /\ controls' = IF controls = "forced" THEN "on" ELSE controls
  /\ frozen' = (frozen /\ controls = "already")

GotNoStatus ==
  /\ get.state = "failed"
  /\ GoOn({}) /\ Over
  /\ IF refreshes > 0 THEN Offline(refreshes > 1) ELSE UNCHANGED <<banner, controls, frozen>>
  /\ UNCHANGED <<daemon, stream, tries, post, shown, checking, events>>

\* daemonHealthAction, checkVersionCompatibility.
Check ==
  /\ banner /\ ~checking
  /\ checking' = TRUE
  /\ UNCHANGED <<daemon, stream, request, jobs, post, shown, banner, controls, frozen, events>>

Checked ==
  /\ checking /\ checking' = FALSE
  /\ \/ Healthy /\ Refresh /\ UNCHANGED events
     \/ Offline(FALSE) /\ Event /\ UNCHANGED request
  /\ UNCHANGED <<daemon, stream, jobs, post, shown>>

-----------------------------------------------------------------------------
(* Starting and stopping sessions, ticking tasks *)

\* btnConfirmIntent, btnConfirmStop.
Click(j) ==
  /\ job[j] = "idle" /\ controls = "on" /\ Event
  /\ j = "stop" => active
  /\ job' = [job EXCEPT ![j] = "sent"]
  /\ UNCHANGED <<daemon, stream, request, tries, post, shown, health>>

\* Mutant: the page takes a refused start for one that goes on.
AnsweredUnlessRefused(j) ==
  /\ job[j] = "accepted"
  /\ job' = [job EXCEPT ![j] = "asking"] /\ tries' = [tries EXCEPT ![j] = 1]
  /\ Ask /\ UNCHANGED refreshes
  /\ UNCHANGED <<daemon, stream, post, shown, health, events>>

\* What is accepted is polled for; a start that is refused is over and refreshes the status.
Answered(j) ==
  /\ \/ /\ job[j] = "accepted"
        /\ job' = [job EXCEPT ![j] = "asking"] /\ tries' = [tries EXCEPT ![j] = 1]
        /\ Ask /\ UNCHANGED refreshes
     \/ /\ job[j] = "refused"
        /\ job' = [job EXCEPT ![j] = "idle"] /\ UNCHANGED tries
        /\ IF j = "start" THEN Refresh ELSE UNCHANGED request
  /\ UNCHANGED <<daemon, stream, post, shown, health, events>>

\* The delay between two polls.
AskAgain(j) ==
  /\ job[j] = "pausing"
  /\ job' = [job EXCEPT ![j] = "asking"] /\ tries' = [tries EXCEPT ![j] = @ + 1]
  /\ Ask
  /\ UNCHANGED <<daemon, stream, refreshes, post, shown, health, events>>

\* renderIntentTasks: a box is disabled while its task is sent, unless it is made anew.
Tick(p, t) ==
  /\ active /\ ~frozen /\ Event
  /\ post[p] = NoPost /\ \A q \in Posts : ~(post[q].fresh /\ post[q].task = t)
  /\ view' = [view EXCEPT !.done = IF t \in @ THEN @ \ {t} ELSE @ \cup {t}]
  /\ post' = [post EXCEPT ![p] = [state |-> "sent", task |-> t, sent |-> view'.done, fresh |-> TRUE]]
  /\ UNCHANGED <<daemon, stream, request, jobs, active, recapped, seen, overtaken, health>>

\* What failed is taken back, in the boxes it was ticked in.
Ticked(p) ==
  /\ post[p].state \in {"ok", "failed"}
  /\ LET t == post[p].task IN
     view' = [view EXCEPT !.done = IF post[p].state = "ok" \/ ~post[p].fresh THEN @
                                   ELSE IF t \in post[p].sent THEN @ \ {t} ELSE @ \cup {t}]
  /\ post' = [post EXCEPT ![p] = NoPost]
  /\ UNCHANGED <<daemon, stream, request, jobs, active, recapped, seen, overtaken, health, events>>

-----------------------------------------------------------------------------
Next ==
  \/ Elsewhere \/ AnswerGet \/ FailGet \/ Send
  \/ Deliver \/ Cut \/ Reconnect \/ Hide \/ Show \/ CountdownOver
  \/ GotStatus \/ GotNoStatus \/ Check \/ Checked
  \/ \E j \in Jobs : Handle(j) \/ Click(j) \/ Answered(j) \/ AskAgain(j)
  \/ \E p \in Posts : Apply(p) \/ Ticked(p) \/ \E t \in Tasks : Tick(p, t)

\* The daemon answers, or a call times out; what has arrived is handled; timers go off; the
\* stream sends the status again and again.
Fairness ==
  /\ WF_vars(AnswerGet) /\ WF_vars(GotStatus) /\ WF_vars(GotNoStatus)
  /\ WF_vars(Send) /\ WF_vars(Deliver) /\ WF_vars(Reconnect)
  /\ \A j \in Jobs : WF_vars(Handle(j)) /\ WF_vars(Answered(j)) /\ WF_vars(AskAgain(j))
  /\ \A p \in Posts : WF_vars(Apply(p)) /\ WF_vars(Ticked(p))

Spec == Init /\ [][Next]_vars /\ Fairness

-----------------------------------------------------------------------------
(* Properties *)

\* "Session just ended": a recap is of a session that is over, and of each but once, whatever
\* else was started in between.  The code does not keep that when an answer that was read
\* before is handled after the stream's next message.
RecapTrue ==
  [][active /\ ~active' => \/ session # view.session /\ view.session \notin recapped
                           \/ overtaken']_vars

\* In the end the page shows the daemon's session and its ticked tasks, no handler hangs, and
\* a session whose end was seen has been recapped: whatever was lost, refused or late.
Follows ==
  <>[](\/ hidden
       \/ /\ \A j \in Jobs : job[j] = "idle"
          /\ active = (session # 0)
          /\ active => view = [session |-> session, done |-> done]
          /\ view.session \notin {session, 0} => view.session \in recapped)
=============================================================================
