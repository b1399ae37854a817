-------------------------- MODULE SessionView_proofs -------------------------
(***************************************************************************)
(* Proofs about SessionView, for all tasks, numbers of polls and bounds:   *)
(* types, and that a recap is of a session that is over.                   *)
(***************************************************************************)
EXTENDS SessionView, TLAPS

-----------------------------------------------------------------------------
(* Types *)

\* The daemon's part of the type invariant, and the page's.
DaemonOK ==
  /\ session \in {0, latest} /\ latest \in Nat /\ done \subseteq Tasks /\ pending \in BOOLEAN
  /\ now \in Nat
StreamOK == up \in BOOLEAN /\ hidden \in BOOLEAN /\ mail \in Statuses \cup {NoStatus}
RequestOK ==
  /\ get \in [state : {"idle", "sent", "answered", "failed"}, status : Statuses \cup {NoStatus}]
  /\ refreshes \in 0..2
  /\ get.state = "answered" => get.status \in Statuses
JobsOK ==
  /\ job \in [Jobs -> {"idle", "sent", "accepted", "refused", "asking", "pausing"}]
  /\ tries \in [Jobs -> 0..Attempts]
  /\ \A j \in Jobs : job[j] = "pausing" => tries[j] < Attempts
PostOK ==
  /\ post \in [Posts -> [state : {"none", "sent", "ok", "failed"}, task : Tasks \cup {"none"},
                         sent : SUBSET Tasks, fresh : BOOLEAN]]
  /\ \A p \in Posts : post[p].state # "none" => post[p].task \in Tasks
ShownOK ==
  /\ active \in BOOLEAN /\ view \in [session : Nat, done : SUBSET Tasks]
  /\ seen \in Nat /\ overtaken \in BOOLEAN
HealthOK ==
  /\ banner \in BOOLEAN /\ checking \in BOOLEAN
  /\ controls \in {"on", "forced", "already"} /\ frozen \in BOOLEAN
EventsOK == events \in 0..MaxEvents

Typed == DaemonOK /\ StreamOK /\ RequestOK /\ JobsOK /\ PostOK /\ ShownOK /\ HealthOK /\ EventsOK

\* The page starts well typed.
LEMMA TypedInit == ASSUME Init PROVE Typed
<1>1. DaemonOK /\ ShownOK /\ HealthOK
  BY DEF Init, DaemonOK, ShownOK, HealthOK
<1>2. StreamOK /\ RequestOK
  <2>1. StreamOK
    BY DEF Init, StreamOK
  <2>2. get = [state |-> "idle", status |-> NoStatus] /\ refreshes = 0
    BY DEF Init
  <2>3. get.state = "idle"
    BY <2>2
  <2> QED
    BY <2>1, <2>2, <2>3 DEF RequestOK
<1>3. JobsOK /\ EventsOK
  BY ConstantsAssumption DEF Init, JobsOK, EventsOK, Jobs
<1>4. PostOK
  BY DEF Init, PostOK, NoPost
<1> QED
  BY <1>1, <1>2, <1>3, <1>4 DEF Typed

\* A status of the daemon is one.
LEMMA StatusType == ASSUME DaemonOK PROVE Status \in Statuses
BY DEF DaemonOK, Status, Statuses

\* Showing a status keeps the types.
LEMMA RenderType ==
  ASSUME NEW s \in Statuses, PostOK, ShownOK, HealthOK, Render(s)
  PROVE  PostOK' /\ ShownOK' /\ frozen' \in BOOLEAN
<1>1. CASE Starting
  BY <1>1 DEF Render, PostOK, ShownOK, HealthOK, shown
<1>2. CASE ~Starting
  <2>1. ShownOK'
    BY <1>2 DEF Render, ShownOK, Statuses
  <2>2. frozen' \in BOOLEAN
    BY <1>2 DEF Render, HealthOK
  <2>3. CASE ~active'
    BY <1>2, <2>1, <2>2, <2>3 DEF Render, PostOK
  <2>4. CASE active'
    <3>1. post' = [p \in Posts |-> [post[p] EXCEPT !.fresh = FALSE]]
      BY <1>2, <2>4 DEF Render
    <3>2. \A p \in Posts : [post[p] EXCEPT !.fresh = FALSE] \in
             [state : {"none", "sent", "ok", "failed"}, task : Tasks \cup {"none"},
              sent : SUBSET Tasks, fresh : BOOLEAN]
      BY DEF PostOK
    <3> QED
      BY <2>1, <2>2, <3>1, <3>2 DEF PostOK
  <2> QED
    BY <2>3, <2>4
<1> QED
  BY <1>1, <1>2

\* A request that is made or shared.
LEMMA AskType ==
  ASSUME RequestOK, Ask, refreshes' \in 0..2
  PROVE  RequestOK'
<1>1. [state |-> "sent", status |-> NoStatus] \in
        [state : {"idle", "sent", "answered", "failed"}, status : Statuses \cup {NoStatus}]
  OBVIOUS
<1>2. CASE get.state = "idle"
  BY <1>1, <1>2 DEF RequestOK, Ask
<1>3. CASE get.state # "idle"
  BY <1>3 DEF RequestOK, Ask
<1> QED
  BY <1>2, <1>3

\* What changes at the daemon.
LEMMA DaemonType ==
  ASSUME DaemonOK, Begin \/ Unlock \/ UNCHANGED daemon
  PROVE  DaemonOK'
<1>1. CASE Begin
  <2>1. now' \in Nat
    BY <1>1 DEF DaemonOK, Begin
  <2>2. CASE session = 0
    <3>1. session' = latest + 1 /\ latest' = latest + 1 /\ done' = {} /\ pending' = FALSE
      BY <1>1, <2>2, Zenon DEF Begin
    <3>2. latest' \in Nat /\ session' = latest'
      BY <3>1 DEF DaemonOK
    <3>3. pending' \in BOOLEAN /\ done' \subseteq Tasks
      BY <3>1
    <3> QED
      BY <2>1, <3>2, <3>3 DEF DaemonOK
  <2>3. CASE session # 0
    <3>1. session' = session /\ latest' = latest /\ done' = done /\ pending' = pending
      BY <1>1, <2>3 DEF Begin
    <3> QED
      BY <2>1, <3>1, Zenon DEF DaemonOK
  <2> QED
    BY <2>2, <2>3
<1>2. CASE Unlock
  BY <1>2 DEF DaemonOK, Unlock
<1>3. CASE UNCHANGED daemon
  BY <1>3 DEF DaemonOK, daemon
<1> QED
  BY <1>1, <1>2, <1>3

\* What a step leaves alone keeps its type.
LEMMA Same ==
  ASSUME Typed
  PROVE  /\ UNCHANGED daemon => DaemonOK'
         /\ UNCHANGED stream => StreamOK'
         /\ UNCHANGED request => RequestOK'
         /\ UNCHANGED jobs => JobsOK'
         /\ UNCHANGED post => PostOK'
         /\ UNCHANGED shown => ShownOK'
         /\ UNCHANGED health => HealthOK'
         /\ UNCHANGED events => EventsOK'
<1>1. UNCHANGED daemon => DaemonOK'
  BY Zenon DEF Typed, DaemonOK, daemon
<1>2. UNCHANGED stream => StreamOK'
  BY Zenon DEF Typed, StreamOK, stream
<1>3. UNCHANGED request => RequestOK'
  BY Zenon DEF Typed, RequestOK, request
<1>4. UNCHANGED jobs => JobsOK'
  BY Zenon DEF Typed, JobsOK, jobs
<1>5. UNCHANGED post => PostOK'
  BY Zenon DEF Typed, PostOK
<1>6. UNCHANGED shown => ShownOK'
  BY Zenon DEF Typed, ShownOK, shown
<1>7. UNCHANGED health => HealthOK'
  BY Zenon DEF Typed, HealthOK, health
<1>8. UNCHANGED events => EventsOK'
  BY Zenon DEF Typed, EventsOK
<1> QED
  BY <1>1, <1>2, <1>3, <1>4, <1>5, <1>6, <1>7, <1>8, Zenon

\* Events are counted up to their bound.
LEMMA EventType == ASSUME EventsOK, Event \/ UNCHANGED events PROVE EventsOK'
BY ConstantsAssumption DEF EventsOK, Event

\* Steps of the daemon and of the network.
LEMMA DaemonSteps ==
  ASSUME Typed,
         Elsewhere \/ AnswerGet \/ FailGet \/ Send
         \/ (\E j \in Jobs : Handle(j)) \/ (\E p \in Posts : Apply(p))
  PROVE  Typed'
<1>1. CASE Elsewhere
  <2>1. EventsOK'
    BY <1>1, EventType DEF Elsewhere, Typed
  <2>2. DaemonOK'
    <3>1. CASE Begin
      BY <3>1, DaemonType DEF Typed
    <3>2. CASE Unlock
      BY <3>2, DaemonType DEF Typed
    <3>3. CASE session # 0 /\ (\E t \in Tasks \ done : done' = done \cup {t})
               /\ now' = now + 1 /\ UNCHANGED <<session, latest, pending>>
      <4>1. now' \in Nat /\ done' \subseteq Tasks
        BY <3>3 DEF Typed, DaemonOK
      <4>2. session' = session /\ latest' = latest /\ pending' = pending
        BY <3>3, Zenon
      <4>3. pending' \in BOOLEAN
        BY <4>2, Zenon DEF Typed, DaemonOK
      <4>4. session' \in {0, latest'} /\ latest' \in Nat
        BY <4>2 DEF Typed, DaemonOK
      <4> QED
        BY <4>1, <4>3, <4>4, Zenon DEF DaemonOK
    <3>4. CASE session # 0 /\ session' = 0 /\ done' = {} /\ pending' = FALSE
               /\ now' = now + 1 /\ UNCHANGED latest
      <4>1. session' = 0 /\ done' = {} /\ pending' = FALSE /\ latest' = latest
        BY <3>4, Zenon
      <4>2. now' \in Nat /\ latest' \in Nat
        BY <3>4, <4>1 DEF Typed, DaemonOK
      <4> QED
        BY <4>1, <4>2, Zenon DEF DaemonOK
    <3> QED
      BY <1>1, <3>1, <3>2, <3>3, <3>4 DEF Elsewhere
  <2> QED
    BY <1>1, <2>1, <2>2, Same, Zenon DEF Elsewhere, Typed
<1>2. CASE AnswerGet
  <2>1. RequestOK'
    <3>1. Status \in Statuses
      BY StatusType DEF Typed
    <3> QED
      BY <1>2, <3>1 DEF AnswerGet, Typed, RequestOK
  <2>2. UNCHANGED <<daemon, stream, jobs, post, shown, health, events>>
    BY <1>2 DEF AnswerGet
  <2> QED
    BY <2>1, <2>2, Same, Zenon DEF Typed
<1>3. CASE FailGet
  <2>1. RequestOK'
    BY <1>3 DEF FailGet, Typed, RequestOK
  <2>2. EventsOK'
    BY <1>3, EventType DEF FailGet, Typed
  <2> QED
    BY <1>3, <2>1, <2>2, Same, Zenon DEF FailGet, Typed
<1>4. CASE Send
  <2>1. Status \in Statuses
    BY StatusType DEF Typed
  <2>2. StreamOK'
    BY <1>4, <2>1, Zenon DEF Send, Typed, StreamOK
  <2> QED
    BY <1>4, <2>2, Same, Zenon DEF Send, Typed
<1>5. ASSUME NEW j \in Jobs, Handle(j) PROVE Typed'
  <2>1. JobsOK'
    BY <1>5 DEF Handle, Typed, JobsOK
  <2>2. EventsOK'
    BY <1>5, EventType DEF Handle, Typed
  <2>3. DaemonOK'
    BY <1>5, DaemonType DEF Handle, Typed
  <2> QED
    BY <1>5, <2>1, <2>2, <2>3, Same, Zenon DEF Handle, Typed
<1>6. ASSUME NEW p \in Posts, Apply(p) PROVE Typed'
  <2>1. PostOK'
    BY <1>6 DEF Apply, Typed, PostOK
  <2>2. EventsOK'
    BY <1>6, EventType DEF Apply, Typed, Event
  <2>3. DaemonOK'
    <3>1. done' \subseteq Tasks
      BY <1>6 DEF Apply, Typed, PostOK, DaemonOK
    <3>2. now' \in Nat
      BY <1>6 DEF Apply, Typed, DaemonOK
    <3> QED
      BY <1>6, <3>1, <3>2, Zenon DEF Apply, Typed, DaemonOK
  <2> QED
    BY <1>6, <2>1, <2>2, <2>3, Same, Zenon DEF Apply, Typed
<1> QED
  BY <1>1, <1>2, <1>3, <1>4, <1>5, <1>6, Zenon

\* What the page asks for.
LEMMA RefreshType == ASSUME RequestOK, Refresh PROVE RequestOK'
<1>1. refreshes' \in 0..2
  BY DEF Refresh
<1> QED
  BY <1>1, AskType DEF Refresh

\* A request that is over, and the polls that were part of it.
LEMMA OverType ==
  ASSUME NEW ms, RequestOK, JobsOK, GoOn(ms), Over, UNCHANGED tries
  PROVE  RequestOK' /\ JobsOK'
<1>1. RequestOK'
  <2>1. \A x \in {"idle", "sent"} : [state |-> x, status |-> NoStatus] \in
          [state : {"idle", "sent", "answered", "failed"}, status : Statuses \cup {NoStatus}]
    OBVIOUS
  <2>2. \E x \in {"idle", "sent"} : get' = [state |-> x, status |-> NoStatus]
    BY DEF Over
  <2>3. refreshes' \in 0..2
    BY DEF Over
  <2> QED
    BY <2>1, <2>2, <2>3 DEF RequestOK
<1>2. JobsOK'
  BY ConstantsAssumption DEF JobsOK, GoOn
<1> QED
  BY <1>1, <1>2

\* The banner and the controls.
LEMMA HealthType ==
  ASSUME HealthOK, Healthy \/ (\E twice \in BOOLEAN : Offline(twice)), checking' \in BOOLEAN
  PROVE  HealthOK'
<1>1. banner' \in BOOLEAN /\ frozen' \in BOOLEAN
  BY Zenon DEF HealthOK, Healthy, Offline
<1>2. controls' \in {"on", "forced", "already"}
  BY DEF HealthOK, Healthy, Offline
<1> QED
  BY <1>1, <1>2, Zenon DEF HealthOK

\* Steps of the page that show or ask for a status.
LEMMA ShowSteps ==
  ASSUME Typed,
         Deliver \/ Cut \/ Reconnect \/ Hide \/ Show \/ CountdownOver \/ GotStatus \/ GotNoStatus
  PROVE  Typed'
<1>1. CASE Deliver
  <2>1. mail \in Statuses /\ PostOK /\ ShownOK /\ HealthOK
    BY <1>1, Zenon DEF Deliver, Typed, StreamOK
  <2>2. PostOK' /\ ShownOK' /\ frozen' \in BOOLEAN
    BY <1>1, <2>1, RenderType, Zenon DEF Deliver
  <2>3. StreamOK'
    BY <1>1, Zenon DEF Deliver, Typed, StreamOK
  <2>4. HealthOK'
    BY <1>1, <2>2, Zenon DEF Deliver, Typed, HealthOK
  <2> QED
    BY <1>1, <2>2, <2>3, <2>4, Same, Zenon DEF Deliver, Typed
<1>2. CASE Cut
  <2>1. StreamOK'
    BY <1>2, Zenon DEF Cut, Typed, StreamOK
  <2>2. EventsOK'
    BY <1>2, EventType, Zenon DEF Cut, Typed
  <2> QED
    BY <1>2, <2>1, <2>2, Same, Zenon DEF Cut, Typed
<1>3. CASE Reconnect
  <2>1. StreamOK'
    BY <1>3, Zenon DEF Reconnect, Typed, StreamOK
  <2> QED
    BY <1>3, <2>1, Same, Zenon DEF Reconnect, Typed
<1>4. CASE Hide
  <2>1. StreamOK'
    BY <1>4, Zenon DEF Hide, Typed, StreamOK
  <2>2. EventsOK'
    BY <1>4, EventType, Zenon DEF Hide, Typed
  <2> QED
    BY <1>4, <2>1, <2>2, Same, Zenon DEF Hide, Typed
<1>5. CASE Show
  <2>1. StreamOK'
    BY <1>5, Zenon DEF Show, Typed, StreamOK
  <2>2. RequestOK'
    BY <1>5, RefreshType, Zenon DEF Show, Typed
  <2> QED
    BY <1>5, <2>1, <2>2, Same, Zenon DEF Show, Typed
<1>6. CASE CountdownOver
  <2>1. RequestOK'
    BY <1>6, RefreshType, Zenon DEF CountdownOver, Typed
  <2>2. EventsOK'
    BY <1>6, EventType, Zenon DEF CountdownOver, Typed
  <2> QED
    BY <1>6, <2>1, <2>2, Same, Zenon DEF CountdownOver, Typed
<1>7. CASE GotStatus
  <2>1. PICK ms \in Met(get.status) :
          /\ GoOn(ms) /\ Over
          /\ Render(get.status) \/ UNCHANGED <<shown, post, frozen>>
    BY <1>7, Zenon DEF GotStatus
  <2>2. UNCHANGED <<daemon, stream, tries, banner, checking, controls, events>>
    BY <1>7, Zenon DEF GotStatus
  <2>3. RequestOK' /\ JobsOK'
    BY <2>1, <2>2, OverType, Zenon DEF Typed
  <2>4. get.status \in Statuses /\ PostOK /\ ShownOK /\ HealthOK
    BY <1>7, Zenon DEF GotStatus, Typed, RequestOK
  <2>5. PostOK' /\ ShownOK' /\ frozen' \in BOOLEAN
    <3>1. CASE Render(get.status)
      BY <2>4, <3>1, RenderType, Zenon
    <3>2. CASE UNCHANGED <<shown, post, frozen>>
      BY <2>4, <3>2, Same, Zenon DEF HealthOK
    <3> QED
      BY <2>1, <3>1, <3>2, Zenon
  <2>6. HealthOK'
    BY <2>2, <2>4, <2>5, Zenon DEF HealthOK
  <2> QED
    BY <2>2, <2>3, <2>5, <2>6, Same, Zenon DEF Typed
<1>8. CASE GotNoStatus
  <2>1. GoOn({}) /\ Over
    BY <1>8, Zenon DEF GotNoStatus
  <2>2. UNCHANGED <<daemon, stream, tries, post, shown, checking, events>>
    BY <1>8, Zenon DEF GotNoStatus
  <2>3. RequestOK' /\ JobsOK'
    BY <2>1, <2>2, OverType, Zenon DEF Typed
  <2>4. HealthOK'
    <3>1. CASE refreshes > 0
      <4>1. (refreshes > 1) \in BOOLEAN
        OBVIOUS
      <4> QED
        BY <1>8, <2>2, <3>1, <4>1, HealthType, Zenon DEF GotNoStatus, Typed, HealthOK
    <3>2. CASE ~(refreshes > 0)
      BY <1>8, <2>2, <3>2, Zenon DEF GotNoStatus, Typed, HealthOK
    <3> QED
      BY <3>1, <3>2
  <2> QED
    BY <2>2, <2>3, <2>4, Same, Zenon DEF Typed
<1> QED
  BY <1>1, <1>2, <1>3, <1>4, <1>5, <1>6, <1>7, <1>8, Zenon

\* Steps of the page that start and stop sessions, tick tasks and check the daemon.
LEMMA UserSteps ==
  ASSUME Typed,
         \/ Check \/ Checked
         \/ \E j \in Jobs : Click(j) \/ Answered(j) \/ AskAgain(j)
         \/ \E p \in Posts : Ticked(p) \/ \E t \in Tasks : Tick(p, t)
  PROVE  Typed'
<1>1. CASE Check
  <2>1. HealthOK'
    BY <1>1, Zenon DEF Check, Typed, HealthOK
  <2> QED
    BY <1>1, <2>1, Same, Zenon DEF Check, Typed
<1>2. CASE Checked
  <2>1. HealthOK'
    BY <1>2, HealthType, Zenon DEF Checked, Typed
  <2>2. RequestOK'
    BY <1>2, RefreshType, Same, Zenon DEF Checked, Typed
  <2>3. EventsOK'
    BY <1>2, EventType, Zenon DEF Checked, Typed
  <2> QED
    BY <1>2, <2>1, <2>2, <2>3, Same, Zenon DEF Checked, Typed
<1>3. ASSUME NEW j \in Jobs, Click(j) PROVE Typed'
  <2>1. JobsOK'
    BY <1>3 DEF Click, Typed, JobsOK
  <2>2. EventsOK'
    BY <1>3, EventType, Zenon DEF Click, Typed
  <2> QED
    BY <1>3, <2>1, <2>2, Same, Zenon DEF Click, Typed
<1>4. ASSUME NEW j \in Jobs, Answered(j) PROVE Typed'
  <2>1. JobsOK'
    <3>1. CASE job[j] = "accepted"
      BY <1>4, <3>1, ConstantsAssumption DEF Answered, Typed, JobsOK
    <3>2. CASE job[j] = "refused"
      BY <1>4, <3>2 DEF Answered, Typed, JobsOK
    <3> QED
      BY <1>4, <3>1, <3>2, Zenon DEF Answered
  <2>2. RequestOK'
    <3>1. CASE Ask /\ UNCHANGED refreshes
      BY <3>1, AskType DEF Typed, RequestOK
    <3>2. CASE Refresh \/ UNCHANGED request
      BY <3>2, RefreshType, Same, Zenon DEF Typed
    <3> QED
      BY <1>4, <3>1, <3>2, Zenon DEF Answered
  <2> QED
    BY <1>4, <2>1, <2>2, Same, Zenon DEF Answered, Typed
<1>5. ASSUME NEW j \in Jobs, AskAgain(j) PROVE Typed'
  <2>1. JobsOK'
    <3>1. tries[j] + 1 \in 0..Attempts
      BY <1>5, ConstantsAssumption DEF AskAgain, Typed, JobsOK
    <3>2. job' = [job EXCEPT ![j] = "asking"] /\ tries' = [tries EXCEPT ![j] = tries[j] + 1]
      BY <1>5 DEF AskAgain
    <3> QED
      BY <3>1, <3>2 DEF Typed, JobsOK
  <2>2. RequestOK'
    <3>1. Ask /\ UNCHANGED refreshes
      BY <1>5, Zenon DEF AskAgain
    <3> QED
      BY <3>1, AskType DEF Typed, RequestOK
  <2> QED
    BY <1>5, <2>1, <2>2, Same, Zenon DEF AskAgain, Typed
<1>6. ASSUME NEW p \in Posts, Ticked(p) PROVE Typed'
  <2>1. PostOK'
    <3>1. NoPost \in [state : {"none", "sent", "ok", "failed"}, task : Tasks \cup {"none"},
                      sent : SUBSET Tasks, fresh : BOOLEAN]
      BY DEF NoPost
    <3>2. NoPost.state = "none"
      BY DEF NoPost
    <3> QED
      BY <1>6, <3>1, <3>2 DEF Ticked, Typed, PostOK
  <2>2. ShownOK'
    <3>1. view' \in [session : Nat, done : SUBSET Tasks]
      <4>1. post[p].task \in Tasks
        BY <1>6 DEF Ticked, Typed, PostOK
      <4> QED
        BY <1>6, <4>1 DEF Ticked, Typed, ShownOK
    <3> QED
      BY <1>6, <3>1, Zenon DEF Ticked, Typed, ShownOK
  <2> QED
    BY <1>6, <2>1, <2>2, Same, Zenon DEF Ticked, Typed
<1>7. ASSUME NEW p \in Posts, NEW t \in Tasks, Tick(p, t) PROVE Typed'
  <2>1. view' \in [session : Nat, done : SUBSET Tasks]
    BY <1>7 DEF Tick, Typed, ShownOK
  <2>2. ShownOK'
    BY <1>7, <2>1, Zenon DEF Tick, Typed, ShownOK
  <2>3. PostOK'
    <3>1. [state |-> "sent", task |-> t, sent |-> view'.done, fresh |-> TRUE] \in
            [state : {"none", "sent", "ok", "failed"}, task : Tasks \cup {"none"},
             sent : SUBSET Tasks, fresh : BOOLEAN]
      BY <2>1
    <3> QED
      BY <1>7, <3>1 DEF Tick, Typed, PostOK
  <2>4. EventsOK'
    BY <1>7, EventType, Zenon DEF Tick, Typed
  <2> QED
    BY <1>7, <2>2, <2>3, <2>4, Same, Zenon DEF Tick, Typed
<1> QED
  BY <1>1, <1>2, <1>3, <1>4, <1>5, <1>6, <1>7, Zenon

\* Every step keeps the types.
LEMMA TypedStep == ASSUME Typed, [Next]_vars PROVE Typed'
<1>1. CASE Next
  BY <1>1, DaemonSteps, ShowSteps, UserSteps, Zenon DEF Next
<1>2. CASE UNCHANGED vars
  BY <1>2, Same, Zenon DEF vars, Typed
<1> QED
  BY <1>1, <1>2

-----------------------------------------------------------------------------
(* What the page knows *)

\* Where a session stood at some time: on its way, in an answer, shown, and now.
Point(s) == [session |-> s.session, at |-> s.at]
Shown == IF active THEN [session |-> view.session, at |-> seen] ELSE [session |-> 0, at |-> -1]
Known == {Point(mail), Point(get.status), Shown, Point(Status)}

\* No session is older than its statuses, none comes back when it is over, and one that has
\* been recapped is known no more, unless something older was shown.
Placed == \A b \in Known : b.session \in 0..latest /\ b.at \in -1..now /\ (b.session # 0 => b.at >= 0)
Whole ==
  \A a, b, c \in Known :
    a.session # 0 /\ c.session = a.session /\ a.at <= b.at /\ b.at <= c.at => b.session = a.session
Gone == ~overtaken => \A b \in Known : b.at >= seen => b.session \notin recapped
Orderly ==
  /\ Placed /\ Whole /\ Gone
  /\ active => view.session # 0
  /\ recapped \subseteq 1..latest
  /\ seen <= now

Ordered == Typed /\ Orderly

\* The page starts in order.
LEMMA OrderedInit == ASSUME Init PROVE Ordered
<1>1. Known = {[session |-> 0, at |-> -1], [session |-> 0, at |-> 0]}
  <2>1. /\ mail = NoStatus /\ get = [state |-> "idle", status |-> NoStatus]
        /\ active = FALSE /\ session = 0 /\ now = 0
    BY DEF Init
  <2> QED
    BY <2>1 DEF Known, Point, Shown, Status, NoStatus
<1>2. latest = 0 /\ now = 0 /\ active = FALSE /\ recapped = {} /\ seen = 0
  BY DEF Init
<1>3. Placed /\ Whole /\ Gone
  BY <1>1, <1>2 DEF Placed, Whole, Gone
<1> QED
  BY <1>2, <1>3, TypedInit DEF Ordered, Orderly

\* How the daemon's session goes on.
LEMMA DaemonGoesOn ==
  ASSUME Typed, [Next]_vars
  PROVE  \/ session' = session /\ latest' = latest /\ now' = now
         \/ session' \in {0, session} /\ latest' = latest /\ now' = now + 1
         \/ session' = latest + 1 /\ latest' = latest + 1 /\ now' = now + 1
<1> DEFINE Still == session' = session /\ latest' = latest /\ now' = now
           Moves == session' \in {0, session} /\ latest' = latest /\ now' = now + 1
           Opens == session' = latest + 1 /\ latest' = latest + 1 /\ now' = now + 1
<1>1. ASSUME Begin PROVE Moves \/ Opens
  BY <1>1 DEF Begin
<1>2. ASSUME Unlock PROVE Moves
  BY <1>2 DEF Unlock
<1>3. ASSUME UNCHANGED daemon PROVE Still
  BY <1>3 DEF daemon
<1>4. ASSUME Elsewhere PROVE Moves \/ Opens
  BY <1>1, <1>2, <1>4 DEF Elsewhere
<1>5. ASSUME NEW j \in Jobs, Handle(j) PROVE Still \/ Moves \/ Opens
  <2>1. Begin \/ Unlock \/ UNCHANGED daemon
    BY <1>5, Zenon DEF Handle
  <2> QED
    BY <1>1, <1>2, <1>3, <2>1, Zenon
<1>6. ASSUME NEW p \in Posts, Apply(p) PROVE Still \/ Moves
  BY <1>6 DEF Apply
<1>7. ASSUME UNCHANGED vars PROVE Still
  BY <1>7, Zenon DEF vars, daemon
<1>8. ASSUME Next PROVE \/ Elsewhere \/ (\E j \in Jobs : Handle(j)) \/ (\E p \in Posts : Apply(p))
                        \/ UNCHANGED daemon
  BY <1>8, Zenon DEF Next, AnswerGet, FailGet, Send, Deliver, Cut, Reconnect, Hide, Show,
     CountdownOver, GotStatus, GotNoStatus, Check, Checked, Click, Answered, AskAgain, Ticked, Tick
<1> QED
  <2>1. CASE UNCHANGED vars
    BY <1>7, <2>1, Zenon
  <2>2. CASE Next
    BY <1>3, <1>4, <1>5, <1>6, <1>8, <2>2, Zenon
  <2> QED
    BY <2>1, <2>2, Zenon

\* What is shown changes by a status that is shown.
Shows(s) ==
  /\ s \in Statuses /\ ~Starting /\ Render(s) /\ Point(s) \in Known
  /\ UNCHANGED daemon

LEMMA ShownGoesOn ==
  ASSUME Typed, [Next]_vars
  PROVE  \/ /\ UNCHANGED <<active, recapped, seen, overtaken>> /\ view'.session = view.session
         \/ \E s \in {mail, get.status} : Shows(s)
<1> DEFINE Stays == UNCHANGED <<active, recapped, seen, overtaken>> /\ view'.session = view.session
<1>1. ASSUME UNCHANGED shown PROVE Stays
  BY <1>1, Zenon DEF shown
<1>2. ASSUME NEW s, s \in {mail, get.status}, s \in Statuses, Render(s), UNCHANGED daemon
      PROVE  Stays \/ Shows(s)
  BY <1>1, <1>2, Zenon DEF Render, Shows, Known
<1>3. ASSUME Deliver PROVE Stays \/ Shows(mail)
  <2>1. mail \in Statuses /\ Render(mail) /\ UNCHANGED daemon
    BY <1>3, Zenon DEF Deliver, Typed, StreamOK
  <2> QED
    BY <1>2, <2>1, Zenon
<1>4. ASSUME GotStatus PROVE Stays \/ Shows(get.status)
  <2>1. get.status \in Statuses /\ UNCHANGED daemon
    BY <1>4, Zenon DEF GotStatus, Typed, RequestOK
  <2>2. Render(get.status) \/ UNCHANGED shown
    BY <1>4, Zenon DEF GotStatus
  <2> QED
    BY <1>1, <1>2, <2>1, <2>2, Zenon
<1>5. ASSUME NEW p \in Posts, Ticked(p) \/ (\E t \in Tasks : Tick(p, t)) PROVE Stays
  <2>1. UNCHANGED <<active, recapped, seen, overtaken>>
    BY <1>5, Zenon DEF Ticked, Tick
  <2>2. \E d : view' = [view EXCEPT !.done = d]
    BY <1>5, Zenon DEF Ticked, Tick
  <2>3. view'.session = view.session
    BY <2>2 DEF Typed, ShownOK
  <2> QED
    BY <2>1, <2>3
<1>6. ASSUME Next
      PROVE  \/ Deliver \/ GotStatus \/ (\E p \in Posts : Ticked(p) \/ (\E t \in Tasks : Tick(p, t)))
             \/ UNCHANGED shown
  BY <1>6, Zenon DEF Next, Elsewhere, Handle, Apply, AnswerGet, FailGet, Send, Cut, Reconnect, Hide,
     Show, CountdownOver, GotNoStatus, Check, Checked, Click, Answered, AskAgain
<1> QED
  <2>1. CASE UNCHANGED vars
    BY <1>1, <2>1, Zenon DEF vars
  <2>2. CASE Next
    BY <1>1, <1>3, <1>4, <1>5, <1>6, <2>2, Zenon
  <2> QED
    BY <2>1, <2>2, Zenon

\* A status that is on its way was one of the daemon's.
LEMMA MailGoesOn ==
  ASSUME Typed, [Next]_vars
  PROVE  mail' \in {mail, NoStatus, Status}
BY Zenon DEF Next, Elsewhere, Handle, Apply, AnswerGet, FailGet, Send, Deliver, Cut, Reconnect, Hide,
   Show, CountdownOver, GotStatus, GotNoStatus, Check, Checked, Click, Answered, AskAgain, Tick, Ticked,
   stream, vars

\* So is one that was asked for.
LEMMA GetGoesOn ==
  ASSUME Typed, [Next]_vars
  PROVE  get'.status \in {get.status, NoStatus, Status}
<1> DEFINE Fine == get'.status \in {get.status, NoStatus, Status}
<1>1. ASSUME UNCHANGED get PROVE Fine
  BY <1>1
<1>2. ASSUME NEW x, NEW s \in {NoStatus, Status}, get' = [state |-> x, status |-> s] PROVE Fine
  BY <1>2
<1>3. ASSUME Ask \/ Refresh PROVE Fine
  BY <1>1, <1>2, <1>3, Zenon DEF Ask, Refresh
<1>4. ASSUME Over PROVE Fine
  BY <1>2, <1>4, Zenon DEF Over
<1>5. ASSUME AnswerGet \/ FailGet PROVE Fine
  BY <1>2, <1>5, Zenon DEF AnswerGet, FailGet
<1>6. ASSUME Next PROVE UNCHANGED get \/ Ask \/ Refresh \/ Over \/ AnswerGet \/ FailGet
  BY <1>6, Zenon DEF Next, Elsewhere, Handle, Apply, Send, Deliver, Cut, Reconnect, Hide, Show,
     CountdownOver, GotStatus, GotNoStatus, Check, Checked, Click, Answered, AskAgain, Tick, Ticked, request
<1>7. ASSUME UNCHANGED vars PROVE UNCHANGED get
  BY <1>7, Zenon DEF vars, request
<1> QED
  BY <1>1, <1>3, <1>4, <1>5, <1>6, <1>7, Zenon

\* What is known was known, or is now.
LEMMA KnownGoesOn ==
  ASSUME Typed, [Next]_vars
  PROVE  Known' \subseteq Known \cup {[session |-> 0, at |-> -1], Point(Status)'}
<1> DEFINE All == Known \cup {[session |-> 0, at |-> -1], Point(Status)'}
<1>1. Point(NoStatus) = [session |-> 0, at |-> -1]
  BY DEF Point, NoStatus
<1>2. \A s \in {mail, get.status, NoStatus, Status} : Point(s) \in All
  BY <1>1, Zenon DEF Known
<1>3. Point(mail') \in All
  BY <1>2, MailGoesOn, Zenon
<1>4. Point(get'.status) \in All
  BY <1>2, GetGoesOn, Zenon
<1>5. Shown' \in All
  <2>1. CASE UNCHANGED <<active, recapped, seen, overtaken>> /\ view'.session = view.session
    BY <2>1, Zenon DEF Shown, Known
  <2>2. ASSUME NEW s, Shows(s) PROVE Shown' \in All
    <3>1. CASE active'
      <4>1. view'.session = s.session /\ seen' = s.at
        BY <2>2, <3>1 DEF Shows, Render
      <4> QED
        BY <2>2, <3>1, <4>1, Zenon DEF Shows, Shown, Point
    <3>2. CASE ~active'
      BY <3>2, Zenon DEF Shown
    <3> QED
      BY <3>1, <3>2
  <2> QED
    BY <2>1, <2>2, ShownGoesOn, Zenon
<1>6. Point(mail)' = Point(mail') /\ Point(get.status)' = Point(get'.status)
  BY DEF Point
<1> QED
  BY <1>3, <1>4, <1>5, <1>6, Zenon DEF Known

\* A status that ends what is shown recaps a session that is over and was not recapped before.
LEMMA EndShown ==
  ASSUME Ordered, NEW s, Shows(s), active, ~active', ~overtaken'
  PROVE  /\ session # view.session /\ view.session \notin recapped
         /\ \A b \in Known : b.at >= s.at => b.session # view.session
<1>1. s.session = 0 /\ s.at >= seen /\ ~overtaken /\ s.at \in Int /\ seen \in Int
  <2>1. s.session = 0 /\ ~(s.at < seen) /\ ~overtaken
    BY Zenon DEF Shows, Render
  <2>2. s.at \in Nat /\ seen \in Nat
    BY DEF Shows, Statuses, Ordered, Typed, ShownOK
  <2> QED
    BY <2>1, <2>2
<1>2. /\ [session |-> view.session, at |-> seen] \in Known /\ [session |-> 0, at |-> s.at] \in Known
      /\ [session |-> session, at |-> now] \in Known
  BY <1>1 DEF Shows, Known, Shown, Point, Status
<1>3. Placed /\ Whole /\ Gone /\ view.session # 0
  BY DEF Ordered, Orderly
<1>4. view.session \notin recapped
  BY <1>1, <1>2, <1>3 DEF Gone
<1>5. \A b \in Known : b.at >= s.at => b.session # view.session
  <2> SUFFICES ASSUME NEW b \in Known, b.at >= s.at, b.session = view.session PROVE FALSE
    OBVIOUS
  <2>1. seen <= s.at /\ s.at <= b.at
    BY <1>1, <1>3 DEF Placed
  <2> QED
    BY <1>2, <1>3, <2>1 DEF Whole
<1>6. s.at <= now /\ now \in Nat
  BY <1>2, <1>3 DEF Placed, Ordered, Typed, DaemonOK
<1> QED
  BY <1>2, <1>4, <1>5, <1>6

\* Every step keeps the order.
LEMMA OrderedStep == ASSUME Ordered, [Next]_vars PROVE Ordered'
<1> DEFINE Zero == [session |-> 0, at |-> -1]
           New == [session |-> session', at |-> now']
           Here == [session |-> session, at |-> now]
<1>1. Typed' /\ latest \in Nat /\ now \in Nat /\ session \in 0..latest
  BY TypedStep DEF Ordered, Typed, DaemonOK
<1>2. Known' \subseteq Known \cup {Zero, New}
  <2>1. Point(Status)' = New
    BY DEF Point, Status
  <2> QED
    BY <2>1, KnownGoesOn DEF Ordered
<1>3. Here \in Known
  BY DEF Known, Point, Status
<1>4. Placed /\ Whole /\ Gone /\ recapped \subseteq 1..latest /\ seen <= now /\ seen \in Nat
  BY DEF Ordered, Orderly, Typed, ShownOK
<1>5. \/ session' = session /\ latest' = latest /\ now' = now
      \/ session' \in {0, session} /\ latest' = latest /\ now' = now + 1
      \/ session' = latest + 1 /\ latest' = latest + 1 /\ now' = now + 1
  BY DaemonGoesOn DEF Ordered
<1>6. Placed'
  <2>1. latest' >= latest /\ now' >= now /\ session' \in 0..latest' /\ latest' \in Nat /\ now' \in Nat
    BY <1>1, <1>5
  <2> SUFFICES ASSUME NEW b \in Known'
               PROVE  b.session \in 0..latest' /\ b.at \in -1..now' /\ (b.session # 0 => b.at >= 0)
    BY DEF Placed
  <2>2. CASE b \in Known
    BY <1>1, <1>4, <2>1, <2>2 DEF Placed
  <2>3. CASE b \in {Zero, New}
    BY <2>1, <2>3
  <2> QED
    BY <1>2, <2>2, <2>3
<1>7. Whole'
  <2> SUFFICES ASSUME NEW a \in Known', NEW b \in Known', NEW c \in Known',
                      a.session # 0, c.session = a.session, a.at <= b.at, b.at <= c.at
               PROVE  b.session = a.session
    BY DEF Whole
  <2>1. a # Zero /\ c # Zero /\ b # Zero
    <3>1. a.at >= 0 /\ a.at \in Int /\ b.at \in Int
      BY <1>6 DEF Placed
    <3> QED
      BY <3>1
  <2>2. a \in Known \cup {New} /\ b \in Known \cup {New} /\ c \in Known \cup {New}
    BY <1>2, <2>1
  <2>3. CASE New = Here
    BY <1>3, <1>4, <2>2, <2>3 DEF Whole
  <2>4. CASE now' = now + 1
    <3>1. \A x \in Known : x.at \in Int /\ x.at < now + 1 /\ x.session \in 0..latest
      BY <1>1, <1>4 DEF Placed
    <3>2. CASE a = New \/ b = New
      BY <1>1, <2>2, <2>4, <3>1, <3>2
    <3>3. CASE a \in Known /\ b \in Known /\ c \in Known
      BY <1>4, <3>3 DEF Whole
    <3>4. CASE a \in Known /\ b \in Known /\ c = New
      <4>1. a.session = session
        BY <1>1, <1>5, <2>4, <3>1, <3>4
      <4>2. b.at <= Here.at
        BY <1>1, <3>1, <3>4
      <4> QED
        BY <1>3, <1>4, <3>4, <4>1, <4>2 DEF Whole
    <3> QED
      BY <2>2, <3>2, <3>3, <3>4
  <2> QED
    BY <1>5, <2>3, <2>4
<1>8. Gone' /\ (active' => view'.session # 0) /\ recapped' \subseteq 1..latest' /\ seen' <= now'
  <2>1. CASE UNCHANGED <<active, recapped, seen, overtaken>> /\ view'.session = view.session
    <3>1. active' => view'.session # 0
      BY <2>1, Zenon DEF Ordered, Orderly
    <3>2. recapped' \subseteq 1..latest' /\ seen' <= now'
      BY <1>1, <1>4, <1>5, <2>1
    <3>3. Gone'
      <4> SUFFICES ASSUME ~overtaken, NEW b \in Known', b.at >= seen PROVE b.session \notin recapped
        BY <2>1 DEF Gone
      <4>1. CASE b \in Known
        BY <1>4, <4>1 DEF Gone
      <4>2. CASE b = Zero
        BY <1>1, <1>4, <4>2
      <4>3. CASE b = New
        <5>1. session \notin recapped
          BY <1>1, <1>3, <1>4 DEF Gone
        <5> QED
          BY <1>1, <1>4, <1>5, <4>3, <5>1
      <4> QED
        BY <1>2, <4>1, <4>2, <4>3
    <3> QED
      BY <3>1, <3>2, <3>3
  <2>2. ASSUME NEW s, Shows(s)
        PROVE  Gone' /\ (active' => view'.session # 0) /\ recapped' \subseteq 1..latest' /\ seen' <= now'
    <3>1. session' = session /\ latest' = latest /\ now' = now
      BY <2>2, Zenon DEF Shows, daemon
    <3>2. Known' \subseteq Known \cup {Zero}
      BY <1>2, <1>3, <3>1
    <3>3. Point(s) \in Known /\ s \in Statuses /\ active \in BOOLEAN
      BY <2>2 DEF Shows, Ordered, Typed, ShownOK
    <3>4. /\ active' = (s.session # 0) /\ seen' = s.at /\ overtaken' = (overtaken \/ s.at < seen)
          /\ recapped' = IF active /\ ~active' THEN recapped \cup {view.session} ELSE recapped
          /\ active' => view' = [session |-> s.session, done |-> s.done]
      BY <2>2, Zenon DEF Shows, Render
    <3>5. active' => view'.session # 0
      <4> SUFFICES ASSUME active' PROVE view'.session # 0
        OBVIOUS
      <4>1. s.session # 0
        BY <3>4, Zenon
      <4>2. view' = [session |-> s.session, done |-> s.done]
        BY <3>4, Zenon
      <4> QED
        BY <4>1, <4>2
    <3>6. recapped' \subseteq 1..latest'
      <4>1. active => view.session \in 1..latest
        <5>1. active => view.session # 0 /\ [session |-> view.session, at |-> seen] \in Known
          BY DEF Ordered, Orderly, Known, Shown
        <5> QED
          BY <1>1, <1>4, <5>1 DEF Placed
      <4> QED
        BY <1>4, <3>1, <3>4, <4>1
    <3>7. seen' <= now'
      BY <1>4, <3>1, <3>3, <3>4 DEF Placed, Point
    <3>8. Gone'
      <4> SUFFICES ASSUME ~overtaken', NEW b \in Known', b.at >= s.at PROVE b.session \notin recapped'
        BY <3>4 DEF Gone
      <4>1. CASE b = Zero
        BY <1>1, <3>1, <3>6, <4>1
      <4>2. CASE b \in Known
        <5>1. b.session \notin recapped
          <6>1. b.at >= seen /\ ~overtaken
            <7>1. ~(s.at < seen) /\ ~overtaken
              BY <3>4, Zenon
            <7>2. s.at \in Nat /\ b.at \in Int
              BY <1>4, <3>3, <4>2 DEF Placed, Statuses
            <7> QED
              BY <1>4, <7>1, <7>2
          <6> QED
            BY <1>4, <4>2, <6>1 DEF Gone
        <5>2. CASE active /\ ~active'
          BY <2>2, <3>4, <4>2, <5>1, <5>2, EndShown
        <5>3. CASE ~(active /\ ~active')
          BY <3>4, <5>1, <5>3
        <5> QED
          BY <5>2, <5>3
      <4> QED
        BY <3>2, <4>1, <4>2
    <3> QED
      BY <3>5, <3>6, <3>7, <3>8
  <2> QED
    BY <2>1, <2>2, ShownGoesOn DEF Ordered
<1> QED
  BY <1>1, <1>6, <1>7, <1>8 DEF Ordered, Orderly

\* What the module's variables range over, for all bounds.
THEOREM TypeCorrect == Spec => []TypeOK
<1>1. Init => Ordered
  BY OrderedInit
<1>2. Ordered /\ [Next]_vars => Ordered'
  BY OrderedStep
<1>3. Ordered => TypeOK
  BY Zenon DEF Ordered, Orderly, Typed, DaemonOK, StreamOK, RequestOK, JobsOK, PostOK, ShownOK,
               HealthOK, EventsOK, TypeOK
<1> QED
  BY <1>1, <1>2, <1>3, PTL DEF Spec

\* "Session just ended": a recap is of a session that is over, and of each but once, whatever
\* is lost, late or done by others, as long as no status older than one shown was shown.
THEOREM RecapsAreTrue == Spec => RecapTrue
<1>1. Init => Ordered
  BY OrderedInit
<1>2. Ordered /\ [Next]_vars => Ordered'
  BY OrderedStep
<1>3. Ordered /\ [Next]_vars
      => [active /\ ~active' => \/ session # view.session /\ view.session \notin recapped
                                \/ overtaken']_vars
  <2> SUFFICES ASSUME Ordered, [Next]_vars, active, ~active', ~overtaken'
               PROVE  session # view.session /\ view.session \notin recapped
    OBVIOUS
  <2>1. \E s \in {mail, get.status} : Shows(s)
    BY ShownGoesOn, Zenon DEF Ordered
  <2> QED
    BY <2>1, EndShown
<1> QED
  BY <1>1, <1>2, <1>3, PTL DEF Spec, RecapTrue
=============================================================================
