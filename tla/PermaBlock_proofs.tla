------------------------- MODULE PermaBlock_proofs --------------------------
(***************************************************************************)
(* Proofs about PermaBlock, for every number of domains, delay, crashes    *)
(* and failed writes: its safety invariants, and that it keeps the promise *)
(* of PermaPromise.                                                        *)
(***************************************************************************)
EXTENDS PermaBlock, TLAPS

\* What the handlers rely on besides the properties: nothing of the list is in memory
\* while the daemon is down.
Background == ~up => list = {} /\ until = NoUnlocks /\ ~watched /\ ~stale

\* The inductive invariant.
IInv == TypeOK /\ OnlyBlockedWait /\ DurableUnlessFailed /\ ListIsWatched /\ Background

-----------------------------------------------------------------------------
(* The helpers *)

\* Taking requests away leaves a map of requests, in which only the others wait.
LEMMA WithoutFacts ==
  ASSUME NEW u \in Unlocks, NEW ds \in SUBSET Domains
  PROVE  /\ Without(u, ds) \in Unlocks
         /\ \A d \in Domains : Without(u, ds)[d] = IF d \in ds THEN 0 ELSE u[d]
BY DEF Without, Unlocks

\* A document is of the right type and holds what it was made of.
LEMMA DocumentFacts ==
  ASSUME NEW l \in SUBSET Domains, NEW u \in Unlocks
  PROVE  /\ Document(l, u) \in Documents
         /\ Document(l, u).domains = l
         /\ Document(l, u).until = u
BY DEF Document, Documents

\* Nobody waits on an empty map of requests.
LEMMA NoUnlocksFacts ==
  /\ NoUnlocks \in Unlocks
  /\ \A d \in Domains : NoUnlocks[d] = 0
BY DEF NoUnlocks, Unlocks

\* A save that worked re-establishes everything it touches.
LEMMA WrittenKeeps ==
  ASSUME IInv, NEW l \in SUBSET Domains, NEW u \in Unlocks,
         \A d \in Domains : u[d] # 0 => d \in l,
         list' = l, until' = u, Written(l, u),
         now' \in Nat \ {0}, up', schema' \in {1, 2}, crashes' \in Nat
  PROVE  IInv'
<1>1. file' = Document(l, u) /\ watched' = TRUE /\ stale' = FALSE /\ failures' = failures
  BY DEF Written
<1>2. file' \in Documents /\ file'.domains = l /\ file'.until = u
  BY <1>1, DocumentFacts
<1>3. failures \in Nat
  BY DEF IInv, TypeOK
<1>4. TypeOK'
  BY <1>1, <1>2, <1>3 DEF TypeOK
<1>5. OnlyBlockedWait'
  BY <1>2 DEF OnlyBlockedWait
<1>6. DurableUnlessFailed' /\ ListIsWatched'
  BY <1>2 DEF DurableUnlessFailed, Durable, ListIsWatched
<1>7. Background'
  BY <1>2 DEF Background
<1> QED
  BY <1>4, <1>5, <1>6, <1>7 DEF IInv

\* A save that failed does too, whatever became of the file, if memory is left as it
\* was or the daemon was down.
LEMMA NotWrittenKeeps ==
  ASSUME IInv, NEW l \in SUBSET Domains, NEW u \in Unlocks,
         \A d \in Domains : u[d] # 0 => d \in l,
         list' \in SUBSET Domains, until' \in Unlocks,
         \A d \in Domains : until'[d] # 0 => d \in list',
         list' = list \/ ~up, NotWritten(l, u),
         now' \in Nat \ {0}, up', schema' \in {1, 2}, crashes' \in Nat
  PROVE  IInv'
<1>1. failures' \in Nat /\ failures' # 0 /\ watched' = watched
  BY DEF IInv, TypeOK, NotWritten
<1>2. \/ file' = file /\ stale' = stale
      \/ file' = Document(l, u) /\ stale' = watched
  BY DEF NotWritten
<1>3. file' \in Documents /\ stale' \in BOOLEAN /\ watched' \in BOOLEAN
  BY <1>1, <1>2, DocumentFacts DEF IInv, TypeOK
<1>4. TypeOK'
  BY <1>1, <1>3 DEF TypeOK
<1>5. OnlyBlockedWait'
  BY <1>2, DocumentFacts DEF OnlyBlockedWait, IInv
<1>6. DurableUnlessFailed'
  BY <1>1 DEF DurableUnlessFailed
<1>7. ListIsWatched'
  BY <1>1, <1>2 DEF ListIsWatched, IInv, Background
<1>8. Background'
  BY <1>2, DocumentFacts DEF Background, IInv
<1> QED
  BY <1>4, <1>5, <1>6, <1>7, <1>8 DEF IInv

\* So does either end of a handler.
LEMMA CommitKeeps ==
  ASSUME IInv, up, UNCHANGED world,
         NEW l \in SUBSET Domains, NEW u \in Unlocks, NEW v \in Unlocks,
         \A d \in Domains : u[d] # 0 => d \in l,
         \A d \in Domains : v[d] # 0 => d \in list,
         Commit(l, u, list, v)
  PROVE  IInv'
<1>1. now' \in Nat \ {0} /\ up' /\ schema' \in {1, 2} /\ crashes' \in Nat
      /\ list \in SUBSET Domains
  BY DEF IInv, TypeOK, world
<1>2. CASE list' = l /\ until' = u /\ Written(l, u)
  BY <1>1, <1>2, WrittenKeeps
<1>3. CASE list' = list /\ until' = v /\ NotWritten(l, u)
  BY <1>1, <1>3, NotWrittenKeeps
<1> QED
  BY <1>2, <1>3 DEF Commit

-----------------------------------------------------------------------------
(* The invariant *)

LEMMA InitEstablishes == Init => IInv
<1> SUFFICES ASSUME Init PROVE IInv
  OBVIOUS
<1>1. /\ now = 1 /\ up = FALSE /\ schema \in {1, 2} /\ list = {} /\ until = NoUnlocks
      /\ watched = FALSE /\ stale = FALSE /\ crashes = 0 /\ failures = 0
  BY DEF Init
<1>2. /\ file \in Documents
      /\ \A d \in Domains : file.until[d] # 0 => d \in file.domains
  <2>1. CASE schema = 2
    <3>1. file = Document({}, NoUnlocks)
      BY <2>1 DEF Init, Empty
    <3> QED
      BY <3>1, NoUnlocksFacts, DocumentFacts
  <2>2. CASE schema # 2
    <3>1. PICK ds \in SUBSET Domains, u \in [Domains -> {0, Delay}] :
            (\A d \in Domains : u[d] # 0 => d \in ds) /\ file = Document(ds, u)
      BY <2>2, Zenon DEF Init
    <3>2. u \in Unlocks
      BY ConstantsAssumption DEF Unlocks
    <3> QED
      BY <3>1, <3>2, DocumentFacts
  <2> QED
    BY <2>1, <2>2
<1>3. TypeOK
  <2>1. list \in SUBSET Domains
    BY <1>1
  <2>2. up \in BOOLEAN /\ watched \in BOOLEAN /\ stale \in BOOLEAN
    BY <1>1
  <2> QED
    BY <1>1, <1>2, <2>1, <2>2, NoUnlocksFacts DEF TypeOK
<1>4. OnlyBlockedWait
  BY <1>1, <1>2, NoUnlocksFacts DEF OnlyBlockedWait
<1>5. DurableUnlessFailed /\ ListIsWatched
  BY <1>1 DEF DurableUnlessFailed, Durable, ListIsWatched
<1>6. Background
  BY <1>1, <1>2 DEF Background
<1> QED
  BY <1>3, <1>4, <1>5, <1>6 DEF IInv

LEMMA StepKeeps == IInv /\ [Next]_vars => IInv'
<1> SUFFICES ASSUME IInv, [Next]_vars PROVE IInv'
  OBVIOUS
<1>0. /\ now \in Nat \ {0} /\ list \in SUBSET Domains /\ until \in Unlocks /\ file \in Documents
      /\ schema \in {1, 2} /\ crashes \in Nat /\ failures \in Nat
      /\ file.domains \in SUBSET Domains /\ file.until \in Unlocks
      /\ \A d \in Domains : until[d] # 0 => d \in list
      /\ \A d \in Domains : file.until[d] # 0 => d \in file.domains
  BY DEF IInv, TypeOK, OnlyBlockedWait, Documents
<1>1. ASSUME NEW ds \in SUBSET Domains, Add(ds) PROVE IInv'
  <2>1. list \cup ds \in SUBSET Domains /\ \A d \in Domains : until[d] # 0 => d \in list \cup ds
    BY <1>0
  <2> QED
    BY <1>0, <1>1, <2>1, CommitKeeps DEF Add
<1>2. ASSUME NEW d \in Domains, Request(d) PROVE IInv'
  <2> DEFINE asked == [until EXCEPT ![d] = now + Delay]
             lost == [until EXCEPT ![d] = 0]
  <2>1. asked \in Unlocks /\ lost \in Unlocks
    BY <1>0, ConstantsAssumption DEF Unlocks
  <2>2. d \in list
    BY <1>2 DEF Request
  <2>3. \A e \in Domains : asked[e] # 0 => e \in list
    BY <1>0, <2>2 DEF Unlocks
  <2>4. \A e \in Domains : lost[e] # 0 => e \in list
    BY <1>0, <2>2 DEF Unlocks
  <2>5. up /\ UNCHANGED world /\ Commit(list, asked, list, lost)
    BY <1>2 DEF Request
  <2> HIDE DEF asked, lost
  <2> QED
    BY <1>0, <2>1, <2>3, <2>4, <2>5, CommitKeeps
<1>3. ASSUME NEW d \in Domains, Cancel(d) PROVE IInv'
  <2> DEFINE cancelled == [until EXCEPT ![d] = 0]
  <2>1. cancelled \in Unlocks
    BY <1>0 DEF Unlocks
  <2>2. \A e \in Domains : cancelled[e] # 0 => e \in list
    BY <1>0 DEF Unlocks
  <2>3. up /\ UNCHANGED world /\ Commit(list, cancelled, list, until)
    BY <1>3 DEF Cancel
  <2> HIDE DEF cancelled
  <2> QED
    BY <1>0, <2>1, <2>2, <2>3, CommitKeeps
<1>4. CASE Mature
  <2>1. Matured(until) \in SUBSET Domains
    BY DEF Matured
  <2>2. /\ list \ Matured(until) \in SUBSET Domains
        /\ Without(until, Matured(until)) \in Unlocks
        /\ \A d \in Domains : Without(until, Matured(until))[d] # 0 => d \in list \ Matured(until)
    BY <1>0, <2>1, WithoutFacts
  <2> QED
    BY <1>0, <1>4, <2>2, CommitKeeps DEF Mature
<1>5. CASE RestoreFile
  <2>1. /\ up /\ list' = list /\ until' = until /\ UNCHANGED world
        /\ Written(list, until) \/ NotWritten(list, until)
    BY <1>5 DEF RestoreFile, memory
  <2> QED
    BY <1>0, <2>1, CommitKeeps DEF Commit
<1>6. CASE Crash
  <2>1. /\ up' = FALSE /\ list' = {} /\ until' = NoUnlocks /\ watched' = FALSE /\ stale' = FALSE
        /\ crashes' = crashes + 1 /\ now' = now /\ schema' = schema /\ file' = file
        /\ failures' = failures
    BY <1>6 DEF Crash
  <2>2. TypeOK'
    <3>1. list' \in SUBSET Domains
      BY <2>1
    <3>2. up' \in BOOLEAN /\ watched' \in BOOLEAN /\ stale' \in BOOLEAN
      BY <2>1
    <3> QED
      BY <1>0, <2>1, <3>1, <3>2, NoUnlocksFacts DEF TypeOK
  <2>3. OnlyBlockedWait'
    BY <1>0, <2>1, NoUnlocksFacts DEF OnlyBlockedWait
  <2>4. DurableUnlessFailed' /\ ListIsWatched'
    BY <2>1 DEF DurableUnlessFailed, Durable, ListIsWatched
  <2>5. Background'
    BY <2>1 DEF IInv, Background
  <2> QED
    BY <2>2, <2>3, <2>4, <2>5 DEF IInv
<1>7. CASE Boot
  <2> DEFINE l == file.domains \ Matured(file.until)
             u == Without(file.until, Matured(file.until))
  <2>1. /\ ~up /\ up' = TRUE /\ schema' = 2 /\ now' = now /\ crashes' = crashes
        /\ list' = l /\ until' = u
    BY <1>7 DEF Boot
  <2>2. Matured(file.until) \in SUBSET Domains
    BY DEF Matured
  <2>3. l \in SUBSET Domains /\ u \in Unlocks /\ \A d \in Domains : u[d] # 0 => d \in l
    BY <1>0, <2>2, WithoutFacts
  <2>4. CASE Written(list', until')
    <3>1. Written(l, u)
      BY <2>1, <2>4 DEF Written
    <3> HIDE DEF l, u
    <3> QED
      BY <1>0, <2>1, <2>3, <3>1, WrittenKeeps
  <2>5. CASE NotWritten(list', until')
    <3>1. NotWritten(l, u)
      BY <2>1, <2>5 DEF NotWritten
    <3> HIDE DEF l, u
    <3> QED
      BY <1>0, <2>1, <2>3, <3>1, NotWrittenKeeps
  <2> QED
    BY <1>7, <2>4, <2>5 DEF Boot
<1>8. CASE Tamper
  <2>1. /\ up /\ failures' = failures + 1 /\ stale' = watched /\ watched' = watched
        /\ list' = list /\ until' = until /\ now' = now /\ up' = up /\ schema' = schema
        /\ crashes' = crashes
        /\ file' = Document({}, NoUnlocks)
    BY <1>8 DEF Tamper, memory, world, Empty
  <2>2. file' \in Documents /\ file'.domains = {} /\ file'.until = NoUnlocks
    BY <2>1, NoUnlocksFacts, DocumentFacts
  <2> QED
    BY <1>0, <2>1, <2>2, NoUnlocksFacts
    DEF IInv, TypeOK, OnlyBlockedWait, DurableUnlessFailed, Durable, ListIsWatched, Background
<1>9. CASE Tick
  <2>1. now' = now + 1 /\ UNCHANGED <<up, schema, watched, stale, file, crashes, failures, list, until>>
    BY <1>9 DEF Tick, memory
  <2> QED
    BY <1>0, <2>1
    DEF IInv, TypeOK, OnlyBlockedWait, DurableUnlessFailed, Durable, ListIsWatched, Background
<1>10. CASE UNCHANGED vars
  BY <1>10
  DEF vars, IInv, TypeOK, OnlyBlockedWait, DurableUnlessFailed, Durable, ListIsWatched, Background
<1> QED
  BY <1>1, <1>2, <1>3, <1>4, <1>5, <1>6, <1>7, <1>8, <1>9, <1>10 DEF Next, Command

\* The inductive invariant holds in every state of every behaviour.
THEOREM Invariant == Spec => []IInv
BY InitEstablishes, StepKeeps, PTL DEF Spec

\* The variables keep their types.
THEOREM TypeCorrect == Spec => []TypeOK
BY Invariant, PTL DEF IInv

\* Nobody waits to have a domain unblocked that is not blocked.
THEOREM NoStrayRequest == Spec => []OnlyBlockedWait
BY Invariant, PTL DEF IInv

\* Without a failing write, whatever a handler told its caller is on disk.
THEOREM NothingIsLost == Spec => []DurableUnlessFailed
BY Invariant, PTL DEF IInv

\* A list on disk that is not the daemon's does not go unnoticed.
THEOREM ListIsGuarded == Spec => []ListIsWatched
BY Invariant, PTL DEF IInv

-----------------------------------------------------------------------------
(* The promise *)

\* The map of requests that counts: in memory, or on file while the daemon is down.
Current == IF up THEN until ELSE file.until

\* What is promised of one domain follows from its request alone.
LEMMA LeftFacts ==
  ASSUME IInv
  PROVE  /\ Current \in Unlocks /\ now \in Nat
         /\ Left \in [Domains -> Nat \cup {-1}]
         /\ \A d \in Domains : Current[d] = 0 => Left[d] = -1
         /\ \A d \in Domains : Current[d] # 0 /\ Current[d] <= now => Left[d] = 0
         /\ \A d \in Domains : Current[d] > now => Left[d] = Current[d] - now
<1>1. Current \in Unlocks /\ now \in Nat
  BY DEF Current, IInv, TypeOK, Documents
<1>2. Left = [d \in Domains |-> IF Current[d] = 0 THEN -1
                                ELSE IF Current[d] > now THEN Current[d] - now ELSE 0]
  BY DEF Left, Current
<1>3. \A d \in Domains : Current[d] \in Nat
  BY <1>1 DEF Unlocks
<1> HIDE DEF Left, Current
<1> QED
  BY <1>1, <1>2, <1>3

LEMMA LeftStaysTyped == ASSUME IInv' PROVE Left' \in [Domains -> Nat \cup {-1}]
<1>1. Current' \in Unlocks /\ now' \in Nat
  BY DEF Current, IInv, TypeOK, Documents
<1>2. Left' = [d \in Domains |-> IF Current'[d] = 0 THEN -1
                                 ELSE IF Current'[d] > now' THEN Current'[d] - now' ELSE 0]
  BY DEF Left, Current
<1>3. \A d \in Domains : Current'[d] \in Nat
  BY <1>1 DEF Unlocks
<1> HIDE DEF Left, Current
<1> QED
  BY <1>1, <1>2, <1>3

\* In particular, where the requests and the clock stand still so does the promise.
LEMMA LeftStands ==
  ASSUME Current' = Current, now' = now
  PROVE  Left' = Left
BY DEF Left, Current

LEMMA InitKeepsPromise == IInv => Promise!Init
<1> SUFFICES ASSUME IInv PROVE Promise!Init
  OBVIOUS
<1>1. Left \in Promise!Lefts
  BY LeftFacts DEF Promise!Lefts, Promise!NoRequest
<1>2. Blocked \in SUBSET Domains
  BY DEF Blocked, IInv, TypeOK, Documents
<1>3. Durable \in BOOLEAN
  BY DEF Durable
<1> QED
  BY <1>1, <1>2, <1>3 DEF Promise!Init

\* A single request that is dropped is a withdrawal.
LEMMA DroppingWithdraws ==
  ASSUME IInv, IInv', up, up', now' = now, list' = list,
         NEW d \in Domains, until' = [until EXCEPT ![d] = 0]
  PROVE  Promise!Withdraw
<1>1. Current = until /\ Current' = until'
  BY DEF Current
<1>2. until \in Unlocks /\ now \in Nat
  BY <1>1, LeftFacts
<1>3. \A e \in Domains : Left'[e] = IF e = d THEN -1 ELSE Left[e]
  <2> SUFFICES ASSUME NEW e \in Domains PROVE Left'[e] = IF e = d THEN -1 ELSE Left[e]
    OBVIOUS
  <2>1. until'[e] = IF e = d THEN 0 ELSE until[e]
    BY <1>2 DEF Unlocks
  <2> QED
    BY <2>1 DEF Left
<1>4. Left \in [Domains -> Nat \cup {-1}] /\ Left' \in [Domains -> Nat \cup {-1}]
  BY LeftFacts, LeftStaysTyped
<1>5. Left' = [Left EXCEPT ![d] = -1]
  BY <1>3, <1>4
<1>6. Blocked' = Blocked
  BY DEF Blocked
<1> QED
  BY <1>5, <1>6 DEF Promise!Withdraw, Promise!NoRequest

\* Taking the matured requests of the current list, and no others, is a release.
LEMMA MaturingReleases ==
  ASSUME IInv, IInv', now' = now,
         Blocked' = Blocked \ Matured(Current),
         Current' = Without(Current, Matured(Current))
  PROVE  Promise!Release
<1>1. Current \in Unlocks /\ now \in Nat
  BY LeftFacts
<1>2. Matured(Current) \in SUBSET Domains
  BY DEF Matured
<1>3. \A d \in Domains : d \in Matured(Current) <=> Current[d] # 0 /\ Current[d] <= now
  BY DEF Matured
<1>4. \A d \in Domains : Current[d] # 0 => d \in Blocked
  BY DEF IInv, OnlyBlockedWait, Current, Blocked
<1>5. Blocked \in SUBSET Domains
  BY DEF Blocked, IInv, TypeOK, Documents
<1>6. Blocked \ Blocked' = Matured(Current)
  BY <1>2, <1>3, <1>4
<1>7. \A d \in Matured(Current) : Left[d] = 0
  BY <1>2, <1>3, LeftFacts
<1>8. \A d \in Domains : Left'[d] = IF d \in Matured(Current) THEN -1 ELSE Left[d]
  <2> SUFFICES ASSUME NEW d \in Domains
               PROVE  Left'[d] = IF d \in Matured(Current) THEN -1 ELSE Left[d]
    OBVIOUS
  <2>1. Current'[d] = IF d \in Matured(Current) THEN 0 ELSE Current[d]
    BY <1>1, <1>2, WithoutFacts
  <2>2. Left[d] = IF Current[d] = 0 THEN -1 ELSE IF Current[d] > now THEN Current[d] - now ELSE 0
    BY DEF Left, Current
  <2>3. Left'[d] = IF Current'[d] = 0 THEN -1 ELSE IF Current'[d] > now THEN Current'[d] - now ELSE 0
    BY DEF Left, Current
  <2> HIDE DEF Left, Current
  <2> QED
    BY <2>1, <2>2, <2>3
<1>9. Left' = [d \in Domains |-> IF d \in Blocked \ Blocked' THEN -1 ELSE Left[d]]
  <2>1. Left' \in [Domains -> Nat \cup {-1}]
    BY LeftStaysTyped
  <2> QED
    BY <1>6, <1>8, <2>1, Zenon
<1> QED
  BY <1>5, <1>6, <1>7, <1>9 DEF Promise!Release, Promise!NoRequest

\* Every step is one of the promise's, or none.
LEMMA StepKeepsPromise ==
  IInv /\ IInv' /\ [Next]_vars => [Promise!Next \/ UNCHANGED <<Blocked, Left>>]_Promise!vars
<1> SUFFICES ASSUME IInv, IInv', [Next]_vars
             PROVE  Promise!Next \/ (Blocked' = Blocked /\ Left' = Left)
  BY DEF Promise!vars
<1>0. /\ now \in Nat \ {0} /\ list \in SUBSET Domains /\ until \in Unlocks
      /\ file \in Documents /\ file.until \in Unlocks
  BY DEF IInv, TypeOK, Documents
<1>1. ASSUME NEW ds \in SUBSET Domains, Add(ds) PROVE Promise!Block
  <2>1. up /\ up' = up /\ now' = now /\ until' = until /\ list \subseteq list'
    BY <1>1 DEF Add, Commit, world
  <2>2. Left' = Left
    BY <2>1 DEF Left
  <2> QED
    BY <2>1, <2>2 DEF Promise!Block, Blocked
<1>2. ASSUME NEW d \in Domains, Request(d) PROVE Promise!Ask \/ Promise!Withdraw
  <2>1. up /\ up' = up /\ now' = now /\ list' = list /\ d \in list /\ ~(until[d] > now)
    BY <1>2 DEF Request, Commit, world, Waiting
  <2>2. CASE until' = [until EXCEPT ![d] = now + Delay]
    <3>1. Current = until /\ Current' = until'
      BY <2>1 DEF Current
    <3>2. Left[d] <= 0
      BY <1>0, <2>1, <3>1, LeftFacts DEF Unlocks
    <3>3. \A e \in Domains : Left'[e] = IF e = d THEN Delay ELSE Left[e]
      <4> SUFFICES ASSUME NEW e \in Domains
                   PROVE  Left'[e] = IF e = d THEN Delay ELSE Left[e]
        OBVIOUS
      <4>1. until'[e] = IF e = d THEN now + Delay ELSE until[e]
        BY <1>0, <2>2 DEF Unlocks
      <4> QED
        BY <1>0, <2>1, <4>1, ConstantsAssumption DEF Left
    <3>4. Left' = [Left EXCEPT ![d] = Delay]
      BY <3>3, LeftFacts, LeftStaysTyped
    <3>5. Blocked' = Blocked /\ d \in Blocked
      BY <2>1 DEF Blocked
    <3> QED
      BY <3>2, <3>4, <3>5 DEF Promise!Ask
  <2>3. CASE until' = [until EXCEPT ![d] = 0]
    BY <2>1, <2>3, DroppingWithdraws
  <2> QED
    BY <1>2, <2>2, <2>3 DEF Request, Commit
<1>3. ASSUME NEW d \in Domains, Cancel(d)
      PROVE  Promise!Withdraw \/ (Blocked' = Blocked /\ Left' = Left)
  <2>1. up /\ up' = up /\ now' = now /\ list' = list
    BY <1>3 DEF Cancel, Commit, world
  <2>2. CASE until' = [until EXCEPT ![d] = 0]
    BY <2>1, <2>2, DroppingWithdraws
  <2>3. CASE until' = until
    BY <2>1, <2>3 DEF Blocked, Left
  <2> QED
    BY <1>3, <2>2, <2>3 DEF Cancel, Commit
<1>4. CASE Mature
  <2>1. up /\ up' = up /\ now' = now
    BY <1>4 DEF Mature, world
  <2>2. CASE list' = list \ Matured(until) /\ until' = Without(until, Matured(until))
    <3>1. Blocked' = Blocked \ Matured(Current)
      BY <2>1, <2>2 DEF Blocked, Current
    <3>2. Current' = Without(Current, Matured(Current))
      BY <2>1, <2>2 DEF Current
    <3> QED
      BY <2>1, <3>1, <3>2, MaturingReleases DEF Promise!Next
  <2>3. CASE list' = list /\ until' = until
    BY <2>1, <2>3 DEF Blocked, Left
  <2> QED
    BY <1>4, <2>2, <2>3 DEF Mature, Commit
<1>5. CASE RestoreFile \/ Tamper
  <2>1. up /\ up' = up /\ now' = now /\ list' = list /\ until' = until
    BY <1>5 DEF RestoreFile, Tamper, memory, world
  <2> QED
    BY <2>1 DEF Blocked, Left
<1>6. CASE Crash
  <2>1. up /\ ~up' /\ now' = now /\ file' = file
    BY <1>6 DEF Crash
  <2>2. CASE Durable
    <3>1. file.domains = list /\ file.until = until
      BY <2>1, <2>2 DEF Durable
    <3>2. Blocked' = Blocked
      BY <2>1, <3>1 DEF Blocked
    <3>3. Current' = Current
      BY <2>1, <3>1 DEF Current
    <3> QED
      BY <2>1, <3>2, <3>3, LeftStands
  <2>3. CASE ~Durable
    <3>1. Blocked' \in SUBSET Domains
      BY <1>0, <2>1 DEF Blocked, Documents
    <3>2. Left' \in Promise!Lefts
      BY LeftStaysTyped DEF Promise!Lefts, Promise!NoRequest
    <3> QED
      BY <2>3, <3>1, <3>2 DEF Promise!Next, Promise!Upset
  <2> QED
    BY <2>2, <2>3
<1>7. CASE Boot
  <2>1. /\ ~up /\ up' /\ now' = now
        /\ list' = file.domains \ Matured(file.until)
        /\ until' = Without(file.until, Matured(file.until))
    BY <1>7 DEF Boot
  <2>2. Blocked' = Blocked \ Matured(Current)
    BY <2>1 DEF Blocked, Current
  <2>3. Current' = Without(Current, Matured(Current))
    BY <2>1 DEF Current
  <2> QED
    BY <2>1, <2>2, <2>3, MaturingReleases DEF Promise!Next
<1>8. CASE Tick
  <2>1. now' = now + 1 /\ up' = up /\ list' = list /\ until' = until /\ file' = file
    BY <1>8 DEF Tick, memory
  <2>2. Current' = Current /\ Blocked' = Blocked
    BY <2>1 DEF Current, Blocked
  <2>3. \A d \in Domains : Left'[d] = IF Left[d] > 0 THEN Left[d] - 1 ELSE Left[d]
    <3> SUFFICES ASSUME NEW d \in Domains
                 PROVE  Left'[d] = IF Left[d] > 0 THEN Left[d] - 1 ELSE Left[d]
      OBVIOUS
    <3>1. Current[d] \in Nat
      BY LeftFacts DEF Unlocks
    <3>2. Left[d] = IF Current[d] = 0 THEN -1
                    ELSE IF Current[d] > now THEN Current[d] - now ELSE 0
      BY DEF Left, Current
    <3>3. Left'[d] = IF Current[d] = 0 THEN -1
                     ELSE IF Current[d] > now + 1 THEN Current[d] - (now + 1) ELSE 0
      BY <2>1 DEF Left, Current
    <3> HIDE DEF Left, Current
    <3> QED
      BY <1>0, <3>1, <3>2, <3>3
  <2>4. Left' = [d \in Domains |-> IF Left[d] > 0 THEN Left[d] - 1 ELSE Left[d]]
    BY <2>3, LeftStaysTyped, Zenon
  <2> QED
    BY <2>2, <2>4 DEF Promise!Next, Promise!Elapse
<1>9. CASE UNCHANGED vars
  BY <1>9 DEF vars, Blocked, Left
<1> QED
  BY <1>1, <1>2, <1>3, <1>4, <1>5, <1>6, <1>7, <1>8, <1>9 DEF Next, Command, Promise!Next

\* The permanent blocklist, with its failing writes, its changed files and its crashes,
\* keeps the promise of PermaPromise: no domain gets off it before a request for it has
\* waited out the delay.
THEOREM KeepsItsDelay == Spec => KeepsDelay
<1>1. IInv => Promise!Init
  BY InitKeepsPromise
<1>2. IInv /\ IInv' /\ [Next]_vars => [Promise!Next \/ UNCHANGED <<Blocked, Left>>]_Promise!vars
  BY StepKeepsPromise
<1> QED
  BY <1>1, <1>2, Invariant, PTL DEF Spec, KeepsDelay, Promise!Spec

=============================================================================
