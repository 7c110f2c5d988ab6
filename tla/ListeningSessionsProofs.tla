---------------------- MODULE ListeningSessionsProofs ----------------------
(***************************************************************************)
(* What holds of the listening sessions for any plays, albums, number of   *)
(* request threads and faults.                                             *)
(*                                                                         *)
(* The inductive invariant says who holds what. A route holds the queue    *)
(* lock from its play to the commit, so one route at most is about to      *)
(* rotate; a transaction that selected the open row holds it until it is   *)
(* over, so what it archives is the row that is open still, once.          *)
(***************************************************************************)
EXTENDS ListeningSessions, TLAPS, SequenceTheorems

-----------------------------------------------------------------------------
\* A route at work holds the queue lock, and there is one open row to come.
RoutePlaces  == {"idle", "taking", "waiting", "rotating", "rotated"}
StatusPlaces == {"idle", "ended", "closing", "waiting", "writing"}

Turns ==
    /\ pc[Status] \in StatusPlaces
    /\ \A r \in Route :
        /\ pc[r] \in RoutePlaces
        /\ pc[r] # "idle" <=> lock = r
        /\ pc[r] # "idle" => want[r] \in Play
        /\ pc[r] \in {"taking", "waiting", "rotating"} => opened < MaxSessions

\* What a transaction that selected a row is to write of it.
IsOpen(row) == open # None /\ open.id = row.id /\ open.play = row.play

Holds(t) == pc[t] \in {"rotating", "writing"} /\ taken[t] # None

RowIsHeld == \A t \in Thread : Holds(t) => rowLock = t /\ IsOpen(taken[t])

\* A route waits for the row that is open, and finds none only if there is none.
RoutesRow ==
    \A r \in Route :
        /\ pc[r] = "waiting" /\ open # None => taken[r] # None /\ open.id = taken[r].id
        /\ pc[r] = "rotating" /\ taken[r] = None => open = None

\* The newest session is the open one, if any is.
Numbered ==
    /\ open # None => open.id = opened
    /\ \A i \in DOMAIN archive : archive[i].id <= opened

\* The open row is of the play that made the queue, and of the one in flight
\* once that has rotated.
OfTheQueue ==
    open # None =>
        /\ \A r \in Route : pc[r] = "rotated" => Same(open.play, want[r])
        /\ (\A r \in Route : pc[r] # "rotated") /\ ~adrift => made # None /\ Same(open.play, made)

SessionsSound ==
    /\ TypeOK /\ Turns /\ RowIsHeld /\ RoutesRow /\ Numbered
    /\ ArchivedOnce /\ CardsFitTheirOrigin /\ OfTheQueue


-----------------------------------------------------------------------------
\* Threads are many, but what each is at is its own.
LEMMA Threads == Route \subseteq Thread /\ Status \in Thread /\ Status \notin Route /\ Free \notin Thread
BY SessionsAssumption DEF Thread

\* Who selected the open row has it alone.
LEMMA OneHolds ==
    ASSUME SessionsSound, NEW t \in Thread, Holds(t), NEW u \in Thread, Holds(u)
    PROVE  t = u
BY DEF SessionsSound, RowIsHeld

\* Nobody holds a row where none is open, or the open one is free.
LEMMA NobodyHolds ==
    ASSUME SessionsSound, open = None \/ rowLock = Free, NEW u \in Thread
    PROVE  ~Holds(u)
BY Threads DEF SessionsSound, RowIsHeld, IsOpen

\* A snapshot has something of what the session began with, wherever it can.
LEMMA SnapshotFits ==
    ASSUME NEW p \in Play, NEW tracks \in SUBSET Tracks
    PROVE  /\ Snapshot(p, tracks) \subseteq Tracks
           /\ Lists(p) # {} => Snapshot(p, tracks) \cap Lists(p) # {}
           /\ p.origin = "track" => p.seed \in Snapshot(p, tracks) \cup {None}
<1>1. Lists(p) \subseteq Tracks /\ p.seed \in Tracks
  BY DEF Tracks
<1>2. p.origin = "track" => Lists(p) = {}
  BY DEF Lists
<1> QED BY <1>1, <1>2 DEF Snapshot

\* A card has a title, and a track.
LEMMA CardIs ==
    ASSUME NEW row \in RowType, NEW held \in [tracks : SUBSET Tracks, made : Play \cup {None}],
           Snapshot(row.play, held.tracks) # {}
    PROVE  /\ Card(row, held) \in CardType
           /\ Card(row, held).id = row.id /\ Card(row, held).play = row.play
           /\ Card(row, held).tracks = Snapshot(row.play, held.tracks)
<1>1. /\ row.id \in 1..MaxSessions /\ row.play \in Play /\ row.title \in Titles \cup {None}
      /\ held.tracks \in SUBSET Tracks /\ held.made \in Play \cup {None}
  BY DEF RowType
<1>2. Snapshot(row.play, held.tracks) \in (SUBSET Tracks) \ {{}}
  <2>1. Snapshot(row.play, held.tracks) \subseteq Tracks
    BY <1>1, SnapshotFits
  <2> QED BY <2>1
<1>3. CardTitle(row) \in Titles
  <2>1. NamedAfter(row.play) # None => NamedAfter(row.play) \in Titles
    BY <1>1 DEF NamedAfter, Titles
  <2>2. Mix \in Titles
    BY SessionsAssumption DEF Titles
  <2> QED BY <2>1, <2>2, <1>1 DEF CardTitle
<1> QED BY <1>1, <1>2, <1>3 DEF Card, CardType

\* What a transaction makes of the archive: as it was, or with one card more.
LEMMA ArchivedIs ==
    ASSUME SessionsSound, NEW t \in Thread
    PROVE  \/ Archived(t) = archive
           \/ /\ taken[t] # None /\ taken[t] \in RowType
              /\ Snapshot(taken[t].play, slots[t].tracks) # {}
              /\ Card(taken[t], slots[t]) \in CardType
              /\ Archived(t) = Append(archive, Card(taken[t], slots[t]))
<1>1. /\ taken[t] \in RowType \cup {None}
      /\ slots[t] \in [tracks : SUBSET Tracks, made : Play \cup {None}]
  BY DEF SessionsSound, TypeOK
<1>2. CASE taken[t] # None /\ Snapshot(taken[t].play, slots[t].tracks) # {}
  BY <1>1, <1>2, CardIs DEF Archived
<1>3. CASE ~(taken[t] # None /\ Snapshot(taken[t].play, slots[t].tracks) # {})
  BY <1>3 DEF Archived
<1> QED BY <1>2, <1>3

\* The queue a transaction is to archive.
LEMMA HoldingIs ==
    ASSUME SessionsSound, NEW t \in Thread, Holding(t)
    PROVE  slots' \in [Thread -> [tracks : SUBSET Tracks, made : Play \cup {None}]]
<1>1. /\ slots \in [Thread -> [tracks : SUBSET Tracks, made : Play \cup {None}]]
      /\ queue \subseteq Tracks /\ made \in Play \cup {None}
  BY DEF SessionsSound, TypeOK
<1>2. [tracks |-> queue, made |-> made] \in [tracks : SUBSET Tracks, made : Play \cup {None}]
  BY <1>1
<1> QED BY <1>1, <1>2 DEF Holding

-----------------------------------------------------------------------------
\* Over ends a transaction of t: what it held is let go.
LEMMA OverIs ==
    ASSUME TypeOK, NEW t \in Thread, Over(t)
    PROVE  /\ rowLock' \in Thread \cup {Free}
           /\ taken' \in [Thread -> RowType \cup {None}]
           /\ slots' \in [Thread -> [tracks : SUBSET Tracks, made : Play \cup {None}]]
<1>1. NoSlots \in [tracks : SUBSET Tracks, made : Play \cup {None}]
  BY DEF NoSlots
<1> QED BY <1>1 DEF TypeOK, Over, Unlock

\* The archive a transaction leaves, and what is to be named of it.
LEMMA ArchivesTyped ==
    ASSUME SessionsSound, NEW t \in Thread
    PROVE  Archived(t) \in Seq(CardType) /\ Unnamed(t) \subseteq 1..MaxSessions
<1>1. archive \in Seq(CardType) /\ taken[t] \in RowType \cup {None}
  BY DEF SessionsSound, TypeOK
<1>2. Archived(t) \in Seq(CardType)
  BY <1>1, ArchivedIs, AppendProperties
<1>3. Unnamed(t) \subseteq 1..MaxSessions
  BY <1>1, ArchivedIs DEF Unnamed, RowType
<1> QED BY <1>2, <1>3

LEMMA TypesKept ==
    ASSUME SessionsSound, Next
    PROVE  TypeOK'
<1>1. TypeOK /\ Turns
  BY DEF SessionsSound
<1>2. /\ NoSlots \in [tracks : SUBSET Tracks, made : Play \cup {None}]
      /\ {} \in SUBSET Tracks
  BY DEF NoSlots
<1>3. ASSUME NEW r \in Route, Plays(r) PROVE TypeOK'
  <2>1. r \in Thread
    BY Threads
  <2>2. ASSUME NEW p \in Play, Take(r, p) PROVE TypeOK'
    BY <1>1, <2>1, <2>2 DEF TypeOK, Take, Go, database
  <2>3. CASE SelectOpen(r)
    <3>1. CASE Select(r) /\ Go(r, "rotating")
      BY <1>1, <2>1, <2>3, <3>1, HoldingIs DEF TypeOK, SelectOpen, Select, Go, memory
    <3>2. CASE Wait(r) /\ UNCHANGED rowLock
      BY <1>1, <2>1, <2>3, <3>2, HoldingIs DEF TypeOK, SelectOpen, Wait, Go, memory
    <3> QED BY <2>3, <3>1, <3>2 DEF SelectOpen
  <2>4. CASE Woken(r)
    BY <1>1, <2>1, <2>4 DEF TypeOK, Woken, Go, memory
  <2>5. CASE KeepSession(r)
    BY <1>1, <2>1, <2>5, OverIs DEF TypeOK, KeepSession, Go, memory
  <2>6. CASE Rotate(r)
    <3>1. /\ opened \in Nat /\ opened + 1 \in 1..MaxSessions /\ want[r] \in Play
      BY <1>1, <2>6, SessionsAssumption DEF TypeOK, Turns, Rotate
    <3>2. NewTitle(r) \in Titles \cup {None}
      <4>1. CASE Archived(r) # archive
        <5>1. Card(taken[r], slots[r]) \in CardType
          BY <2>1, <4>1, ArchivedIs
        <5> QED BY <4>1, <5>1 DEF NewTitle, Card, CardType
      <4>2. CASE Archived(r) = archive
        BY <4>2, <3>1 DEF NewTitle, Titles
      <4> QED BY <4>1, <4>2
    <3>3. open' \in RowType
      BY <2>6, <3>1, <3>2 DEF Rotate, Row, RowType
    <3>4. /\ archive' \in Seq(CardType) /\ naming' \subseteq 1..MaxSessions /\ opened' \in 0..MaxSessions
      <4>1. opened' = opened + 1 /\ archive' = Archived(r) /\ naming' = naming \cup Unnamed(r)
        BY <2>6 DEF Rotate
      <4>2. Archived(r) \in Seq(CardType) /\ Unnamed(r) \subseteq 1..MaxSessions
        BY <2>1, ArchivesTyped
      <4>3. naming \subseteq 1..MaxSessions
        BY <1>1 DEF TypeOK
      <4>4. opened + 1 \in 0..MaxSessions
        BY <3>1, SessionsAssumption
      <4> QED BY <4>1, <4>2, <4>3, <4>4
    <3>5. /\ rowLock' \in Thread \cup {Free} /\ taken' \in [Thread -> RowType \cup {None}]
          /\ slots' \in [Thread -> [tracks : SUBSET Tracks, made : Play \cup {None}]]
      BY <1>1, <2>1, <2>6, OverIs DEF Rotate
    <3> QED BY <1>1, <2>1, <2>6, <3>3, <3>4, <3>5 DEF TypeOK, Rotate, Go, memory
  <2>7. CASE RotationFails(r)
    BY <1>1, <2>1, <2>7, OverIs DEF TypeOK, RotationFails, Go
  <2>8. CASE Commit(r)
    <3>1. want[r] \in Play
      BY <1>1, <2>8 DEF Turns, Commit
    <3>2. queue' \subseteq Tracks
      BY <1>1, <2>8, <3>1 DEF Commit, NewQueues, Tracks, TypeOK
    <3> QED BY <1>1, <2>1, <2>8, <3>1, <3>2 DEF TypeOK, Commit, Go, database
  <2>9. CASE FollowQueue(r)
    <3>1. want[r] \in Play
      BY <1>1, <2>9 DEF Turns, FollowQueue
    <3> QED BY <1>1, <2>1, <2>9, <3>1 DEF TypeOK, FollowQueue, Go, database
  <2>10. CASE CutShort(r)
    BY <1>1, <2>1, <2>10 DEF TypeOK, CutShort, Go, database
  <2> QED BY <1>3, <2>2, <2>3, <2>4, <2>5, <2>6, <2>7, <2>8, <2>9, <2>10 DEF Plays
<1>4. CASE Closes
  <2>1. Status \in Thread
    BY Threads
  <2>2. CASE QueueEnds
    BY <1>1, <2>1, <2>2 DEF TypeOK, QueueEnds, Go, memory, database
  <2>3. CASE ReadSlots
    <3>1. [tracks |-> queue, made |-> made] \in [tracks : SUBSET Tracks, made : Play \cup {None}]
      BY <1>1 DEF TypeOK
    <3> QED BY <1>1, <2>1, <2>3, <3>1 DEF TypeOK, ReadSlots, Go, memory, database
  <2>4. CASE SelectToClose
    <3>1. CASE Select(Status) /\ Go(Status, "writing")
      BY <1>1, <2>1, <2>4, <3>1, HoldingIs DEF TypeOK, SelectToClose, Select, Go, memory
    <3>2. CASE Wait(Status) /\ UNCHANGED rowLock
      BY <1>1, <2>1, <2>4, <3>2, HoldingIs DEF TypeOK, SelectToClose, Wait, Go, memory
    <3> QED BY <2>4, <3>1, <3>2 DEF SelectToClose
  <2>5. CASE Woken(Status)
    BY <1>1, <2>1, <2>5 DEF TypeOK, Woken, Go, memory
  <2>6. CASE CloseSession
    BY <1>1, <2>1, <2>6, OverIs, ArchivesTyped DEF TypeOK, CloseSession, Left, Go, memory
  <2>7. CASE CloseFails
    BY <1>1, <2>1, <2>7, OverIs DEF TypeOK, CloseFails, Go, memory
  <2> QED BY <1>4, <2>2, <2>3, <2>4, <2>5, <2>6, <2>7 DEF Closes
<1>5. ASSUME NEW t \in UNION {p.tracks : p \in Play}, Edit(queue \cup {t}) \/ Edit(queue \ {t}) PROVE TypeOK'
  <2>1. t \in Tracks
    BY DEF Tracks
  <2> QED BY <1>1, <1>5, <2>1 DEF TypeOK, Edit, database
<1>6. CASE Persist
  BY <1>1, <1>6 DEF TypeOK, Persist, database
<1>7. CASE WindowPasses
  BY <1>1, <1>7 DEF TypeOK, WindowPasses, RowType, memory
<1>8. ASSUME NEW i \in DOMAIN archive, NameMix(i) PROVE TypeOK'
  <2>1. /\ archive \in Seq(CardType) /\ archive[i] \in CardType /\ AiName \in Titles
    BY <1>1, SessionsAssumption DEF TypeOK, Titles
  <2>2. [archive[i] EXCEPT !.title = AiName] \in CardType
    BY <2>1 DEF CardType
  <2>3. [archive EXCEPT ![i].title = AiName] \in Seq(CardType)
    <3>1. [archive EXCEPT ![i].title = AiName] = [archive EXCEPT ![i] = [archive[i] EXCEPT !.title = AiName]]
      OBVIOUS
    <3> QED BY <2>1, <2>2, <3>1, ExceptSeq
  <2>4. archive' \in Seq(CardType)
    BY <1>8, <2>1, <2>3 DEF NameMix
  <2> QED BY <1>1, <1>8, <2>4 DEF TypeOK, NameMix, memory
<1>9. CASE Crash
  BY <1>1, <1>2, <1>9, Threads DEF TypeOK, Crash
<1> QED BY <1>3, <1>4, <1>5, <1>6, <1>7, <1>8, <1>9 DEF Next

-----------------------------------------------------------------------------
\* A route that is at work is the only one.
LEMMA OneRoute ==
    ASSUME SessionsSound, NEW r \in Route, pc[r] # "idle" \/ lock = Free
    PROVE  \A q \in Route \ {r} : pc[q] = "idle"
BY Threads DEF SessionsSound, Turns, Thread

LEMMA TurnsKept ==
    ASSUME SessionsSound, Next
    PROVE  Turns'
<1>1. /\ pc \in [Thread -> {"idle", "taking", "rotating", "rotated", "ended", "closing", "waiting", "writing"}]
      /\ want \in [Route -> Play \cup {None}] /\ opened \in Nat /\ Turns
  BY SessionsAssumption DEF SessionsSound, TypeOK
<1>2. /\ Route \subseteq Thread /\ Status \in Thread /\ Status \notin Route
      /\ Free \notin Route
  BY Threads
<1>3. ASSUME NEW r \in Route, Plays(r) PROVE Turns'
  <2>1. r \in Thread /\ r # Status
    BY <1>2
  <2>2. ASSUME NEW p \in Play, Take(r, p) PROVE Turns'
    BY <1>1, <1>2, <2>1, <2>2, OneRoute DEF Turns, Take, Go, database, RoutePlaces, StatusPlaces
  <2>3. CASE SelectOpen(r)
    BY <1>1, <1>2, <2>1, <2>3 DEF Turns, SelectOpen, Select, Wait, Go, memory, RoutePlaces, StatusPlaces
  <2>4. CASE Woken(r)
    BY <1>1, <1>2, <2>1, <2>4 DEF Turns, Woken, Go, memory, RoutePlaces, StatusPlaces
  <2>5. CASE KeepSession(r)
    BY <1>1, <1>2, <2>1, <2>5 DEF Turns, KeepSession, Go, memory, RoutePlaces, StatusPlaces
  <2>6. CASE Rotate(r)
    <3>1. \A q \in Route \ {r} : pc[q] = "idle"
      BY <2>6, OneRoute DEF Rotate
    <3> QED BY <1>1, <1>2, <2>1, <2>6, <3>1 DEF Turns, Rotate, Go, memory, RoutePlaces, StatusPlaces
  <2>7. CASE RotationFails(r) \/ Commit(r) \/ FollowQueue(r) \/ CutShort(r)
    <3>1. pc[r] # "idle" /\ pc' = [pc EXCEPT ![r] = "idle"] /\ lock' = Free
          /\ want' = [want EXCEPT ![r] = None] /\ opened' = opened
      BY <2>7 DEF RotationFails, Commit, FollowQueue, CutShort, Go, database
    <3>2. \A q \in Route \ {r} : pc[q] = "idle"
      BY <3>1, OneRoute
    <3> QED BY <1>1, <1>2, <2>1, <3>1, <3>2 DEF Turns, RoutePlaces, StatusPlaces
  <2> QED BY <1>3, <2>2, <2>3, <2>4, <2>5, <2>6, <2>7 DEF Plays
<1>4. CASE Closes
  <2>1. /\ \E where \in StatusPlaces : pc' = [pc EXCEPT ![Status] = where]
        /\ lock' = lock /\ want' = want /\ opened' = opened
    BY <1>2, <1>4 DEF Closes, QueueEnds, ReadSlots, SelectToClose, Select, Wait, Woken, CloseSession,
                      CloseFails, Go, memory, database, StatusPlaces
  <2> QED BY <1>1, <1>2, <2>1 DEF Turns, StatusPlaces
<1>5. ASSUME NEW tracks, Edit(tracks) PROVE Turns'
  BY <1>1, <1>5 DEF Turns, Edit, database
<1>6. CASE Persist \/ WindowPasses \/ \E i \in DOMAIN archive : NameMix(i)
  BY <1>1, <1>6 DEF Turns, Persist, WindowPasses, NameMix, memory, database
<1>7. CASE Crash
  BY <1>1, <1>2, <1>7 DEF Turns, Crash, RoutePlaces, StatusPlaces
<1> QED BY <1>3, <1>4, <1>5, <1>6, <1>7 DEF Next

-----------------------------------------------------------------------------
\* A step of t that leaves the open row and every hold on it alone, but for
\* what t takes for itself.
LEMMA HoldsStay ==
    ASSUME SessionsSound, NEW t \in Thread,
           \A u \in Thread \ {t} : pc'[u] = pc[u] /\ taken'[u] = taken[u],
           open' = open, rowLock' = rowLock \/ (rowLock = t /\ rowLock' = Free) \/ (rowLock = Free /\ rowLock' = t),
           Holds(t)' => rowLock' = t /\ IsOpen(taken'[t])
    PROVE  RowIsHeld'
<1>1. ASSUME NEW u \in Thread \ {t}, Holds(u)' PROVE rowLock' = u /\ IsOpen(taken[u])'
  <2>1. Holds(u)
    BY <1>1 DEF Holds
  <2>2. rowLock = u /\ IsOpen(taken[u])
    BY <2>1 DEF SessionsSound, RowIsHeld
  <2>3. rowLock' = u
    BY <2>2, Threads
  <2> QED BY <2>2, <2>3 DEF IsOpen
<1> QED BY <1>1 DEF RowIsHeld, IsOpen

LEMMA RowKept ==
    ASSUME SessionsSound, Next
    PROVE  RowIsHeld'
<1>1. /\ pc \in [Thread -> {"idle", "taking", "rotating", "rotated", "ended", "closing", "waiting", "writing"}]
      /\ taken \in [Thread -> RowType \cup {None}] /\ RowIsHeld
  BY DEF SessionsSound, TypeOK
<1>2. /\ Route \subseteq Thread /\ Status \in Thread /\ Status \notin Route
      /\ Free \notin Thread
  BY Threads
\* a thread that selects
<1>3. ASSUME NEW t \in Thread, Select(t), open' = open,
             Go(t, "rotating") \/ Go(t, "writing") PROVE RowIsHeld'
  BY <1>1, <1>3, HoldsStay DEF Select, RowFree, Go, Holds, IsOpen
\* or waits, or is woken
<1>4. ASSUME NEW t \in Thread, Wait(t) /\ UNCHANGED rowLock, open' = open PROVE RowIsHeld'
  BY <1>1, <1>4, HoldsStay DEF Wait, Go, Holds
<1>5. ASSUME NEW t \in Thread, Woken(t) PROVE RowIsHeld'
  <2>1. open' = open /\ \A u \in Thread \ {t} : pc'[u] = pc[u] /\ taken'[u] = taken[u]
    BY <1>1, <1>5 DEF Woken, Go
  <2>2. rowLock' = rowLock \/ (rowLock = Free /\ rowLock' = t)
    BY <1>5 DEF Woken
  <2>3. Holds(t)' => rowLock' = t /\ IsOpen(taken'[t])
    BY <1>1, <1>5 DEF Woken, Holds, IsOpen
  <2> QED BY <2>1, <2>2, <2>3, HoldsStay
\* or is over and leaves the row
<1>6. ASSUME NEW t \in Thread, Over(t), open' = open,
             Go(t, "rotated") \/ Go(t, "idle") PROVE RowIsHeld'
  BY <1>1, <1>6, HoldsStay DEF Over, Unlock, Go, Holds
\* one that ends the row holds it alone, and one that opens a row finds none
<1>7. ASSUME NEW t \in Thread, Over(t), Holds(t) \/ open = None,
             Go(t, "rotated") \/ Go(t, "idle") PROVE RowIsHeld'
  <2>1. \A u \in Thread \ {t} : ~Holds(u)
    BY <1>7, OneHolds, NobodyHolds
  <2>2. \A u \in Thread : ~Holds(u)'
    BY <1>1, <1>7, <2>1 DEF Over, Go, Holds
  <2> QED BY <2>2 DEF RowIsHeld
<1>8. ASSUME UNCHANGED <<pc, taken, rowLock>>,
             open' = open \/ (open # None /\ open' = [open EXCEPT !.fresh = FALSE]) PROVE RowIsHeld'
  <2>1. ASSUME NEW u \in Thread, Holds(u) PROVE IsOpen(taken[u])'
    <3>1. IsOpen(taken[u])
      BY <2>1, <1>1 DEF RowIsHeld
    <3>2. open \in RowType \cup {None}
      BY DEF SessionsSound, TypeOK
    <3>3. CASE open' = open
      BY <1>8, <3>1, <3>3 DEF IsOpen
    <3>4. CASE open # None /\ open' = [open EXCEPT !.fresh = FALSE]
      <4>1. open'.id = open.id /\ open'.play = open.play /\ open' \in RowType
        BY <3>2, <3>4 DEF RowType
      <4>2. open' # None
        BY <4>1, RowAssumption
      <4> QED BY <1>8, <3>1, <4>1, <4>2 DEF IsOpen
    <3> QED BY <1>8, <3>3, <3>4
  <2> QED BY <1>1, <1>8, <2>1 DEF RowIsHeld, Holds
<1>9. ASSUME NEW r \in Route, Plays(r) PROVE RowIsHeld'
  <2>1. r \in Thread
    BY <1>2
  <2>2. ASSUME NEW p \in Play, Take(r, p) PROVE RowIsHeld'
    BY <1>1, <2>1, <2>2, HoldsStay DEF Take, Go, database, Holds
  <2>3. CASE SelectOpen(r)
    BY <2>1, <2>3, <1>3, <1>4 DEF SelectOpen
  <2>4. CASE Woken(r)
    BY <2>1, <2>4, <1>5
  <2>5. CASE KeepSession(r) \/ RotationFails(r)
    BY <2>1, <2>5, <1>6 DEF KeepSession, RotationFails
  <2>6. CASE Rotate(r)
    <3>1. Holds(r) \/ open = None
      BY <2>6 DEF Rotate, Holds, SessionsSound, RoutesRow
    <3> QED BY <2>1, <2>6, <3>1, <1>7 DEF Rotate
  <2>7. CASE Commit(r) \/ FollowQueue(r) \/ CutShort(r)
    <3>1. UNCHANGED <<open, rowLock, taken>> /\ Go(r, "idle")
      BY <2>7 DEF Commit, FollowQueue, CutShort, database
    <3> QED BY <1>1, <2>1, <3>1, HoldsStay DEF Go, Holds
  <2> QED BY <1>9, <2>2, <2>3, <2>4, <2>5, <2>6, <2>7 DEF Plays
<1>10. CASE Closes
  <2>1. CASE QueueEnds \/ ReadSlots
    <3>1. UNCHANGED <<open, rowLock, taken>> /\ (Go(Status, "ended") \/ Go(Status, "closing"))
      BY <2>1 DEF QueueEnds, ReadSlots, database
    <3> QED BY <1>1, <1>2, <3>1, HoldsStay DEF Go, Holds
  <2>2. CASE SelectToClose
    BY <1>2, <2>2, <1>3, <1>4 DEF SelectToClose
  <2>3. CASE Woken(Status)
    BY <1>2, <2>3, <1>5
  <2>4. CASE CloseSession
    <3>1. CASE Holds(Status)
      BY <1>2, <2>4, <3>1, <1>7 DEF CloseSession
    <3>2. CASE ~Holds(Status)
      <4>1. open' = open
        BY <2>4, <3>2 DEF CloseSession, Left, Holds
      <4> QED BY <1>2, <2>4, <4>1, <1>6 DEF CloseSession
    <3> QED BY <3>1, <3>2
  <2>5. CASE CloseFails
    BY <1>2, <2>5, <1>6 DEF CloseFails
  <2> QED BY <1>10, <2>1, <2>2, <2>3, <2>4, <2>5 DEF Closes
<1>11. ASSUME NEW tracks, Edit(tracks) PROVE RowIsHeld'
  BY <1>11, <1>8 DEF Edit, database
<1>12. CASE Persist \/ WindowPasses \/ \E i \in DOMAIN archive : NameMix(i)
  <2>1. UNCHANGED <<pc, taken, rowLock>>
    BY <1>12 DEF Persist, WindowPasses, NameMix, database
  <2>2. open' = open \/ (open # None /\ open' = [open EXCEPT !.fresh = FALSE])
    BY <1>12 DEF Persist, WindowPasses, NameMix, database
  <2> QED BY <2>1, <2>2, <1>8
<1>13. CASE Crash
  BY <1>2, <1>13 DEF RowIsHeld, Crash, Holds
<1> QED BY <1>9, <1>10, <1>11, <1>12, <1>13 DEF Next

-----------------------------------------------------------------------------
LEMMA RoutesRowKept ==
    ASSUME SessionsSound, Next
    PROVE  RoutesRow'
<1>1. /\ pc \in [Thread -> {"idle", "taking", "rotating", "rotated", "ended", "closing", "waiting", "writing"}]
      /\ taken \in [Thread -> RowType \cup {None}] /\ RoutesRow /\ Turns /\ open \in RowType \cup {None}
  BY DEF SessionsSound, TypeOK
<1>2. /\ Route \subseteq Thread /\ Status \in Thread /\ Status \notin Route
  BY Threads
\* a route at work is alone
<1>3. ASSUME NEW r \in Route, Plays(r) PROVE RoutesRow'
  <2>1. r \in Thread /\ (pc[r] # "idle" \/ lock = Free)
    BY <1>2, <1>3 DEF Plays, Take, SelectOpen, Woken, KeepSession, Rotate, RotationFails, Commit,
                      FollowQueue, CutShort
  <2>2. \A q \in Route \ {r} : pc[q] = "idle"
    BY <2>1, OneRoute
  <2>3. \A q \in Route \ {r} : pc'[q] = "idle"
    BY <1>1, <1>2, <1>3, <2>2 DEF Plays, Take, SelectOpen, Select, Wait, Woken, KeepSession, Rotate,
                           RotationFails, Commit, FollowQueue, CutShort, Go
  <2>4. CASE SelectOpen(r)
    BY <1>1, <2>1, <2>3, <2>4 DEF RoutesRow, SelectOpen, Select, Wait, RowFree, Go
  <2>5. CASE Woken(r)
    BY <1>1, <2>1, <2>3, <2>5 DEF RoutesRow, Woken, Go
  <2>6. CASE pc'[r] \notin {"waiting", "rotating"}
    BY <2>3, <2>6 DEF RoutesRow
  <2>7. ~SelectOpen(r) /\ ~Woken(r) => pc'[r] \notin {"waiting", "rotating"}
    BY <1>1, <1>3, <2>1 DEF Plays, Take, KeepSession, Rotate, RotationFails, Commit, FollowQueue, CutShort, Go
  <2> QED BY <2>4, <2>5, <2>6, <2>7
\* nobody else opens a row, or puts another in its place
<1>4. ASSUME \A r \in Route : pc'[r] = pc[r] /\ taken'[r] = taken[r],
             \/ open' \in {open, None} \/ (open # None /\ open' = [open EXCEPT !.fresh = FALSE]) PROVE RoutesRow'
  <2>1. open' # None => open # None /\ open'.id = open.id
    BY <1>1, <1>4 DEF RowType
  <2> QED BY <1>1, <1>4, <2>1 DEF RoutesRow
<1>5. CASE Closes
  <2>1. \A r \in Route : pc'[r] = pc[r] /\ taken'[r] = taken[r]
    BY <1>1, <1>2, <1>5 DEF Closes, QueueEnds, ReadSlots, SelectToClose, Select, Wait, Woken, CloseSession,
                      CloseFails, Over, Go
  <2>2. open' \in {open, None}
    BY <1>5 DEF Closes, QueueEnds, ReadSlots, SelectToClose, Woken, CloseSession, CloseFails, Left, database
  <2> QED BY <2>1, <2>2, <1>4
<1>6. ASSUME NEW tracks, Edit(tracks) PROVE RoutesRow'
  BY <1>4, <1>6 DEF Edit, database
<1>7. CASE Persist \/ WindowPasses \/ \E i \in DOMAIN archive : NameMix(i)
  BY <1>4, <1>7 DEF Persist, WindowPasses, NameMix, database
<1>8. CASE Crash
  BY <1>2, <1>8 DEF RoutesRow, Crash
<1> QED BY <1>3, <1>5, <1>6, <1>7, <1>8 DEF Next

-----------------------------------------------------------------------------
\* One card more, of the session that was open.
LEMMA ArchivesOnce ==
    ASSUME SessionsSound, NEW t \in Thread, taken[t] # None => IsOpen(taken[t]),
           archive' = Archived(t), opened' \in {opened, opened + 1},
           \/ open' = None
           \/ opened' = opened + 1 /\ open'.id = opened'
           \/ taken[t] = None /\ open' = open /\ opened' = opened
    PROVE  Numbered' /\ ArchivedOnce' /\ CardsFitTheirOrigin'
<1>1. /\ archive \in Seq(CardType) /\ opened \in Int /\ open \in RowType \cup {None}
      /\ Numbered /\ ArchivedOnce /\ CardsFitTheirOrigin
      /\ slots[t] \in [tracks : SUBSET Tracks, made : Play \cup {None}]
  BY SessionsAssumption DEF SessionsSound, TypeOK
<1>2. \A i \in DOMAIN archive : archive[i].id \in Int
  <2>1. \A i \in DOMAIN archive : archive[i] \in CardType
    BY <1>1
  <2> QED BY <2>1 DEF CardType
<1>3. CASE Archived(t) = archive
  <2>1. archive' = archive
    BY <1>3
  <2>2. CardsFitTheirOrigin'
    BY <1>1, <2>1 DEF CardsFitTheirOrigin
  <2>3. \A i \in DOMAIN archive : archive[i].id <= opened'
    BY <1>1, <1>2 DEF Numbered
  <2>4. Numbered'
    BY <1>1, <2>1, <2>3 DEF Numbered
  <2>5. open' # None => \A i \in DOMAIN archive : archive[i].id # open'.id
    BY <1>1, <1>2 DEF Numbered, ArchivedOnce
  <2>6. ArchivedOnce'
    BY <1>1, <2>1, <2>5 DEF ArchivedOnce
  <2> QED BY <2>2, <2>4, <2>6
<1>4. CASE Archived(t) # archive
  <2> DEFINE card == Card(taken[t], slots[t])
  <2>1. /\ taken[t] # None /\ taken[t] \in RowType /\ card \in CardType
        /\ Snapshot(taken[t].play, slots[t].tracks) # {}
        /\ archive' = Append(archive, card)
    BY <1>4, ArchivedIs
  <2>2. card.id = taken[t].id /\ card.play = taken[t].play
        /\ card.tracks = Snapshot(taken[t].play, slots[t].tracks)
    BY <1>1, <2>1, CardIs
  <2>3. card.id = opened /\ open # None
    BY <1>1, <2>1, <2>2 DEF IsOpen, Numbered
  <2>4. /\ Lists(card.play) # {} => card.tracks \cap Lists(card.play) # {}
        /\ card.play.origin = "track" => card.play.seed \in card.tracks \cup {None}
    <3>1. taken[t].play \in Play /\ slots[t].tracks \in SUBSET Tracks
      BY <1>1, <2>1 DEF RowType
    <3> QED BY <2>2, <3>1, SnapshotFits
  <2> HIDE DEF card
  <2>5. /\ DOMAIN archive' = 1..(Len(archive) + 1)
        /\ \A i \in DOMAIN archive : archive'[i] = archive[i]
        /\ archive'[Len(archive) + 1] = card
    BY <1>1, <2>1, AppendProperties
  <2>6. DOMAIN archive = 1..Len(archive) /\ Len(archive) \in Nat
    BY <1>1
  <2>7. \A i \in DOMAIN archive' : i \in DOMAIN archive \/ archive'[i] = card
    BY <2>5, <2>6
  <2>8. \A i \in DOMAIN archive : archive[i].id < opened
    BY <1>1, <1>2, <2>3 DEF Numbered, ArchivedOnce
  <2>9. open' # None => opened' = opened + 1 /\ open'.id = opened'
    BY <2>1
  <2>10. \A i \in DOMAIN archive' : archive'[i].id <= opened /\ archive'[i].id \in Int
    BY <1>1, <1>2, <2>3, <2>5, <2>7, <2>8
  <2>11. Numbered'
    BY <1>1, <2>9, <2>10 DEF Numbered
  <2>12. ArchivedOnce'
    <3>1. \A i, j \in DOMAIN archive' : archive'[i].id = archive'[j].id => i = j
      <4>1. TAKE i, j \in DOMAIN archive'
      <4>2. HAVE archive'[i].id = archive'[j].id
      <4>3. CASE i \in DOMAIN archive /\ j \in DOMAIN archive
        BY <1>1, <2>5, <4>2, <4>3 DEF ArchivedOnce
      <4>4. CASE i \notin DOMAIN archive /\ j \notin DOMAIN archive
        BY <2>5, <2>6, <4>4
      <4>5. CASE (i \in DOMAIN archive) # (j \in DOMAIN archive)
        <5>1. CASE i \in DOMAIN archive /\ j \notin DOMAIN archive
          BY <1>1, <1>2, <2>3, <2>5, <2>7, <2>8, <4>2, <5>1
        <5>2. CASE j \in DOMAIN archive /\ i \notin DOMAIN archive
          BY <1>1, <1>2, <2>3, <2>5, <2>7, <2>8, <4>2, <5>2
        <5> QED BY <4>5, <5>1, <5>2
      <4> QED BY <4>3, <4>4, <4>5
    <3>2. open' # None => \A i \in DOMAIN archive' : archive'[i].id # open'.id
      BY <1>1, <2>9, <2>10
    <3> QED BY <3>1, <3>2 DEF ArchivedOnce
  <2>13. CardsFitTheirOrigin'
    BY <1>1, <2>4, <2>5, <2>7 DEF CardsFitTheirOrigin
  <2> QED BY <2>11, <2>12, <2>13
<1> QED BY <1>3, <1>4

LEMMA ArchiveKept ==
    ASSUME SessionsSound, Next
    PROVE  Numbered' /\ ArchivedOnce' /\ CardsFitTheirOrigin'
<1>1. /\ archive \in Seq(CardType) /\ open \in RowType \cup {None} /\ RowIsHeld
      /\ Numbered /\ ArchivedOnce /\ CardsFitTheirOrigin
      /\ \A t \in Thread : taken[t] \in RowType \cup {None}
  BY DEF SessionsSound, TypeOK
<1>2. ASSUME UNCHANGED <<archive, opened>>,
             open' = open \/ (open # None /\ open' = [open EXCEPT !.fresh = FALSE])
      PROVE  Numbered' /\ ArchivedOnce' /\ CardsFitTheirOrigin'
  <2>1. open' # None => open # None /\ open'.id = open.id
    BY <1>1, <1>2 DEF RowType
  <2> QED BY <1>1, <1>2, <2>1 DEF Numbered, ArchivedOnce, CardsFitTheirOrigin
<1>3. ASSUME NEW r \in Route, Plays(r) PROVE Numbered' /\ ArchivedOnce' /\ CardsFitTheirOrigin'
  <2>1. CASE Rotate(r)
    <3>1. r \in Thread /\ (taken[r] # None => IsOpen(taken[r]))
      BY <1>1, <2>1, Threads DEF Rotate, RowIsHeld, Holds
    <3>2. open'.id = opened + 1 /\ opened' = opened + 1 /\ archive' = Archived(r)
      BY <2>1 DEF Rotate, Row
    <3> QED BY <3>1, <3>2, ArchivesOnce
  <2>2. CASE ~Rotate(r)
    <3>1. UNCHANGED <<archive, opened, open>>
      BY <1>3, <2>2 DEF Plays, Take, SelectOpen, Woken, KeepSession, RotationFails, Commit, FollowQueue,
                        CutShort, database
    <3> QED BY <3>1, <1>2
  <2> QED BY <2>1, <2>2
<1>4. CASE Closes
  <2>1. CASE CloseSession
    <3>1. Status \in Thread /\ (taken[Status] # None => IsOpen(taken[Status]))
      BY <1>1, <2>1, Threads DEF CloseSession, RowIsHeld, Holds
    <3>2. open' = None \/ (taken[Status] = None /\ open' = open)
      BY <2>1, <3>1 DEF CloseSession, Left, IsOpen
    <3>3. opened' = opened /\ archive' = Archived(Status)
      BY <2>1 DEF CloseSession
    <3> QED BY <3>1, <3>2, <3>3, ArchivesOnce
  <2>2. CASE ~CloseSession
    <3>1. UNCHANGED <<archive, opened, open>>
      BY <1>4, <2>2 DEF Closes, QueueEnds, ReadSlots, SelectToClose, Woken, CloseFails, database
    <3> QED BY <3>1, <1>2
  <2> QED BY <2>1, <2>2
<1>5. ASSUME NEW tracks, Edit(tracks) PROVE Numbered' /\ ArchivedOnce' /\ CardsFitTheirOrigin'
  BY <1>2, <1>5 DEF Edit, database
<1>6. CASE Persist \/ WindowPasses \/ Crash
  BY <1>2, <1>6 DEF Persist, WindowPasses, Crash, database
<1>7. ASSUME NEW i \in DOMAIN archive, NameMix(i) PROVE Numbered' /\ ArchivedOnce' /\ CardsFitTheirOrigin'
  <2>1. /\ DOMAIN archive' = DOMAIN archive
        /\ \A j \in DOMAIN archive : /\ archive'[j].id = archive[j].id /\ archive'[j].play = archive[j].play
                                     /\ archive'[j].tracks = archive[j].tracks
    <3>1. \A j \in DOMAIN archive : archive[j] \in CardType
      BY <1>1
    <3>2. archive' = archive \/ archive' = [archive EXCEPT ![i].title = AiName]
      BY <1>7 DEF NameMix
    <3> QED BY <3>1, <3>2 DEF CardType
  <2>2. open' = open /\ opened' = opened
    BY <1>7 DEF NameMix
  <2> QED BY <1>1, <2>1, <2>2 DEF Numbered, ArchivedOnce, CardsFitTheirOrigin
<1> QED BY <1>3, <1>4, <1>5, <1>6, <1>7 DEF Next

-----------------------------------------------------------------------------
LEMMA OfTheQueueKept ==
    ASSUME SessionsSound, Next
    PROVE  OfTheQueue'
<1>1. /\ pc \in [Thread -> {"idle", "taking", "rotating", "rotated", "ended", "closing", "waiting", "writing"}]
      /\ want \in [Route -> Play \cup {None}] /\ open \in RowType \cup {None}
      /\ OfTheQueue /\ Turns /\ RowIsHeld
  BY DEF SessionsSound, TypeOK
<1>2. /\ Route \subseteq Thread /\ Status \in Thread /\ Status \notin Route
  BY Threads
\* a step that is neither a rotation nor a commit
<1>3. ASSUME \A r \in Route : (pc'[r] = "rotated" <=> pc[r] = "rotated") /\ (pc[r] = "rotated" => want'[r] = want[r]),
             UNCHANGED <<made, adrift>>,
             open' \in {open, None} \/ (open # None /\ open' = [open EXCEPT !.fresh = FALSE])
      PROVE  OfTheQueue'
  <2>1. open' # None => open # None /\ open'.play = open.play
    BY <1>1, <1>3 DEF RowType
  <2> QED BY <1>1, <1>3, <2>1 DEF OfTheQueue, Same
<1>4. ASSUME NEW r \in Route, Plays(r) PROVE OfTheQueue'
  <2>1. r \in Thread /\ (pc[r] # "idle" \/ lock = Free)
    BY <1>2, <1>4 DEF Plays, Take, SelectOpen, Woken, KeepSession, Rotate, RotationFails, Commit,
                      FollowQueue, CutShort
  <2>2. \A q \in Route \ {r} : pc[q] = "idle"
    BY <2>1, OneRoute
  <2>3. \A q \in Route \ {r} : pc'[q] = "idle"
    BY <1>1, <1>2, <1>4, <2>2 DEF Plays, Take, SelectOpen, Select, Wait, Woken, KeepSession, Rotate,
                           RotationFails, Commit, FollowQueue, CutShort, Go
  <2>4. CASE KeepSession(r)
    <3>1. open' = open /\ want' = want /\ pc'[r] = "rotated"
      BY <1>1, <2>1, <2>4 DEF KeepSession, Go
    <3>2. IsOpen(taken[r]) /\ Same(taken[r].play, want[r])
      BY <1>1, <2>1, <2>4 DEF KeepSession, Repeats, RowIsHeld, Holds
    <3> QED BY <2>3, <3>1, <3>2 DEF OfTheQueue, IsOpen, Same
  <2>5. CASE Rotate(r)
    <3>1. open'.play = want[r] /\ want' = want /\ pc'[r] = "rotated"
      BY <1>1, <2>1, <2>5 DEF Rotate, Row, Go
    <3> QED BY <2>3, <3>1 DEF OfTheQueue, Same
  <2>6. CASE Commit(r) \/ FollowQueue(r)
    <3>1. /\ open' = open /\ made' = want[r] /\ pc[r] = "rotated" /\ pc'[r] = "idle"
      BY <1>1, <2>1, <2>6 DEF Commit, FollowQueue, database, Go
    <3>2. want[r] # None
      BY <1>1, <3>1, SessionsAssumption DEF Turns
    <3> QED BY <1>1, <2>3, <3>1, <3>2 DEF OfTheQueue
  <2>7. CASE CutShort(r)
    <3>1. adrift' = TRUE /\ pc'[r] = "idle"
      BY <1>1, <2>1, <2>7 DEF CutShort, Go
    <3> QED BY <2>3, <3>1 DEF OfTheQueue
  <2>8. ASSUME NEW p \in Play, Take(r, p) PROVE OfTheQueue'
    BY <1>1, <1>3, <2>1, <2>2, <2>8 DEF Take, Go, database
  <2>9. CASE SelectOpen(r)
    <3>1. pc[r] = "taking" /\ (Go(r, "rotating") \/ Go(r, "waiting")) /\ UNCHANGED <<open, want, made, adrift>>
      BY <2>9 DEF SelectOpen, Wait, memory
    <3> QED BY <1>1, <1>2, <1>3, <2>1, <2>2, <3>1 DEF Go
  <2>10. CASE Woken(r)
    BY <1>1, <1>2, <1>3, <2>1, <2>2, <2>10 DEF Woken, Go, memory
  <2>11. CASE RotationFails(r)
    BY <1>1, <1>3, <2>1, <2>2, <2>11 DEF RotationFails, Go
  <2> QED BY <1>4, <2>4, <2>5, <2>6, <2>7, <2>8, <2>9, <2>10, <2>11 DEF Plays
<1>5. CASE Closes
  <2>1. /\ \A r \in Route : pc'[r] = pc[r] /\ want'[r] = want[r]
        /\ UNCHANGED <<made, adrift>>
    BY <1>1, <1>2, <1>5 DEF Closes, QueueEnds, ReadSlots, SelectToClose, Select, Wait, Woken, CloseSession,
                      CloseFails, Over, Go, memory
  <2>2. open' \in {open, None}
    BY <1>5 DEF Closes, QueueEnds, ReadSlots, SelectToClose, Woken, CloseSession, CloseFails, Left, database
  <2> QED BY <2>1, <2>2, <1>3
<1>6. ASSUME NEW tracks, Edit(tracks) PROVE OfTheQueue'
  BY <1>3, <1>6 DEF Edit, database
<1>7. CASE Persist \/ WindowPasses \/ \E i \in DOMAIN archive : NameMix(i)
  BY <1>3, <1>7 DEF Persist, WindowPasses, NameMix, memory, database
<1>8. CASE Crash
  BY <1>2, <1>8 DEF OfTheQueue, Crash
<1> QED BY <1>4, <1>5, <1>6, <1>7, <1>8 DEF Next

-----------------------------------------------------------------------------
LEMMA InitSound == Init => SessionsSound
<1> SUFFICES ASSUME Init PROVE SessionsSound
  OBVIOUS
<1>1. NoSlots \in [tracks : SUBSET Tracks, made : Play \cup {None}]
  BY DEF NoSlots
<1>2. TypeOK
  <2>1. 0 \in 0..MaxSessions /\ <<>> \in Seq(CardType)
    BY SessionsAssumption, EmptySeq
  <2> QED BY <1>1, <2>1 DEF Init, TypeOK
<1>3. Turns /\ RowIsHeld /\ RoutesRow
  BY Threads DEF Init, Turns, RowIsHeld, RoutesRow, Holds, RoutePlaces, StatusPlaces, Thread
<1>4. Numbered /\ ArchivedOnce /\ CardsFitTheirOrigin /\ OfTheQueue
  BY DEF Init, Numbered, ArchivedOnce, CardsFitTheirOrigin, OfTheQueue
<1> QED BY <1>2, <1>3, <1>4 DEF SessionsSound

LEMMA StepSound == SessionsSound /\ [Next]_vars => SessionsSound'
<1>1. ASSUME SessionsSound, Next PROVE SessionsSound'
  BY <1>1, TypesKept, TurnsKept, RowKept, RoutesRowKept, ArchiveKept, OfTheQueueKept DEF SessionsSound
<1>2. ASSUME SessionsSound, UNCHANGED vars PROVE SessionsSound'
  BY <1>2 DEF vars, SessionsSound, TypeOK, Turns, RowIsHeld, RoutesRow, Numbered, ArchivedOnce,
              CardsFitTheirOrigin, OfTheQueue, Holds, IsOpen
<1> QED BY <1>1, <1>2

\* Who holds what, in every reachable state (sessions._archive_and_open_session).
THEOREM SessionsAreSound == Spec => []SessionsSound
BY InitSound, StepSound, PTL DEF Spec

\* Every variable keeps its kind, and every card has a title and a track
\* (_compute_session_card, _snapshot_slots_for).
THEOREM SessionsTypeCorrect == Spec => []TypeOK
<1>1. SessionsSound => TypeOK
  BY DEF SessionsSound
<1> QED BY <1>1, SessionsAreSound, PTL

\* A session goes into history once, whichever of a play and the end of the
\* queue archives it (SELECT ... FOR UPDATE).
THEOREM SessionsArchiveOnce == Spec => []ArchivedOnce
<1>1. SessionsSound => ArchivedOnce
  BY DEF SessionsSound
<1> QED BY <1>1, SessionsAreSound, PTL

\* A card shows something of what its title names (_snapshot_slots_for).
THEOREM CardsFit == Spec => []CardsFitTheirOrigin
<1>1. SessionsSound => CardsFitTheirOrigin
  BY DEF SessionsSound
<1> QED BY <1>1, SessionsAreSound, PTL

\* The open session is the one of the queue that plays (rotate_session).
THEOREM OpenSessionFollows == Spec => []OpenSessionIsTheQueues
<1>1. SessionsSound => OpenSessionIsTheQueues
  BY Threads DEF SessionsSound, OpenSessionIsTheQueues, OfTheQueue, Turns, Thread
<1> QED BY <1>1, SessionsAreSound, PTL

=============================================================================
