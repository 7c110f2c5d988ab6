-------------------------- MODULE ListeningSessions --------------------------
(***************************************************************************)
(* Listening sessions (backend/playback/sessions.py): the queue's history, *)
(* kept in PostgreSQL. A route that replaces the queue rotates the session *)
(* once the output took the new queue and before the commit, under the     *)
(* queue lock: the open session is archived with the slots of the queue,   *)
(* and one for the new queue is opened. A status thread that sees the      *)
(* queue played out archives the open session as well, with no queue lock. *)
(*                                                                         *)
(* Both are one transaction: it takes the open row (SELECT ... FOR UPDATE) *)
(* and writes, or rolls back. A process that dies leaves the database and  *)
(* the queue it last stored, which is restored when it starts again.       *)
(*                                                                         *)
(* A queue is the set of tracks in it; a card is its title and its tracks. *)
(***************************************************************************)
EXTENDS Integers, Sequences, FiniteSets

CONSTANTS
    None,         \* no album, no name, no session
    Play,         \* what may be played: [origin, album, seed, tracks, name]
    AlbumTracks,  \* the tracks each album lists
    Route,        \* request threads
    Status,       \* the status thread
    Free,         \* a lock nobody holds
    Mix,          \* the placeholder a mix with no name is archived under
    AiName,       \* a name the AI gives
    Faults,       \* what may go wrong: a subset of AllFaults
    MaxSessions   \* bound on the sessions ever opened

AllFaults == {"rollback", "cut", "crash"}

ASSUME SessionsAssumption ==
    /\ Free \notin Route \cup {Status} /\ Status \notin Route
    /\ Faults \subseteq AllFaults /\ MaxSessions \in Nat
    /\ None \notin Play \cup {Mix, AiName}
    /\ \A p \in Play : p.origin \in {"album", "track", "radio", "mix"}

VARIABLES
    queue,      \* the tracks of the canonical queue
    made,       \* history: the play that made it, or None
    stored,     \* player.queue of the settings: [tracks, made]
    unsaved,    \* the persist timer runs
    lock,       \* who holds the queue lock
    open,       \* the row with ended_at NULL, or None
    opened,     \* bound: sessions opened so far
    archive,    \* the archived rows, oldest first
    naming,     \* the rows a title thread is to name
    rowLock,    \* who holds the open row
    pc,         \* where each thread stands
    want,       \* what each route plays
    taken,      \* the row each transaction selected
    slots,      \* the queue each transaction archives: [tracks, made]
    adrift      \* history: a fault left the open session and the queue apart

vars == <<queue, made, stored, unsaved, lock, open, opened, archive, naming,
          rowLock, pc, want, taken, slots, adrift>>

database == <<open, opened, archive, naming, rowLock>>
memory   == <<queue, made, unsaved, lock>>

Thread == Route \cup {Status}
NoSlots == [tracks |-> {}, made |-> None]

\* The open row of the play it was opened with; fresh while it is less than
\* _SESSION_DEDUP_WINDOW_SEC old.
Row(id, play, title) == [id |-> id, play |-> play, title |-> title, fresh |-> TRUE]

\* What a repeated play is known by.
Same(p, q) == p.origin = q.origin /\ p.album = q.album /\ p.seed = q.seed

Init ==
    /\ queue = {} /\ made = None /\ stored = NoSlots /\ unsaved = FALSE
    /\ lock = Free /\ rowLock = Free
    /\ open = None /\ opened = 0 /\ archive = <<>> /\ naming = {}
    /\ pc = [t \in Thread |-> "idle"] /\ want = [r \in Route |-> None]
    /\ taken = [t \in Thread |-> None] /\ slots = [t \in Thread |-> NoSlots]
    /\ adrift = FALSE

Go(t, where) == pc' = [pc EXCEPT ![t] = where]

-----------------------------------------------------------------------------
(* The transaction.                                                        *)

\* What the album of a play lists, if it names one.
Lists(p) == IF p.origin = "album" /\ p.album # None THEN AlbumTracks[p.album] ELSE {}

\* What of the slots the card of a row gets: a queue that has nothing of what
\* the session began with was put there by somebody else.
SnapshotTrusted(p, tracks) == tracks
Snapshot(p, tracks) ==
    IF Lists(p) # {} /\ Lists(p) \cap tracks = {} THEN Lists(p)
    ELSE IF p.origin = "track" /\ p.seed \notin tracks \cup {None} THEN {p.seed}
    ELSE tracks

\* The title a row is archived under: its album's, its seed's, or its own.
NamedAfter(p) ==
    IF p.origin = "album" THEN p.album
    ELSE IF p.origin \in {"track", "radio"} THEN p.seed ELSE None

CardTitleAsOpened(row) ==
    IF NamedAfter(row.play) # None THEN NamedAfter(row.play) ELSE row.title
CardTitle(row) ==
    IF NamedAfter(row.play) # None THEN NamedAfter(row.play)
    ELSE IF row.title # None THEN row.title ELSE Mix

Card(row, held) ==
    [id |-> row.id, play |-> row.play, title |-> CardTitle(row),
     tracks |-> Snapshot(row.play, held.tracks), made |-> held.made]

\* FOR UPDATE: the row is one transaction's at a time.
RowFreeAlways(t) == TRUE
RowFree(t) == open = None \/ rowLock = Free

\* A route archives the queue it is about to replace.
Holding(t) ==
    slots' = [slots EXCEPT ![t] = IF t = Status THEN @ ELSE [tracks |-> queue, made |-> made]]

Select(t) ==
    /\ RowFree(t)
    /\ taken' = [taken EXCEPT ![t] = open]
    /\ rowLock' = IF open = None THEN rowLock ELSE t
    /\ Holding(t)

\* A row somebody holds: the statement waits for that row.
Wait(t) ==
    /\ ~RowFree(t)
    /\ taken' = [taken EXCEPT ![t] = open]
    /\ Holding(t) /\ Go(t, "waiting")

\* ... and gets it if the holder left it open. If not it gets no row, a newer
\* open one included: the statement's snapshot is older than that one.
Woken(t) ==
    LET still == open # None /\ open.id = taken[t].id
    IN  /\ pc[t] = "waiting" /\ rowLock = Free
        /\ taken' = [taken EXCEPT ![t] = IF still THEN open ELSE None]
        /\ rowLock' = IF still THEN t ELSE rowLock
        /\ Go(t, IF t = Status THEN "writing" ELSE "rotating")
        /\ UNCHANGED <<stored, open, opened, archive, naming, want, slots, adrift>>
        /\ UNCHANGED memory

\* The row this transaction selected is archived, or deleted with no slots.
Archived(t) ==
    IF taken[t] # None /\ Snapshot(taken[t].play, slots[t].tracks) # {}
      THEN Append(archive, Card(taken[t], slots[t])) ELSE archive

\* The rest of the open row once this transaction ended it.
Left(t) == IF open # None /\ taken[t] # None /\ open.id = taken[t].id THEN None ELSE open

\* A mix opened with no name is the AI's to name.
Unnamed(t) ==
    IF Archived(t) # archive /\ taken[t].play.origin = "mix" /\ taken[t].title = None
      THEN {taken[t].id} ELSE {}

Unlock(t) == rowLock' = IF rowLock = t THEN Free ELSE rowLock

\* The transaction is over, whatever it wrote.
Over(t) ==
    /\ Unlock(t)
    /\ taken' = [taken EXCEPT ![t] = None]
    /\ slots' = [slots EXCEPT ![t] = NoSlots]

-----------------------------------------------------------------------------
(* A route that replaces the queue, or starts a radio.                     *)

\* The output took the new queue, under the queue lock.
Take(r, p) ==
    /\ pc[r] = "idle" /\ lock = Free /\ opened < MaxSessions
    /\ lock' = r /\ Go(r, "taking") /\ want' = [want EXCEPT ![r] = p]
    /\ UNCHANGED <<queue, made, stored, unsaved, taken, slots, adrift>>
    /\ UNCHANGED database

SelectOpen(r) ==
    /\ pc[r] = "taking"
    /\ \/ Select(r) /\ Go(r, "rotating")
       \/ Wait(r) /\ UNCHANGED rowLock
    /\ UNCHANGED <<stored, open, opened, archive, naming, want, adrift>>
    /\ UNCHANGED memory

\* The same play again within the window.
RepeatsInTime(r) == taken[r] # None /\ taken[r].fresh
Repeats(r) == taken[r] # None /\ taken[r].fresh /\ Same(taken[r].play, want[r])

\* Nothing is archived for it; the open session is the new queue's as well.
KeepSession(r) ==
    /\ pc[r] = "rotating" /\ Repeats(r)
    /\ Over(r) /\ Go(r, "rotated")
    /\ UNCHANGED <<stored, open, opened, archive, naming, want, adrift>>
    /\ UNCHANGED memory

\* The name the new row is given: the title of the row archived in the same
\* transaction, when there is one (the parameter is assigned over).
NewTitle(r) ==
    IF Archived(r) # archive THEN CardTitle(taken[r]) ELSE want[r].name

Rotate(r) ==
    /\ pc[r] = "rotating" /\ ~Repeats(r)
    /\ archive' = Archived(r)
    /\ naming' = naming \cup Unnamed(r)
    /\ open' = Row(opened + 1, want[r], NewTitle(r))
    /\ opened' = opened + 1
    /\ Over(r) /\ Go(r, "rotated")
    /\ UNCHANGED <<stored, want, adrift>>
    /\ UNCHANGED memory

\* The database failed: it rolls back, and the output abandons the queue.
RotationFails(r) ==
    /\ "rollback" \in Faults
    /\ pc[r] = "rotating"
    /\ Over(r) /\ Go(r, "idle") /\ want' = [want EXCEPT ![r] = None] /\ lock' = Free
    /\ UNCHANGED <<queue, made, stored, unsaved, open, opened, archive, naming, adrift>>

\* A radio keeps the playing slot of the queue, or none.
NewQueues(r) ==
    IF want[r].origin = "radio" THEN {{}} \cup {{t} : t \in queue} ELSE {want[r].tracks}

Commit(r) ==
    /\ pc[r] = "rotated"
    /\ queue' \in NewQueues(r)
    /\ made' = want[r]
    /\ unsaved' = TRUE /\ lock' = Free
    /\ Go(r, "idle") /\ want' = [want EXCEPT ![r] = None]
    /\ adrift' = FALSE
    /\ UNCHANGED <<stored, taken, slots>>
    /\ UNCHANGED database

\* An output that did not clear: the radio follows the queue there is.
FollowQueue(r) ==
    /\ pc[r] = "rotated" /\ want[r].origin = "radio"
    /\ made' = want[r] /\ lock' = Free
    /\ Go(r, "idle") /\ want' = [want EXCEPT ![r] = None]
    /\ adrift' = FALSE
    /\ UNCHANGED <<queue, stored, unsaved, taken, slots>>
    /\ UNCHANGED database

\* The link refuses the clear after the rotation: history rotated, no radio.
CutShort(r) ==
    /\ "cut" \in Faults
    /\ pc[r] = "rotated" /\ want[r].origin = "radio"
    /\ lock' = Free /\ Go(r, "idle") /\ want' = [want EXCEPT ![r] = None]
    /\ adrift' = TRUE
    /\ UNCHANGED <<queue, made, stored, unsaved, taken, slots>>
    /\ UNCHANGED database

-----------------------------------------------------------------------------
(* The other changes of the queue, the persist timer, and time.            *)

Edit(tracks) ==
    /\ lock = Free /\ queue' = tracks /\ unsaved' = TRUE
    /\ UNCHANGED <<made, stored, lock, pc, want, taken, slots, adrift>>
    /\ UNCHANGED database

Persist ==
    /\ unsaved /\ unsaved' = FALSE
    /\ stored' = [tracks |-> queue, made |-> made]
    /\ UNCHANGED <<queue, made, lock, pc, want, taken, slots, adrift>>
    /\ UNCHANGED database

WindowPasses ==
    /\ open # None /\ open.fresh
    /\ open' = [open EXCEPT !.fresh = FALSE]
    /\ UNCHANGED <<stored, opened, archive, naming, rowLock, pc, want, taken, slots, adrift>>
    /\ UNCHANGED memory

\* The title thread of an archived mix: only a placeholder gives way.
NameMix(i) ==
    /\ archive[i].id \in naming
    /\ naming' = naming \ {archive[i].id}
    /\ archive' \in {archive, IF archive[i].title = Mix THEN [archive EXCEPT ![i].title = AiName]
                                                        ELSE archive}
    /\ UNCHANGED <<stored, open, opened, rowLock, pc, want, taken, slots, adrift>>
    /\ UNCHANGED memory

-----------------------------------------------------------------------------
(* The status thread: the player stopped on the last slot.                 *)

QueueEnds ==
    /\ pc[Status] = "idle" /\ queue # {}
    /\ Go(Status, "ended")
    /\ UNCHANGED <<stored, want, taken, slots, adrift>>
    /\ UNCHANGED memory /\ UNCHANGED database

ReadSlots ==
    /\ pc[Status] = "ended" /\ Go(Status, "closing")
    /\ slots' = [slots EXCEPT ![Status] = [tracks |-> queue, made |-> made]]
    /\ UNCHANGED <<stored, want, taken, adrift>>
    /\ UNCHANGED memory /\ UNCHANGED database

SelectToClose ==
    /\ pc[Status] = "closing"
    /\ \/ Select(Status) /\ Go(Status, "writing")
       \/ Wait(Status) /\ UNCHANGED rowLock
    /\ UNCHANGED <<stored, open, opened, archive, naming, want, adrift>>
    /\ UNCHANGED memory

CloseSession ==
    /\ pc[Status] = "writing"
    /\ archive' = Archived(Status)
    /\ naming' = naming \cup Unnamed(Status)
    /\ open' = Left(Status)
    /\ Over(Status) /\ Go(Status, "idle")
    /\ UNCHANGED <<stored, opened, want, adrift>>
    /\ UNCHANGED memory

CloseFails ==
    /\ "rollback" \in Faults
    /\ pc[Status] = "writing"
    /\ Over(Status) /\ Go(Status, "idle")
    /\ UNCHANGED <<stored, open, opened, archive, naming, want, adrift>>
    /\ UNCHANGED memory

-----------------------------------------------------------------------------
\* The process dies and starts again, on the queue it last stored.
Crash ==
    /\ "crash" \in Faults
    /\ queue' = stored.tracks /\ made' = stored.made
    /\ unsaved' = FALSE /\ lock' = Free /\ rowLock' = Free /\ naming' = {}
    /\ pc' = [t \in Thread |-> "idle"] /\ want' = [r \in Route |-> None]
    /\ taken' = [t \in Thread |-> None] /\ slots' = [t \in Thread |-> NoSlots]
    /\ adrift' = TRUE
    /\ UNCHANGED <<stored, open, opened, archive>>

Plays(r) ==
    \/ \E p \in Play : Take(r, p)
    \/ SelectOpen(r)
    \/ Woken(r)
    \/ KeepSession(r)
    \/ Rotate(r)
    \/ RotationFails(r)
    \/ Commit(r)
    \/ FollowQueue(r)
    \/ CutShort(r)

Closes == QueueEnds \/ ReadSlots \/ SelectToClose \/ Woken(Status) \/ CloseSession \/ CloseFails

Next ==
    \/ \E r \in Route : Plays(r)
    \/ Closes
    \/ \E t \in UNION {p.tracks : p \in Play} : Edit(queue \cup {t}) \/ Edit(queue \ {t})
    \/ Persist
    \/ WindowPasses
    \/ \E i \in DOMAIN archive : NameMix(i)
    \/ Crash

Spec == Init /\ [][Next]_vars

-----------------------------------------------------------------------------
Tracks == UNION {p.tracks \cup {p.seed} \cup Lists(p) : p \in Play}

Titles == ({Mix, AiName} \cup UNION {{p.album, p.seed, p.name} : p \in Play}) \ {None}

RowType == [id : 1..MaxSessions, play : Play, title : Titles \cup {None}, fresh : BOOLEAN]

ASSUME RowAssumption == None \notin RowType

CardType ==
    [id : 1..MaxSessions, play : Play, title : Titles,
     tracks : (SUBSET Tracks) \ {{}}, made : Play \cup {None}]

\* Every variable holds a value of its kind; a card has a title and a track.
TypeOK ==
    /\ queue \subseteq Tracks /\ made \in Play \cup {None}
    /\ stored \in [tracks : SUBSET Tracks, made : Play \cup {None}]
    /\ unsaved \in BOOLEAN /\ adrift \in BOOLEAN
    /\ lock \in Route \cup {Free} /\ rowLock \in Thread \cup {Free}
    /\ opened \in 0..MaxSessions
    /\ open \in RowType \cup {None} /\ archive \in Seq(CardType)
    /\ naming \subseteq 1..MaxSessions /\ taken \in [Thread -> RowType \cup {None}]
    /\ pc \in [Thread -> {"idle", "taking", "rotating", "rotated", "ended", "closing", "waiting", "writing"}]
    /\ want \in [Route -> Play \cup {None}]
    /\ slots \in [Thread -> [tracks : SUBSET Tracks, made : Play \cup {None}]]

\* A session is archived once, and one that is archived is never open again.
ArchivedOnce ==
    /\ \A i, j \in DOMAIN archive : archive[i].id = archive[j].id => i = j
    /\ open # None => \A i \in DOMAIN archive : archive[i].id # open.id

\* Whoever changed the queue meanwhile, the card of an album that lists tracks
\* has something of the album on it, and the card of a track the track.
CardsFitTheirOrigin ==
    \A i \in DOMAIN archive :
        LET card == archive[i]
        IN  /\ Lists(card.play) # {} => card.tracks \cap Lists(card.play) # {}
            /\ card.play.origin = "track" => card.play.seed \in card.tracks \cup {None}

\* With no replacement in flight, the open session is the one of the play that
\* made the queue (or of its repetition within the window).
OpenSessionIsTheQueues ==
    lock = Free /\ open # None /\ ~adrift => made # None /\ Same(open.play, made)

\* A session is archived with the slots of the queue it was opened for.
SnapshotIsOfItsQueue ==
    \A i \in DOMAIN archive : archive[i].made # None /\ Same(archive[i].play, archive[i].made)

\* A mix goes into history under the name it was opened with, or the
\* placeholder and then the AI's name when it had none.
MixKeepsItsName ==
    \A i \in DOMAIN archive :
        LET card == archive[i]
        IN  card.play.origin = "mix" =>
                IF card.play.name = None THEN card.title \in {Mix, AiName}
                                         ELSE card.title = card.play.name
=============================================================================
