---------------------------- MODULE ListenTracker ----------------------------
(***************************************************************************)
(* Play tracking (backend/playback/tracker.py): from the status ticks of   *)
(* the active output to listens, one history row each, and scrobbles.      *)
(*                                                                         *)
(* track_play_event is one function without a lock: a thread that delivers *)
(* a tick (a Speaker) judges it, writes the row of a listen that is over   *)
(* (a database call), and drops that listen or opens the next. The module  *)
(* keeps those steps apart. An output switch carries the open listen over  *)
(* to the new output (carry_listen, called by activate).                   *)
(*                                                                         *)
(* What the outputs do is the environment: plays, pauses, reloads, stops,  *)
(* corrections of a clock, a foreign entry, a switch. Positions are the    *)
(* four the code tells apart: Top (under 5 s), Early (under 30 s), Past    *)
(* (past 30 s) and Half (half of the track, or its 240 s).                 *)
(***************************************************************************)
EXTENDS Integers, Sequences

CONSTANTS
    None,       \* no track named
    Track,
    Excerpt,    \* the tracks that are 30 s excerpts
    Short,      \* the tracks that end before 30 s
    Speaker,    \* threads that deliver ticks
    MaxPlays,   \* bound on the plays of the environment
    MaxListens  \* bound on the listens opened

Top == 0  Early == 1  Past == 2  Half == 3
Position == Top..Half

ASSUME TrackerAssumption ==
    /\ None \notin Track /\ Excerpt \subseteq Track /\ Short \subseteq Track
    /\ MaxPlays \in Nat /\ MaxListens \in Nat

VARIABLES
    player,    \* what the output does: [state, track, pos]
    play,      \* history: plays so far, the one in progress the last
    owes,      \* the output set its clock and has yet to say so
    session,   \* _play_session: the open listen, or 0
    carried,   \* _carried
    listens,   \* every listen: [track, play, max, reached, scrobbled]
    rows,      \* listening_history: how many rows each listen has
    sent,      \* Last.fm: how many scrobbles each listen has
    lost,      \* the listens whose row the database refused
    cut,       \* history: plays whose listen a tick with no slot ended
    pc, tick, held  \* of each speaker: where it stands, its tick, the listen it saves

world   == <<player, play, owes>>
tracker == <<session, carried, listens, cut>>
reports == <<rows, sent, lost>>
threads == <<pc, tick, held>>
vars    == <<world, tracker, reports, threads>>

NoTick == [state |-> "stopped", track |-> None, pos |-> Top, play |-> 0,
           external |-> FALSE, holds |-> FALSE, corrected |-> FALSE]

Init ==
    /\ player = [state |-> "stopped", track |-> None, pos |-> Top]
    /\ play = 0 /\ owes = FALSE
    /\ session = 0 /\ carried = FALSE /\ listens = <<>> /\ cut = {}
    /\ rows = <<>> /\ sent = <<>> /\ lost = {}
    /\ pc = [s \in Speaker |-> "idle"] /\ tick = [s \in Speaker |-> NoTick]
    /\ held = [s \in Speaker |-> 0]

-----------------------------------------------------------------------------
(* The outputs.                                                            *)

Ends(t) == IF t \in Short THEN Early ELSE Half

Does(state, track, pos) == player' = [state |-> state, track |-> track, pos |-> pos]

Now(states) == player.state \in states

\* A track starts from the top, whatever was before it.
Begin(t) ==
    /\ play < MaxPlays
    /\ play' = play + 1 /\ owes' = FALSE
    /\ \E state \in {"loading", "playing"} : Does(state, t, Top)

\* The play goes on: its seconds run, or it pauses, reloads and resumes.
RunOn ==
    /\ Now({"playing"}) /\ player.pos < Ends(player.track)
    /\ player' = [player EXCEPT !.pos = @ + 1] /\ UNCHANGED <<play, owes>>

Turn ==
    /\ Now({"playing", "paused", "loading", "attaching", "holding"})
    /\ \E state \in {"playing", "paused", "loading", "holding"} :
        /\ state = "holding" => Now({"attaching"})
        /\ player' = [player EXCEPT !.state = state]
    /\ UNCHANGED <<play, owes>>

\* The output finds its clock ahead of what it plays, and says so.
Correct ==
    /\ Now({"playing", "paused"}) /\ player.pos > Top
    /\ \E p \in Top..(player.pos - 1) : player' = [player EXCEPT !.pos = p]
    /\ owes' = TRUE /\ UNCHANGED play

Stop ==
    /\ player.track # None /\ ~Now({"stopped"})
    /\ player' = [player EXCEPT !.state = "stopped", !.pos = Top]
    /\ owes' = FALSE /\ UNCHANGED play

\* Somebody else's entry plays on the output.
Foreign ==
    /\ Does("external", None, Top) /\ owes' = FALSE /\ UNCHANGED play

World ==
    /\ (\E t \in Track : Begin(t)) \/ RunOn \/ Turn \/ Correct \/ Stop \/ Foreign
    /\ UNCHANGED <<tracker, reports, threads>>

\* What the output may say now: a slot a queue edit moved names no track. The
\* play is no part of what is said: history, for OneListenPerPlay.
Said ==
    LET says == CASE Now({"attaching", "holding", "stopped"}) -> "stopped"
                  [] Now({"external"})                        -> "playing"
                  [] OTHER                                    -> player.state
        named == IF Now({"attaching", "external"}) THEN {None} ELSE {None, player.track}
    IN  [state : {says}, track : named, pos : {player.pos}, corrected : {owes},
         play : {play}, external : {Now({"external"})}, holds : {Now({"holding"})}]

-----------------------------------------------------------------------------
(* A listen.                                                               *)

NewListen(t) ==
    [track |-> t.track, play |-> t.play, max |-> Top, reached |-> Top, scrobbled |-> FALSE]

AdvanceSums(l, t) == [l EXCEPT !.max = @ + t.pos, !.reached = t.pos]
Advance(l, t) ==
    [l EXCEPT !.max = IF t.pos > @ THEN t.pos ELSE @,
              !.reached = IF t.pos > @ THEN t.pos ELSE @]

\* The length, which a first tick may not bring yet, is taken as known.
ScrobbleReady(l) == l.max = Half
Completed(l) == ScrobbleReady(l) \/ (l.track \in Short /\ l.max = Early)

\* Whether this listen is scrobbled now: not twice, and not past the Scrobbling
\* switch, read for every report (on, off, or unreadable: as off).
ScrobblesAgain(l, enough, on) == enough /\ on
Scrobbles(l, enough, on) == enough /\ on /\ ~l.scrobbled

\* The clock the output set; a tick with no slot is still this listen's.
Corrected(t) ==
    IF t.corrected /\ session # 0 /\ t.track \in {None, listens[session].track}
      THEN [listens EXCEPT ![session].reached = t.pos] ELSE listens

-----------------------------------------------------------------------------
(* A tick.                                                                 *)

Mine(t) == session # 0 /\ t.track = listens[session].track

\* No end of the listen: a pause, a reload of this track, the output a switch
\* went to attaching or holding its spot.
InterruptsUncarried(t) ==
    /\ session # 0 /\ t.state # "playing"
    /\ t.state = "paused" \/ (t.state = "loading" /\ Mine(t))
Interrupts(t) ==
    /\ session # 0 /\ t.state # "playing"
    /\ \/ t.state = "paused"
       \/ t.state = "loading" /\ Mine(t)
       \/ carried /\ (t.track = None \/ (Mine(t) /\ t.holds))

\* The same track, back at the top from past 30 s.
Restarted(t) == Mine(t) /\ t.pos = Top /\ Corrected(t)[session].reached \in {Past, Half}

\* The thread goes to a step with the tick and the listen that step needs.
Steps(s, where, t, listen) ==
    /\ pc' = [pc EXCEPT ![s] = where] /\ tick' = [tick EXCEPT ![s] = t]
    /\ held' = [held EXCEPT ![s] = listen]

Done(s) == Steps(s, "idle", NoTick, 0)

Hear(s, t) ==
    /\ pc[s] = "idle"
    /\ owes' = FALSE /\ UNCHANGED <<player, play, reports>>

\* The tick is over.
Keep(s, t) ==
    /\ Hear(s, t) /\ ~t.external /\ Interrupts(t)
    /\ listens' = Corrected(t)
    /\ Done(s) /\ UNCHANGED <<session, carried, cut>>

\* The listen is over: a foreign entry, an excerpt, or the output stopped.
End(s, t) ==
    /\ Hear(s, t)
    /\ \/ t.external
       \/ t.state # "playing" /\ ~Interrupts(t)
       \/ t.state = "playing" /\ t.track \in Excerpt
    /\ carried' = FALSE
    /\ listens' = IF t.external THEN listens ELSE Corrected(t)
    /\ IF session # 0 THEN Steps(s, "ending", NoTick, session) ELSE Done(s)
    /\ cut' = IF session # 0 /\ t.state = "loading" /\ t.track = None THEN cut \cup {play} ELSE cut
    /\ UNCHANGED session

\* Playing, and no slot to name it by: the open listen advances.
Pass(s, t) ==
    /\ Hear(s, t) /\ ~t.external /\ t.state = "playing" /\ t.track = None
    /\ carried' = FALSE
    /\ listens' = IF session = 0 THEN listens
                  ELSE LET set == Corrected(t) IN [set EXCEPT ![session] = Advance(@, t)]
    /\ Done(s) /\ UNCHANGED <<session, cut>>

Plays(t) == ~t.external /\ t.state = "playing" /\ t.track \in Track \ Excerpt

\* Another track, or this one from the top.
Change(s, t) ==
    /\ Hear(s, t) /\ Plays(t) /\ (~Mine(t) \/ Restarted(t))
    /\ carried' = FALSE /\ listens' = Corrected(t)
    /\ IF session # 0 THEN Steps(s, "changing", t, session) ELSE Steps(s, "opening", t, 0)
    /\ UNCHANGED <<session, cut>>

GoOn(s, t) ==
    /\ Hear(s, t) /\ Plays(t) /\ Mine(t) /\ ~Restarted(t)
    /\ carried' = FALSE /\ listens' = Corrected(t)
    /\ Steps(s, "counting", t, 0) /\ UNCHANGED <<session, cut>>

\* The row of the listen, and its scrobble when it was not sent before.
Save(s) ==
    \E on \in BOOLEAN :
    LET i == held[s]
        sends == Scrobbles(listens[i], Completed(listens[i]), on)
    IN  /\ pc[s] \in {"ending", "changing"}
        /\ Steps(s, IF pc[s] = "ending" THEN "dropping" ELSE "opening", tick[s], 0)
        /\ \/ /\ rows' = [rows EXCEPT ![i] = @ + 1]
              /\ sent' = IF sends THEN [sent EXCEPT ![i] = @ + 1] ELSE sent
              /\ listens' = IF sends THEN [listens EXCEPT ![i].scrobbled = TRUE] ELSE listens
              /\ UNCHANGED lost
           \/ /\ lost' = lost \cup {i}
              /\ UNCHANGED <<rows, sent, listens>>
        /\ UNCHANGED <<world, session, carried, cut>>

DropForgotten(s) ==
    /\ pc[s] = "dropping" /\ Done(s)
    /\ UNCHANGED <<session, world, carried, listens, cut, reports>>
Drop(s) ==
    /\ pc[s] = "dropping" /\ session' = 0 /\ Done(s)
    /\ UNCHANGED <<world, carried, listens, cut, reports>>

Open(s) ==
    /\ pc[s] = "opening" /\ Len(listens) < MaxListens
    /\ listens' = Append(listens, NewListen(tick[s]))
    /\ rows' = Append(rows, 0) /\ sent' = Append(sent, 0)
    /\ session' = Len(listens) + 1
    /\ Steps(s, "counting", tick[s], 0)
    /\ UNCHANGED <<world, carried, cut, lost>>

\* The listen takes the tick's second; past its threshold it is scrobbled. A
\* session that is gone by now is an error, and the tick is lost.
Count(s) ==
    /\ pc[s] = "counting" /\ Done(s)
    /\ IF session = 0 THEN UNCHANGED <<listens, sent>>
       ELSE \E on \in BOOLEAN :
            LET l == Advance(listens[session], tick[s])
                sends == Scrobbles(l, ScrobbleReady(l), on)
            IN  /\ listens' = [listens EXCEPT ![session] = [l EXCEPT !.scrobbled = l.scrobbled \/ sends]]
                /\ sent' = IF sends THEN [sent EXCEPT ![session] = @ + 1] ELSE sent
    /\ UNCHANGED <<world, session, carried, cut, rows, lost>>

Speaks(s) ==
    \/ \E t \in Said : Keep(s, t) \/ End(s, t) \/ Pass(s, t) \/ Change(s, t) \/ GoOn(s, t)
    \/ Save(s) \/ Drop(s) \/ Open(s) \/ Count(s)

-----------------------------------------------------------------------------
\* An output switch: the track and its second go on there, or nowhere. It falls
\* between ticks here; the code does not wait for one of the old output's that
\* is past the sender check, which may take the carry away again.
Switch ==
    /\ ~owes /\ \A s \in Speaker : pc[s] = "idle"
    /\ LET spot == Now({"playing", "paused", "loading", "holding"})
       IN  /\ carried' = (spot /\ session # 0)
           /\ player' = [player EXCEPT !.state = IF spot THEN "attaching" ELSE "stopped"]
    /\ UNCHANGED <<play, owes, session, listens, cut, reports, threads>>

Next == World \/ (\E s \in Speaker : Speaks(s)) \/ Switch

Spec == Init /\ [][Next]_vars

-----------------------------------------------------------------------------
TickType ==
    [state : {"playing", "paused", "loading", "stopped"}, track : Track \cup {None},
     pos : Position, play : 0..MaxPlays, external : BOOLEAN, holds : BOOLEAN,
     corrected : BOOLEAN]

\* Every variable holds a value of its kind; no listen counts past the half of its track.
TypeOK ==
    /\ player \in [state : {"playing", "paused", "loading", "stopped", "attaching", "holding",
                            "external"}, track : Track \cup {None}, pos : Position]
    /\ play \in 0..MaxPlays /\ owes \in BOOLEAN /\ carried \in BOOLEAN
    /\ listens \in Seq([track : Track, play : 1..MaxPlays, max : Position, reached : Position,
                        scrobbled : BOOLEAN])
    /\ session \in 0..Len(listens) /\ cut \subseteq 0..MaxPlays
    /\ rows \in [1..Len(listens) -> Nat] /\ sent \in [1..Len(listens) -> Nat]
    /\ lost \subseteq 1..Len(listens)
    /\ pc \in [Speaker -> {"idle", "ending", "changing", "dropping", "opening", "counting"}]
    /\ tick \in [Speaker -> TickType] /\ held \in [Speaker -> 0..Len(listens)]

\* No listen has two rows in listening_history.
NoListenTwice == \A i \in DOMAIN listens : rows[i] <= 1

\* A listen goes into history once: one that is over has one row, unless the
\* database refused it, and no listen has two.
OneRowPerListen ==
    /\ NoListenTwice
    /\ \A i \in DOMAIN listens :
        /\ ~(rows[i] = 1 /\ i \in lost)
        /\ rows[i] = 0 /\ i \notin lost => i = session

\* A play is one listen, through its pauses, reloads, corrections, queue edits
\* and output switches; only a load that names no slot cuts it in two.
OneListenPerPlay ==
    \A i, j \in DOMAIN listens :
        listens[i].play = listens[j].play => i = j \/ listens[i].play \in cut

\* Last.fm hears of a listen once at most, of none that was too short, and of
\* no excerpt.
ScrobbledOnce ==
    \A i \in DOMAIN listens :
        sent[i] > 0 => sent[i] = 1 /\ Completed(listens[i]) /\ listens[i].track \notin Excerpt
=============================================================================
