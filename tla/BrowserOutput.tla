---------------------------- MODULE BrowserOutput ----------------------------
(***************************************************************************)
(* The browser output (backend/playback/browser_backend.py) and the tab    *)
(* that plays for it (backend/static/player.js): directives go down the    *)
(* tab's SSE stream and in the answers to its events; its element's events *)
(* come back as POSTs that overtake one another.  The tab goes on to the   *)
(* next track on its own, from the tail of the queue each load brings, and *)
(* the server follows it by the slot and the epoch each event carries.     *)
(*                                                                         *)
(* Each method of the backend is one step.  Seconds, volume, covers, blobs *)
(* and the words of the status are left out: a position is the slot.       *)
(***************************************************************************)
EXTENDS Naturals, FiniteSets, Sequences, SequencesExt, FiniteSetsExt

CONSTANTS
    Media, Tab, Channel,
    LateEnds,      \* the end of a tab's stream may be noticed after its next one opened
    MaxEpoch,      \* bound: loads
    MaxInbox,      \* bound: directives waiting on one stream
    MaxPosts,      \* bound: events on their way
    MaxAnswers,    \* bound: answers with something in them on their way, or still to come
    MaxEdits,      \* bound: edits of the queue
    MaxFaults,     \* bound: streams, events, answers and pages lost, media errors, restarts
    None

VARIABLES
    queue,         \* the slots: [media, way], way what QueueItem.opener() is here
    out,           \* BrowserBackend's fields
    grace,         \* the grace timer runs
    chans,         \* each stream: [tab, at, inbox]; "ending": the server is yet to notice
    el,            \* each tab's renderer
    posts,         \* events on their way
    answers,       \* answers on their way
    edits, faults

browserVars == <<queue, out, grace, chans, el, posts, answers, edits, faults>>

tabSide == <<el, posts, answers>>
edge    == <<grace, edits, faults>>

NewOutput == [tab |-> None, chan |-> None, index |-> 0, ident |-> None,
              state |-> "stopped", epoch |-> 0, parked |-> None]
NoRenderer == [on |-> FALSE, src |-> FALSE, slot |-> None, media |-> None,
               playing |-> FALSE, epoch |-> None, list |-> {}]
NoChannel == [tab |-> None, at |-> "free", inbox |-> <<>>]

Fault == faults < MaxFaults /\ faults' = faults + 1

-----------------------------------------------------------------------------
(* Directives *)

\* _item_ident: a slot whose stream is on its way, or that opens nowhere here,
\* has none
Ident(item) == IF item.way = "open" THEN item.media ELSE None

\* _queue_tail: the slots from i on that open; it lists them in their order
QueueTail(q, i) ==
    IF i = 0 THEN {}
    ELSE {[slot |-> j, media |-> q[j].media] : j \in {k \in i..Len(q) : q[k].way = "open"}}

Simple(cmd) == [cmd |-> cmd, play |-> FALSE, slot |-> None, media |-> None,
                epoch |-> None, list |-> {}]
TailOf(q, i) == [Simple("queue") EXCEPT !.list = QueueTail(q, i)]
Load(q, i, play, epoch) ==
    [cmd |-> "load", play |-> play, slot |-> i, media |-> Ident(q[i]),
     epoch |-> epoch, list |-> QueueTail(q, i)]

\* _push: to the stream the backend holds, and nowhere when it holds none; what
\* is put on a stream nobody reads any more is gone
Pushed(ch, c, d) ==
    IF c # None /\ ch[c].at = "open" THEN [ch EXCEPT ![c].inbox = Append(@, d)] ELSE ch

Does(o, d) == [out |-> o, push |-> d]    \* what a method leaves, and pushes
Nothing == Simple("none")

Done(r) ==
    /\ out' = r.out
    /\ chans' = IF r.push = Nothing THEN chans ELSE Pushed(chans, r.out.chan, r.push)

\* bounds: the waiting starts and the ends on their way each take an epoch
Ending == {p \in posts : p.event = "ended"}
Epochs == {out.epoch} \cup ({el[t].epoch : t \in Tab} \ {None})
CanLoad == Max(Epochs) + Cardinality(Ending) < MaxEpoch
CanPush == out.chan # None => Len(chans[out.chan].inbox) < MaxInbox

-----------------------------------------------------------------------------
(* The transport *)

\* the first slot from i on that is not unplayable here, 0 past the last
Reachable(q, i) ==
    LET found == {j \in 1..Len(q) : j >= i /\ q[j].way # "closed"}
    IN  IF i = 0 \/ found = {} THEN 0 ELSE Min(found)

\* _start_at: it stands on a slot whose stream is on its way, and with no tab
\* it parks the play
StartAt(o, q, i, play) ==
    LET j == Reachable(q, i)
    IN  CASE j = 0 -> Does(o, Nothing)
          [] j # 0 /\ q[j].way = "pending" ->
                Does([o EXCEPT !.index = j, !.ident = None,
                               !.parked = IF play THEN j ELSE None,
                               !.state = IF play THEN "loading" ELSE "stopped"], Nothing)
          [] j # 0 /\ q[j].way = "open" /\ o.chan = None ->
                Does([o EXCEPT !.index = j, !.ident = q[j].media,
                               !.parked = IF play THEN j ELSE @,
                               !.state = "stopped"], Nothing)
          [] OTHER ->
                Does([o EXCEPT !.index = j, !.ident = q[j].media, !.epoch = @ + 1,
                               !.state = IF play THEN "playing" ELSE @],
                     Load(q, j, play, o.epoch + 1))

StoppedBy(o) == Does([o EXCEPT !.parked = None, !.state = "stopped"], Simple("stop"))

Pressed == CanPush /\ UNCHANGED <<queue, edge, tabSide>>

Play ==
    /\ Pressed
    /\ IF out.state \in {"playing", "paused"} /\ out.chan # None
       THEN Done(Does(out, Simple("play")))
       ELSE CanLoad /\ Done(StartAt(out, queue, Max({1, out.index}), TRUE))

Pause ==
    /\ Pressed
    /\ Done(Does([out EXCEPT
            !.parked = None,
            !.state = IF @ = "playing" \/ (@ = "loading" /\ out.parked # None)
                      THEN "paused" ELSE @], Simple("pause")))

Stop == Pressed /\ Done(StoppedBy(out))

\* next, previous, select
Jump(i) == Pressed /\ CanLoad /\ Done(StartAt(out, queue, i, TRUE))

-----------------------------------------------------------------------------
(* The canonical queue *)

\* queue_changed, any other edit than a replacement: the slot is found again by
\* its medium, the one nearest
QueueChanged(o, q) ==
    LET same == {i \in 1..Len(q) : o.ident # None /\ Ident(q[i]) = o.ident}
    IN  CASE same # {} ->
                LET best == CHOOSE i \in same : TRUE
                IN  Does([o EXCEPT !.index = best], TailOf(q, best))
          [] same = {} /\ o.state = "stopped" -> Does(o, TailOf(q, o.index))
          [] same = {} /\ o.state # "stopped" /\ q # <<>> ->
                StartAt(o, q, Min({o.index, Len(q)}), o.state = "playing")
          [] same = {} /\ o.state # "stopped" /\ q = <<>> -> StoppedBy(o)

Edited(q) ==
    /\ edits < MaxEdits /\ edits' = edits + 1
    /\ CanPush /\ CanLoad
    /\ queue' = q
    /\ UNCHANGED <<grace, faults, tabSide>>

Add(m, way) ==
    /\ \A i \in 1..Len(queue) : queue[i].media # m
    /\ Edited(Append(queue, [media |-> m, way |-> way]))
    /\ Done(QueueChanged(out, queue'))

TakeOut(i) ==
    /\ Edited(RemoveAt(queue, i))
    /\ Done(QueueChanged(out, queue'))

\* "replace": a new queue, played from its start or left stopped
Replace(m, play) ==
    /\ Edited(<<[media |-> m, way |-> "open"]>>)
    /\ Done(IF play THEN StartAt(out, queue', 1, TRUE) ELSE StoppedBy(out))

\* substitute: the stream of slot i landed, or nothing can stream it (slot_ready)
Land(i, way) ==
    /\ queue[i].way = "pending" /\ CanPush /\ CanLoad
    /\ queue' = [queue EXCEPT ![i].way = way]
    /\ Done(IF out.parked = i /\ out.index = i
            THEN StartAt([out EXCEPT !.parked = None], queue', i, TRUE)
            ELSE Does(out, Nothing))
    /\ UNCHANGED <<edge, tabSide>>

-----------------------------------------------------------------------------
(* Streams *)

\* attach_tab: the newest tab wins.  A parked play starts on it; else it is
\* primed with the slot, paused, and so is the output unless it stands stopped
\* at second 0.
Primed(o) ==
    {[o EXCEPT !.state = s] :
        s \in CASE o.state = "playing" -> {"paused"}
                [] o.state = "stopped" -> {"stopped", "paused"}
                [] OTHER -> {o.state}}

AttachTab(t, c) ==
    LET released == IF out.chan # None /\ out.tab # t
                    THEN Pushed(chans, out.chan, Simple("released")) ELSE chans
        opened == [released EXCEPT ![c] = [tab |-> t, at |-> "open", inbox |-> <<>>]]
        o == [out EXCEPT !.tab = t, !.chan = c]
    IN  \E r \in IF out.parked # None
                 THEN {StartAt([o EXCEPT !.parked = None], queue, out.parked, TRUE)}
                 ELSE IF out.index \in 1..Len(queue)
                 THEN {Does(p, Load(queue, out.index, FALSE, out.epoch)) : p \in Primed(o)}
                 ELSE {Does(o, Nothing)} :
            /\ out' = r.out
            /\ chans' = IF r.push = Nothing THEN opened ELSE Pushed(opened, c, r.push)

StreamsOf(t, at) == {c \in Channel : chans[c].tab = t /\ chans[c].at = at}

\* GET /browser/channel, by a tab that renders and has no stream
Connect(t, c) ==
    /\ el[t].on /\ StreamsOf(t, "open") = {}
    /\ LateEnds \/ StreamsOf(t, "ending") = {}
    /\ chans[c].at = "free"
    /\ out.parked # None => CanLoad
    /\ AttachTab(t, c)
    /\ grace' = FALSE
    /\ UNCHANGED <<queue, edits, faults, tabSide>>

\* mutant: the end of any tab's stream
AnyTab(t) == TRUE

\* detach_tab
IsItsTab(t) == out.tab = t
DetachTab(t) ==
    IF IsItsTab(t) THEN out' = [out EXCEPT !.chan = None] /\ grace' = TRUE
                   ELSE UNCHANGED <<out, grace>>

\* the stream's generator ends
End(c) ==
    /\ chans[c].at = "ending"
    /\ DetachTab(chans[c].tab)
    /\ chans' = [chans EXCEPT ![c] = NoChannel]
    /\ UNCHANGED <<queue, edits, faults, tabSide>>

GraceExpired ==
    /\ grace /\ grace' = FALSE
    /\ out' = IF out.chan = None THEN [out EXCEPT !.state = "stopped"] ELSE out
    /\ UNCHANGED <<queue, chans, edits, faults, tabSide>>

Hung(c) == [chans EXCEPT ![c].at = "ending", ![c].inbox = <<>>]

Drop(c) ==
    /\ Fault /\ chans[c].at = "open"
    /\ chans' = Hung(c)
    /\ UNCHANGED <<queue, out, grace, edits, tabSide>>

Restart ==
    /\ Fault
    /\ out' = NewOutput /\ grace' = FALSE
    /\ chans' = [c \in Channel |-> NoChannel]
    /\ posts' = {} /\ answers' = {}
    /\ UNCHANGED <<queue, el, edits>>

-----------------------------------------------------------------------------
(* The tab *)

Becomes(e, says) == [el |-> e, says |-> says]

\* _tryPlay: the browser may refuse what no gesture asked for
Tried(e) ==
    CASE e.playing -> {Becomes(e, {})}
      [] ~e.playing /\ e.media = None -> {Becomes(e, {"paused"})}
      [] ~e.playing /\ e.media # None ->
            {Becomes([e EXCEPT !.playing = TRUE], {"playing"}), Becomes(e, {"paused"})}

\* _relocate
Relocated(e) ==
    LET same == {n \in e.list : n.media = e.media}
    IN  IF e.slot = None \/ e.media = None \/ same = {} THEN e
        ELSE [e EXCEPT !.slot = (CHOOSE n \in same : TRUE).slot]

\* _onDirective: a prime of the track it holds changes nothing that is heard,
\* and a slot that does not open is an error
Loaded(e, d) ==
    LET told == [e EXCEPT !.epoch = d.epoch, !.list = d.list]
        put  == [told EXCEPT !.slot = d.slot, !.media = d.media,
                             !.src = TRUE, !.playing = FALSE]
    IN  CASE ~d.play /\ d.slot = e.slot /\ d.media = e.media /\ e.src ->
                {Becomes(told, {})}
          [] d.media = None /\ (d.play \/ d.slot # e.slot \/ e.media # None \/ ~e.src) ->
                {Becomes(put, IF d.play THEN {"error", "paused"} ELSE {"error"})}
          [] OTHER -> IF d.play THEN Tried(put) ELSE {Becomes(put, {})}

OnDirective(e, d) ==
    CASE d.cmd = "load"  -> Loaded(e, d)
      [] d.cmd = "queue" -> {Becomes(Relocated([e EXCEPT !.list = d.list]), {})}
      [] d.cmd = "play"  -> Tried(e)
      [] d.cmd = "pause" -> {Becomes([e EXCEPT !.playing = FALSE],
                                     IF e.playing THEN {"paused"} ELSE {})}
      [] d.cmd = "stop"  -> {Becomes([e EXCEPT !.slot = None, !.media = None,
                                               !.src = FALSE, !.playing = FALSE], {})}
      [] d.cmd = "released" -> {Becomes(NoRenderer, {})}

Room(p) ==
    /\ Cardinality(posts \cup p) <= MaxPosts
    /\ Cardinality(answers) + Cardinality({q \in posts \cup p : q.event \in {"ended", "advanced"}})
          <= MaxAnswers

\* _post: each event carries the slot and the epoch as they are by then
Turns(t, outcomes) ==
    \E r \in outcomes :
        LET said == {[tab |-> t, event |-> s, slot |-> r.el.slot, epoch |-> r.el.epoch]
                        : s \in r.says}
        IN  /\ Room(said)
            /\ el' = [el EXCEPT ![t] = r.el]
            /\ posts' = posts \cup said

Alone == UNCHANGED <<queue, out, edge, chans, answers>>

Read(c) ==
    /\ chans[c].at = "open" /\ chans[c].inbox # <<>>
    /\ LET d == Head(chans[c].inbox)
       IN  /\ Turns(chans[c].tab, OnDirective(el[chans[c].tab], d))
           /\ chans' = IF d.cmd = "released" THEN Hung(c)
                       ELSE [chans EXCEPT ![c].inbox = Tail(@)]
    /\ UNCHANGED <<queue, out, edge, answers>>

Answered(a) ==
    /\ answers' = answers \ {a}
    /\ \E r \in OnDirective(el[a.tab], a.d) :
         LET said == {[tab |-> a.tab, event |-> s, slot |-> r.el.slot, epoch |-> r.el.epoch]
                         : s \in r.says}
         IN  /\ Cardinality(posts \cup said) <= MaxPosts
             /\ el' = [el EXCEPT ![a.tab] = r.el]
             /\ posts' = posts \cup said
    /\ UNCHANGED <<queue, out, edge, chans>>

\* attach(): this device is chosen as the output
Claim(t) ==
    /\ ~el[t].on
    /\ el' = [el EXCEPT ![t].on = TRUE]
    /\ UNCHANGED <<queue, out, edge, chans, posts, answers>>

\* the page goes away; sessionStorage brings a reloaded one back
Close(t) ==
    /\ Fault /\ el[t].on
    /\ el' = [el EXCEPT ![t] = NoRenderer]
    /\ chans' = [c \in Channel |-> IF c \in StreamsOf(t, "open") THEN Hung(c)[c] ELSE chans[c]]
    /\ UNCHANGED <<queue, out, grace, edits, posts, answers>>

\* resumeLocal: a tap on the tab itself
Tap(t) ==
    /\ el[t].on /\ el[t].src /\ el[t].media # None /\ ~el[t].playing
    /\ Turns(t, {Becomes([el[t] EXCEPT !.playing = TRUE], {"playing"})})
    /\ Alone

\* _nextEntry: what stands behind the tab's slot in its list, if that has the slot
NextEntry(e) ==
    {n \in e.list :
        /\ \E here \in e.list : here.slot = e.slot
        /\ n.slot > e.slot
        /\ \A m \in e.list : m.slot > e.slot => n.slot <= m.slot}

\* the track ends: _advanceLocal, or the server is asked
Ended(t) ==
    LET e == [el[t] EXCEPT !.playing = FALSE]
        outcomes ==
            IF NextEntry(e) = {} THEN {Becomes(e, {"ended"})}
            ELSE UNION {{[r EXCEPT !.says = @ \cup {"advanced"}] :
                            r \in Tried([e EXCEPT !.slot = n.slot, !.media = n.media])}
                        : n \in NextEntry(e)}
    IN  /\ el[t].playing
        /\ NextEntry(e) = {} => CanLoad
        /\ Turns(t, outcomes)
        /\ Alone

Fails(t) ==
    /\ Fault /\ el[t].playing
    /\ Turns(t, {Becomes([el[t] EXCEPT !.playing = FALSE], {"error"})})
    /\ UNCHANGED <<queue, out, grace, edits, chans, answers>>

TimeUpdate(t) ==
    /\ el[t].playing
    /\ Turns(t, {Becomes(el[t], {"timeupdate"})})
    /\ Alone

-----------------------------------------------------------------------------
(* Events: on_client_event *)

\* the first event after a restart hands its epoch over
Adopts(p) == out.epoch = 0 /\ p.epoch # None
Counts(p) == p.tab = out.tab /\ (p.epoch \in {None, out.epoch} \/ Adopts(p))

Follows(o, i) ==
    [o EXCEPT !.index = i,
              !.ident = IF i \in 1..Len(queue) THEN Ident(queue[i]) ELSE None]

\* mutants: the slot is read off `advanced` only; an event without a slot has one
ResyncedOnAdvance(o, p) ==
    IF p.event # "advanced" \/ p.slot = o.index THEN o ELSE Follows(o, p.slot)
ResyncedToNothing(o, p) == IF p.slot = o.index THEN o ELSE Follows(o, p.slot)

\* within an epoch the tab's slot is the truth, whatever the event
Resynced(o, p) == IF p.slot \in {None, o.index} THEN o ELSE Follows(o, p.slot)

\* _advance: past the tail the tab had; the next load rides the answer
HasNext(o) == o.index + 1 <= Len(queue)
Advance(o, t) ==
    IF HasNext(o)
    THEN LET i == o.index + 1
         IN  /\ out' = [o EXCEPT !.index = i, !.ident = Ident(queue[i]),
                                 !.epoch = @ + 1, !.state = "playing"]
             /\ answers' = answers \cup
                    {[tab |-> t, d |-> Load(queue, i, TRUE, o.epoch + 1)]}
    ELSE /\ out' = [o EXCEPT !.state = "stopped"]
         /\ UNCHANGED answers

OnClientEvent(p) ==
    LET adopted == IF Adopts(p) THEN [out EXCEPT !.epoch = p.epoch] ELSE out
        o == Resynced(adopted, p)
    IN  CASE p.event = "ended" -> Advance(o, p.tab)
          [] p.event = "advanced" ->
                /\ out' = [o EXCEPT !.state = "playing"]
                /\ answers' = answers \cup {[tab |-> p.tab, d |-> TailOf(queue, o.index)]}
          [] OTHER ->
                /\ out' = [o EXCEPT !.state = CASE p.event = "paused" -> "paused"
                                                [] p.event = "error" -> "stopped"
                                                [] OTHER -> "playing"]
                /\ UNCHANGED answers

Event(p) ==
    /\ posts' = posts \ {p}
    /\ IF Counts(p) THEN OnClientEvent(p) ELSE UNCHANGED <<out, answers>>
    /\ UNCHANGED <<queue, edge, chans, el>>

Lost ==
    /\ Fault
    /\ \/ /\ \E p \in posts : posts' = posts \ {p}
          /\ UNCHANGED answers
       \/ /\ \E a \in answers : answers' = answers \ {a}
          /\ UNCHANGED posts
    /\ UNCHANGED <<queue, out, grace, chans, el, edits>>

-----------------------------------------------------------------------------
BrowserInit ==
    /\ queue \in {[i \in 1..Len(m) |-> [media |-> m[i], way |-> ways[m[i]]]] :
                    m \in {SetToSeq(Media)},
                    ways \in [Media -> {"open", "pending", "closed"}]}
    /\ out = NewOutput /\ grace = FALSE
    /\ chans = [c \in Channel |-> NoChannel]
    /\ el = [t \in Tab |-> NoRenderer]
    /\ posts = {} /\ answers = {}
    /\ edits \in 0..MaxEdits /\ faults \in 0..MaxFaults

Person ==
    \/ Play \/ Pause \/ Stop
    \/ \E i \in 1..Len(queue) : Jump(i) \/ TakeOut(i)
    \/ \E m \in Media : \/ \E way \in {"open", "pending"} : Add(m, way)
                        \/ \E play \in BOOLEAN : Replace(m, play)
    \/ \E t \in Tab : Claim(t) \/ Close(t) \/ Tap(t)

Streams ==
    \/ \E i \in 1..Len(queue), way \in {"open", "closed"} : Land(i, way)
    \/ \E c \in Channel : Read(c) \/ End(c) \/ Drop(c) \/ \E t \in Tab : Connect(t, c)
    \/ GraceExpired \/ Restart \/ Lost

Renders == \E t \in Tab : Ended(t) \/ Fails(t) \/ TimeUpdate(t)

Events == \E p \in posts : Event(p)
Answering == \E a \in answers : Answered(a)

BrowserNext == Person \/ Streams \/ Renders \/ Events \/ Answering

\* What a tab posts arrives, unless lost, and an element that plays goes on
\* saying so; nothing else has to happen.
BrowserFairness ==
    /\ WF_browserVars(Events)
    /\ \A t \in Tab : WF_browserVars(TimeUpdate(t))

BrowserSpec == BrowserInit /\ [][BrowserNext]_browserVars /\ BrowserFairness

-----------------------------------------------------------------------------
Place   == 1..Cardinality(Media)
Epoch   == 0..MaxEpoch
Entries == SUBSET [slot : Place, media : Media]
Item    == [media : Media, way : {"open", "pending", "closed"}]
Says    == {"playing", "paused", "ended", "error", "advanced", "timeupdate"}

\* A load says which it is.
Directives ==
    {d \in [cmd : {"load", "queue", "play", "pause", "stop", "released"}, play : BOOLEAN,
            slot : Place \cup {None}, media : Media \cup {None}, epoch : Epoch \cup {None},
            list : Entries] :
        d.cmd = "load" => d.epoch # None}

Outputs ==
    [tab : Tab \cup {None}, chan : Channel \cup {None}, index : Place \cup {0},
     ident : Media \cup {None}, state : {"stopped", "loading", "playing", "paused"},
     epoch : Epoch, parked : Place \cup {None}]
Renderers ==
    [on : BOOLEAN, src : BOOLEAN, slot : Place \cup {None}, media : Media \cup {None},
     playing : BOOLEAN, epoch : Epoch \cup {None}, list : Entries]
Posted == [tab : Tab, event : Says, slot : Place \cup {None}, epoch : Epoch \cup {None}]
ChannelType ==
    {c \in [tab : Tab \cup {None}, at : {"free", "open", "ending"}, inbox : Seq(Directives)] :
        c.at = "open" => c.tab \in Tab}

\* Every variable holds a value of its kind: a slot is one the queue may have, a
\* medium is in one slot of it.
BrowserTypeOK ==
    /\ queue \in Seq(Item)
    /\ \A i, j \in 1..Len(queue) : queue[i].media = queue[j].media => i = j
    /\ out \in Outputs /\ grace \in BOOLEAN
    /\ chans \in [Channel -> ChannelType]
    /\ el \in [Tab -> Renderers]
    /\ posts \subseteq Posted
    /\ answers \subseteq [tab : Tab, d : Directives]
    /\ edits \in 0..MaxEdits /\ faults \in 0..MaxFaults

\* A tab whose stream is open is the one the output plays on, or has been told
\* to let go of it (attach_tab's takeover rule): two devices never go on playing.
OneRenderer ==
    \A c \in Channel :
        chans[c].at = "open" /\ chans[c].tab # out.tab =>
            \E k \in 1..Len(chans[c].inbox) : chans[c].inbox[k].cmd = "released"

\* The output's tab, with its stream open, gets what is pushed (detach_tab: the
\* output gives up on a tab whose stream ended, unless it reconnected in time).
ReconnectedInTime ==
    \A c \in Channel : chans[c].at = "open" /\ chans[c].tab = out.tab => out.chan = c

\* A tab that plays on a slot, from the newest load, is in the end seen to play
\* that slot, whichever event was lost or came late (on_client_event: a lost
\* `advanced` POST self-heals).
PlaysOn(t, i) ==
    /\ el[t].playing /\ el[t].slot = i
    /\ out.tab = t /\ out.epoch \in {0, el[t].epoch}
SlotHeals ==
    \A t \in Tab, i \in 1..Cardinality(Media) :
        <>[]PlaysOn(t, i) => []<>(out.index = i /\ out.state = "playing")
=============================================================================
