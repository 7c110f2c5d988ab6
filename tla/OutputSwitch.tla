---------------------------- MODULE OutputSwitch ----------------------------
(***************************************************************************)
(* Which output plays the queue, and who may say so                        *)
(* (playback/manager.py, routers/settings.py): a person's switch, the play *)
(* gate that attaches a lost output again, the scan that finds a renderer  *)
(* elsewhere, the hold that lends HQPlayer to a benchmark, and the status  *)
(* threads, whose words count in a step after the one that checked whose   *)
(* they are.                                                               *)
(*                                                                         *)
(* activate() takes a step where other threads may come between: the old   *)
(* output is let go, the new one attached, started, resumed.  Every caller *)
(* holds the queue and the ensure lock (turn), so its own lock never waits *)
(* and is left out.  Seconds are left out: a spot is a slot.               *)
(***************************************************************************)
EXTENDS Integers, Sequences

CONSTANTS
    Output, Lendable, Rendered,  \* the outputs; HQPlayer; renderers, which come and go
    Request, Slots,              \* threads that change or start the output; slots of the queue
    MaxAttach, None              \* how often an output is attached

\* One of the outputs can be lent, and the queue has a slot to play.
SwitchAssumption == None \notin Request /\ Slots \in Nat \ {0} /\ Lendable \in Output

VARIABLES
    inst,       \* the backends attached so far: what each plays, holds and believes
    active,     \* PlaybackManager._active: the number of the backend, or 0
    chosen,     \* output.type, as persisted
    latest,     \* _latest_status
    lastSlot,   \* _last_slot
    carried,    \* the tracker's _carried
    listen,     \* the track of the tracker's open listen (its slot), or 0
    stale,      \* what the output let go last was about to publish, past the sender check
    turn,       \* who holds _mutate_lock and _ensure_lock
    req,        \* where each request stands
    hold,       \* "no", "taken", "lent", or "back": HQPlayer is attached again
    stood,      \* history: where the attached output last said it stands, and if it had a spot
    excused     \* history: the ways in which a word of an output was missed or came late

outputs == <<inst, active, chosen>>
status  == <<latest, lastSlot>>
tracker == <<carried, listen>>
vars    == <<outputs, status, tracker, stale, turn, req, hold, stood, excused>>

Slot0  == 0..Slots

Word(state, slot, resume) == [state |-> state, slot |-> slot, resume |-> resume]
NoWord == Word("none", 0, 0)
Idle  == [pc |-> "idle", what |-> "none", to |-> None, again |-> FALSE, spot |-> 0,
          prev |-> 0, inst |-> 0]

Attached(o) == [out |-> o, here |-> TRUE, well |-> TRUE, state |-> "attaching", slot |-> 0,
                heir |-> FALSE, told |-> FALSE]
LetGo       == [Attached(None) EXCEPT !.here = FALSE]

SwitchInit ==
    /\ chosen \in Output
    /\ inst = <<[Attached(chosen) EXCEPT !.state = "playing", !.slot = 1, !.told = TRUE]>>
    /\ active = 1 /\ latest = Word("playing", 1, 0) /\ lastSlot = 1
    /\ carried = FALSE /\ listen = 1
    /\ stale = NoWord
    /\ turn = None /\ req = [r \in Request |-> Idle] /\ hold = "no"
    /\ stood = [slot |-> 1, spot |-> TRUE] /\ excused = {}

Here == active # 0

\* A renderer has no device before it is started.
HasDevice == inst[active].out \in Rendered => \A r \in Request : req[r].pc # "start"

\* Believed healthy.
Fit == Here /\ inst[active].well /\ HasDevice

\* Where the output stands, from its latest word, or 0: nowhere (spot).
SpotOf(w) ==
    CASE w.state \in {"playing", "paused"}       -> w.slot
      [] w.state \in {"stopped", "disconnected"} -> w.resume

-----------------------------------------------------------------------------
(* What an output does by itself, or for a person who does not ask it to   *)
(* play: the play gate is not in the way.                                  *)

Goes(b) == inst' = [inst EXCEPT ![active] = b]

PlaysOn ==
    LET b == inst[active]
    IN  \/ b.state = "playing" /\ b.slot < Slots /\ Goes([b EXCEPT !.slot = @ + 1])
        \/ b.state = "playing" /\ Goes([b EXCEPT !.state = "paused"])

\* Refused while the output is lent (backend).
Stop ==
    /\ hold = "no" /\ inst[active].state \in {"playing", "paused", "holding"}
    /\ Goes([inst[active] EXCEPT !.state = "stopped", !.heir = FALSE])

\* It stops answering, and is lost until it is attached again; a renderer keeps
\* the spot it was at.
Lose ==
    /\ inst[active].out \in Rendered \cup {Lendable}
    /\ Goes([inst[active] EXCEPT !.well = FALSE, !.state = IF @ \in {"playing", "paused"}
                                                             THEN "holding" ELSE @])

\* Bound: of the last output only the attach is followed, and its words.
More == Len(inst) < MaxAttach

World ==
    /\ Fit /\ More
    /\ PlaysOn \/ Stop \/ Lose
    /\ UNCHANGED <<active, chosen, status, tracker, stale, turn, req, hold, stood, excused>>

-----------------------------------------------------------------------------
(* The status threads (_on_backend_status).                                *)

Says(b) ==
    IF ~b.well /\ b.out = Lendable THEN Word("disconnected", 0, 0)
    ELSE CASE b.state = "attaching" -> Word("stopped", 0, 0)
           [] b.state = "holding"   -> IF b.well /\ b.out \in Rendered
                                         THEN Word("paused", b.slot, 0)
                                         ELSE Word("stopped", b.slot, b.slot)
           [] OTHER                 -> Word(b.state, b.slot, 0)

\* No end of the listen (track_play_event; ListenTracker has the whole of it).
Interrupts(w) ==
    /\ listen # 0
    /\ w.state = "paused" \/ (carried /\ (w.slot = 0 \/ (w.slot = listen /\ w.resume # 0)))

Tracked(w) ==
    IF w.state = "disconnected" \/ (w.state # "playing" /\ Interrupts(w))
      THEN UNCHANGED tracker
      ELSE carried' = FALSE /\ listen' = IF w.state = "playing" THEN w.slot ELSE 0

\* What an output says before it was told where to resume names no place.
Names(w) == w.slot >= 1 \/ w.state = "disconnected"

Counts(w) ==
    /\ Tracked(w)
    /\ lastSlot' = (IF w.slot >= 1 THEN w.slot ELSE lastSlot) /\ latest' = w
    /\ stood' = IF Names(w) THEN [slot |-> lastSlot', spot |-> SpotOf(w) >= 1] ELSE stood
    /\ UNCHANGED <<active, chosen, turn, req, hold>>

\* A change that has read the spot is about to let the output go.
Leaving == turn # None /\ req[turn].pc = "off"

\* Only the attached output is heard.
Say ==
    LET w == Says(inst[active])
    IN  /\ Here /\ Counts(w)
        /\ inst' = [inst EXCEPT ![active].told = @ \/ Names(w)]
        /\ excused' = IF Leaving THEN excused \cup {"stray"} ELSE excused
        /\ UNCHANGED stale

\* A word that was past the check as its output was let go.
SayStale ==
    /\ stale # NoWord /\ Counts(stale) /\ stale' = NoWord
    /\ excused' = excused \cup {"stray"} /\ UNCHANGED inst

-----------------------------------------------------------------------------
(* Who asks for what, at the locks.  What is looked at before them (whether *)
(* the output is lent, or well) is looked at again under them, so a request *)
(* that waits keeps nothing and is no state; only a play intent that needs  *)
(* no lock keeps the output it took.                                        *)

At(r, where) == req' = [req EXCEPT ![r] = where]

Pressing == [Idle EXCEPT !.pc = "press", !.inst = active]

\* An output believed healthy is taken as it is (ensure_active).
TakeOutput(r) ==
    /\ req[r] = Idle /\ hold = "no" /\ Fit /\ More
    /\ At(r, Pressing)
    /\ UNCHANGED <<outputs, status, tracker, stale, turn, hold, stood, excused>>

\* An output that has been told where to stand and has not said so yet: its
\* spot is in no status, and a change that reads it now reads none.
Unsaid == IF Here /\ ~inst[active].told THEN excused \cup {"unsaid"} ELSE excused

\* Bound: a late word comes before the next change, and with it the end.
Followed == stale = NoWord /\ "stray" \notin excused

\* The locks are free and the output is not lent: the change begins, its spot
\* read from the latest status.
Begins(r, what, to, again) ==
    /\ req[r] = Idle /\ turn = None /\ hold = "no" /\ More /\ Followed
    /\ turn' = r /\ excused' = Unsaid
    /\ At(r, [Idle EXCEPT !.pc = "off", !.what = what, !.to = to, !.again = again,
                          !.spot = SpotOf(latest)])
    /\ UNCHANGED <<inst, active, status, tracker, stale, stood>>

Driven(o) == Here /\ inst[active].out = o

\* A switch from the picker (_put_output_prefs).  HQPlayer picked again stays
\* as it is, and so does a renderer that is well.
PickAnother(r) ==
    /\ UNCHANGED hold
    /\ \E o \in Output :
        /\ chosen' = o
        /\ o \in Rendered \cup {Lendable} => ~Driven(o)
        /\ Begins(r, "switch", o, FALSE)

\* An output that is lost is attached again at its spot (_attach_again): for a
\* press, for a renderer picked again, or one a scan found elsewhere.  A press
\* goes through the same way when nothing is attached.  For a renderer that
\* answers nowhere nothing begins.
AttachAgain(r) ==
    /\ UNCHANGED <<chosen, hold>>
    /\ ~Fit
    /\ \E what \in {"press"} \cup (IF Here /\ inst[active].out \in Rendered THEN {"scan"} ELSE {}) :
        Begins(r, what, chosen, TRUE)

\* The output is lent: HQPlayer, well or not (hold).
Hold(r) ==
    /\ UNCHANGED chosen
    /\ Driven(Lendable) /\ hold' = "taken" /\ Begins(r, "hold", None, FALSE)

-----------------------------------------------------------------------------
(* activate(), with the turn held.                                         *)

Detached == IF Here THEN [inst EXCEPT ![active] = LetGo] ELSE inst

\* The old output is let go: "disconnected", unless it is attached again; the
\* hold says "stopped", lets the locks go and leaves HQPlayer to its job.
Off(r) ==
    LET q == req[r]
    IN  /\ q.pc = "off"
        /\ active' = 0 /\ inst' = Detached
        /\ stale' \in {NoWord} \cup (IF Here THEN {Says(inst[active])} ELSE {})
        /\ IF q.what = "hold"
             THEN /\ hold' = "lent" /\ turn' = None /\ latest' = Word("stopped", 0, 0)
                  /\ stood' = [stood EXCEPT !.spot = FALSE]
                  /\ At(r, [q EXCEPT !.pc = "lent", !.spot = 0])
             ELSE /\ latest' = IF q.again THEN latest ELSE Word("disconnected", 0, 0)
                  /\ At(r, [q EXCEPT !.pc = "on", !.prev = lastSlot])
                  /\ UNCHANGED <<hold, turn, stood>>
        /\ UNCHANGED <<chosen, lastSlot, tracker, excused>>

\* The job is over: HQPlayer is attached again, still held.
EndJob(r) ==
    /\ req[r].pc = "lent" /\ turn = None
    /\ turn' = r /\ hold' = "back"
    /\ At(r, [req[r] EXCEPT !.pc = "on", !.to = Lendable])
    /\ UNCHANGED <<outputs, status, tracker, stale, stood, excused>>

\* History: the output before stood at a spot, and that is where the listen is.
Inherits == stood.spot /\ listen # 0 /\ listen = stood.slot

\* The listen is carried, and the new output named, before it starts.
On(r) ==
    LET q == req[r]
    IN  /\ q.pc = "on"
        /\ carried' = (q.spot >= 1 /\ listen # 0)
        /\ inst' = Append(inst, [Attached(q.to) EXCEPT !.heir = Inherits]) /\ active' = Len(inst) + 1
        /\ At(r, [Idle EXCEPT !.pc = "start", !.what = q.what, !.spot = q.spot,
                              !.prev = IF q.again THEN q.prev ELSE lastSlot])
        /\ UNCHANGED <<chosen, status, listen, stale, turn, hold, stood, excused>>

Unlock == turn' = None /\ hold' = "no"

FailedForgetful(spot) == Word("disconnected", 0, 0)

\* The spot stays the output's for the next play press.
Failed(spot) == Word("disconnected", 0, spot)

StartFails(r) ==
    /\ req[r].pc = "start" /\ inst[active].out \in Rendered
    /\ active' = 0 /\ inst' = Detached
    /\ latest' = Failed(req[r].spot)
    /\ Unlock /\ At(r, Idle)
    /\ UNCHANGED <<chosen, lastSlot, tracker, stale, stood, excused>>

\* An HQPlayer found playing keeps its own place.
Start(r) ==
    /\ req[r].pc = "start" /\ At(r, [req[r] EXCEPT !.pc = "resume"])
    /\ \/ UNCHANGED inst
       \/ /\ inst[active].out = Lendable
          /\ \E s \in 1..Slots : Goes([inst[active] EXCEPT !.state = "playing", !.slot = s,
                                                           !.heir = FALSE])
    /\ UNCHANGED <<active, chosen, status, tracker, stale, turn, hold, stood, excused>>

\* The spot, or the last slot from its start.
Place(q) == IF q.spot >= 1 THEN q.spot ELSE q.prev

\* The output stands at a place (resume_at).  A play that got in before it is
\* placed there all the same, whatever it plays, but on HQPlayer.
Placed(b, place) ==
    CASE place >= 1 /\ (b.out # Lendable \/ b.state = "attaching") ->
            {[b EXCEPT !.state = s, !.slot = place, !.told = FALSE] :
             s \in {"holding"} \cup (IF b.state = "playing" THEN {"playing"} ELSE {})}
      [] place = 0 /\ b.state = "attaching" -> {[b EXCEPT !.state = "stopped"]}
      [] OTHER                               -> {b}

ResumeAt(r) ==
    /\ req[r].pc = "resume" /\ At(r, [Idle EXCEPT !.pc = "say", !.what = req[r].what])
    /\ \E b \in Placed(inst[active], Place(req[r])) : Goes(b)
    /\ UNCHANGED <<active, chosen, status, tracker, stale, turn, hold, stood, excused>>

\* A renderer says at once where it stands; a poller, an engine's thread, when
\* it comes to it.
Leave(r) ==
    /\ req[r].pc = "say"
    /\ inst[active].told \/ inst[active].out \notin Rendered \/ inst[active].slot = 0
    /\ Unlock /\ At(r, IF req[r].what = "press" THEN Pressing ELSE Idle)
    /\ UNCHANGED <<outputs, status, tracker, stale, stood, excused>>

TakesAlways(n) == TRUE

\* An output that was let go, or whose link is lent, refuses what it is asked,
\* and so does a renderer with no device yet.
Takes(n) == inst[n].here /\ hold = "no" /\ HasDevice

\* The play intent reaches the output it took at the gate.  A renderer lost
\* since may still take it, and is said stopped whatever it plays.
Command(r) ==
    LET n == req[r].inst
    IN  /\ req[r].pc = "press" /\ At(r, Idle)
        /\ IF Takes(n)
             THEN \E s \in 1..Slots :
                  /\ inst[n].slot \in {0, s}
                  /\ \/ inst' = [inst EXCEPT ![n].state = IF inst[n].well THEN "playing"
                                                               ELSE "stopped",
                                              ![n].slot = s, ![n].heir = FALSE]
                     \/ ~inst[n].well /\ UNCHANGED inst
             ELSE UNCHANGED inst
        /\ UNCHANGED <<active, chosen, status, tracker, stale, turn, hold, stood, excused>>

SwitchNext ==
    \/ World
    \/ Say \/ SayStale
    \/ \E r \in Request :
        \/ PickAnother(r) \/ AttachAgain(r) \/ Hold(r) \/ TakeOutput(r)
        \/ Off(r) \/ EndJob(r) \/ On(r) \/ StartFails(r) \/ Start(r) \/ ResumeAt(r) \/ Leave(r)
        \/ Command(r)

SwitchSpec == SwitchInit /\ [][SwitchNext]_vars

-----------------------------------------------------------------------------
\* Every variable holds a value of its kind; a backend is attached while no
\* change is under way or it is the one being attached.
SwitchTypeOK ==
    /\ inst \in Seq([out : Output \cup {None}, here : BOOLEAN, well : BOOLEAN, slot : Slot0,
                     state : {"attaching", "holding", "playing", "paused", "stopped"},
                     heir : BOOLEAN, told : BOOLEAN])
    /\ active \in 0..Len(inst) /\ chosen \in Output
    /\ \A n \in 1..Len(inst) : inst[n].here <=> n = active
    /\ latest \in [state : {"playing", "paused", "stopped", "disconnected"}, slot : Slot0,
                   resume : Slot0]
    /\ stale = NoWord \/ stale \in [state : {"playing", "paused", "stopped", "disconnected"},
                                   slot : Slot0, resume : Slot0]
    /\ lastSlot \in Slot0 /\ carried \in BOOLEAN /\ listen \in Slot0
    /\ turn \in Request \cup {None} /\ hold \in {"no", "taken", "lent", "back"}
    /\ \A r \in Request : req[r].pc \in {"off", "on", "start", "resume", "say"} <=> turn = r
    /\ stood \in [slot : Slot0, spot : BOOLEAN] /\ excused \subseteq {"stray", "unsaid"}

\* While HQPlayer is lent to a job nothing else reaches it: no play intent that
\* took the output before, no switch, scan or press that waited at the lock
\* (manager.hold).
LeavesTheLentAlone == hold = "lent" => UNCHANGED <<inst, active>>

\* The first words of an output nobody has asked for anything end no listen
\* that stood at a spot when it was attached.
FirstWordsEndNothing == Say /\ inst[active].heir => listen' = listen

\* An output that is attached stands where the one before it stood, and what
\* was listened to there goes on as one listen (activate, spot, carry_listen):
\* through failed attaches, holds, scans and presses.  Only a word of the old
\* output that is past the sender check, or a second change before the new one
\* has said a word, may lose it.
GoesOn ==
    /\ \A r \in Request :
         ResumeAt(r) /\ inst[active].state = "attaching" /\ "stray" \notin excused =>
             inst'[active].slot = stood.slot
    /\ excused' = {} => FirstWordsEndNothing
=============================================================================
