------------------------------ MODULE RadioMode ------------------------------
(***************************************************************************)
(* Radio (backend/routers/player.py): a station that extends the queue     *)
(* behind the playing track, batch after batch. A start clears the queue   *)
(* and leaves a fill thread; the status observer starts the next one when  *)
(* the playhead nears the end. The threads share three module globals with *)
(* no lock: radio_mode, _radio_refilling and _radio_played.                *)
(*                                                                         *)
(* The queue and its generation change in one step here: PlaybackQueue has *)
(* the mutation's own steps. A slot is the track it plays and whether the  *)
(* station of this queue put it there.                                     *)
(***************************************************************************)
EXTENDS Integers, Sequences, FiniteSets

CONSTANTS
    Track,      \* track UUIDs
    Fill,       \* fill threads, those of one moment
    Speaker,    \* threads that deliver ticks
    Batch,      \* _RADIO_BATCH_SIZE
    RefillAt,   \* _RADIO_REFILL_AT
    Clears,     \* how the output may answer a clear: a set of BOOLEANs
    MaxStarts,  \* bound on how often a station is started
    MaxGen,     \* bound on the generation counter
    MaxQueue    \* bound on the queue a refill is still due on

ASSUME RadioAssumption ==
    /\ Batch \in Nat \ {0} /\ RefillAt \in Nat /\ Clears \subseteq BOOLEAN
    /\ MaxStarts \in Nat /\ MaxGen \in Nat \ {0} /\ MaxQueue \in Nat

VARIABLES
    queue,      \* the canonical queue's slots
    generation, \* CanonicalQueue._generation
    mode,       \* manager.radio_mode
    refilling,  \* _radio_refilling
    played,     \* _radio_played
    starter,    \* the one start there may be (_radio_start_lock)
    starts,     \* bound: stations started so far
    observer,   \* where each thread that ticks stands in the status observer
    player,     \* a route that replaces the queue
    fill        \* the fill threads

vars == <<queue, generation, mode, refilling, played, starter, starts, observer, player, fill>>

Slot(track, radio) == [track |-> track, radio |-> radio]

NoFill == [pc |-> "idle", gen |-> 0, batch |-> <<>>]
NoStart == [pc |-> "idle", gen |-> 0, seed |-> {}]

Init ==
    /\ queue \in {<<Slot(t, FALSE)>> : t \in Track}
    /\ generation = 1 /\ mode = FALSE /\ refilling = FALSE /\ played = {}
    /\ starter = NoStart /\ starts = 0
    /\ observer = [s \in Speaker |-> "idle"] /\ player = "idle"
    /\ fill = [f \in Fill |-> NoFill]

\* A new thread runs _radio_fill on the generation it was given.
Spawn(gen) ==
    \E f \in Fill : /\ fill[f].pc = "idle"
                    /\ fill' = [fill EXCEPT ![f] = [NoFill EXCEPT !.pc = "begun", !.gen = gen]]

-----------------------------------------------------------------------------
(* radio_start: one at a time; a second one meanwhile is answered 409.     *)

\* History: what was in the queue before this station is not of it.
Heard(q) == [i \in DOMAIN q |-> Slot(q[i].track, FALSE)]

\* The output cleared: the queue keeps the slot the latest status names, or none.
Start(seed, slot) ==
    /\ starter.pc = "idle" /\ starts < MaxStarts /\ generation < MaxGen
    /\ TRUE \in Clears
    /\ queue' = IF slot = 0 THEN <<>> ELSE Heard(<<queue[slot]>>)
    /\ generation' = generation + 1
    /\ starter' = [pc |-> "cleared", gen |-> generation + 1, seed |-> {seed}]
    /\ starts' = starts + 1
    /\ UNCHANGED <<mode, refilling, played, observer, player, fill>>

\* The output did not clear: the station follows the queue there is.
StartOnTail(seed) ==
    /\ starter.pc = "idle" /\ starts < MaxStarts
    /\ FALSE \in Clears
    /\ queue' = Heard(queue)
    /\ starter' = [pc |-> "cleared", gen |-> generation, seed |-> {seed}]
    /\ starts' = starts + 1
    /\ UNCHANGED <<generation, mode, refilling, played, observer, player, fill>>

ForgetPlayed ==
    /\ starter.pc = "cleared"
    /\ played' = starter.seed
    /\ starter' = [starter EXCEPT !.pc = "forgot"]
    /\ UNCHANGED <<queue, generation, mode, refilling, starts, observer, player, fill>>

HoldRefill ==
    /\ starter.pc = "forgot"
    /\ refilling' = TRUE
    /\ starter' = [starter EXCEPT !.pc = "holding"]
    /\ UNCHANGED <<queue, generation, mode, played, starts, observer, player, fill>>

TurnOn ==
    /\ starter.pc = "holding"
    /\ mode' = TRUE
    /\ starter' = [starter EXCEPT !.pc = "on"]
    /\ UNCHANGED <<queue, generation, refilling, played, starts, observer, player, fill>>

FirstFill ==
    /\ starter.pc = "on"
    /\ Spawn(starter.gen)
    /\ starter' = NoStart
    /\ UNCHANGED <<queue, generation, mode, refilling, played, starts, observer, player>>

-----------------------------------------------------------------------------
(* _radio_fill and _radio_append_batch.                                    *)

At(f, pc) == fill[f].pc = pc
To(f, pc) == fill' = [fill EXCEPT ![f].pc = pc]

Wanted(f) == mode /\ fill[f].gen = generation

\* A batch is picked from the tracks not played in this session, each once.
Batches ==
    {b \in UNION {[1..n -> Track \ played] : n \in 0..Batch} :
        \A i, j \in DOMAIN b : b[i] = b[j] => i = j}

PickBatch(f) ==
    /\ At(f, "begun") /\ Wanted(f)
    /\ \E batch \in Batches : fill' = [fill EXCEPT ![f].pc = "adding", ![f].batch = batch]
    /\ UNCHANGED <<queue, generation, mode, refilling, played, starter, starts, observer, player>>

CheckEntry(f) ==
    /\ At(f, "adding") /\ Wanted(f) /\ fill[f].batch # <<>>
    /\ To(f, "checked")
    /\ UNCHANGED <<queue, generation, mode, refilling, played, starter, starts, observer, player>>

\* A stream that never buffers is skipped.
SkipEntry(f) ==
    /\ At(f, "checked")
    /\ fill' = [fill EXCEPT ![f].pc = "adding", ![f].batch = Tail(@)]
    /\ UNCHANGED <<queue, generation, mode, refilling, played, starter, starts, observer, player>>

\* The append looks at the generation once more, under the queue lock; an
\* entry the output refused counts as played as well.
AppendEntry(f) ==
    /\ At(f, "checked") /\ fill[f].gen = generation
    /\ queue' \in {queue, Append(queue, Slot(Head(fill[f].batch), TRUE))}
    /\ To(f, "noting")
    /\ UNCHANGED <<generation, mode, refilling, played, starter, starts, observer, player>>

NotedLate(track) == played
Noted(track) == played \cup {track}

NoteEntry(f) ==
    /\ At(f, "noting")
    /\ played' = Noted(Head(fill[f].batch))
    /\ fill' = [fill EXCEPT ![f].pc = "adding", ![f].batch = Tail(@)]
    /\ UNCHANGED <<queue, generation, mode, refilling, starter, starts, observer, player>>

\* Radio is off, the queue moved on, or the batch is in.
GiveUp(f) ==
    /\ \/ At(f, "begun") /\ ~Wanted(f)
       \/ At(f, "adding") /\ (~Wanted(f) \/ fill[f].batch = <<>>)
       \/ At(f, "checked") /\ fill[f].gen # generation
    /\ To(f, "leaving")
    /\ UNCHANGED <<queue, generation, mode, refilling, played, starter, starts, observer, player>>

\* finally: the guard is let go, whoever holds it now.
KeepsTheGuard == refilling
ReleasedGuard == FALSE

Leave(f) ==
    /\ At(f, "leaving")
    /\ refilling' = ReleasedGuard
    /\ fill' = [fill EXCEPT ![f] = NoFill]
    /\ UNCHANGED <<queue, generation, mode, played, starter, starts, observer, player>>

-----------------------------------------------------------------------------
(* The status observer, on each thread that brings a tick. One such thread *)
(* is what the poller of an output gives; the browser's ticks come on the  *)
(* request threads that post them, and nothing here takes a lock.          *)

\* A refill is due: one more batch behind a playhead near the end.
DueWhileFilling(idx) == mode /\ idx >= Len(queue) - RefillAt
Due(idx) == mode /\ ~refilling /\ idx >= Len(queue) - RefillAt

\* The tick is tested. It may name any slot.
Tick(s, idx) ==
    /\ observer[s] = "idle" /\ Due(idx) /\ Len(queue) < MaxQueue
    /\ observer' = [observer EXCEPT ![s] = "due"]
    /\ UNCHANGED <<queue, generation, mode, refilling, played, starter, starts, player, fill>>

HoldGuard(s) ==
    /\ observer[s] = "due"
    /\ refilling' = TRUE
    /\ observer' = [observer EXCEPT ![s] = "held"]
    /\ UNCHANGED <<queue, generation, mode, played, starter, starts, player, fill>>

Refill(s) ==
    /\ observer[s] = "held"
    /\ Spawn(generation)
    /\ observer' = [observer EXCEPT ![s] = "idle"]
    /\ UNCHANGED <<queue, generation, mode, refilling, played, starter, starts, player>>

-----------------------------------------------------------------------------
\* A play route replaces the queue, and turns radio off after.
Replace(track) ==
    /\ player = "idle" /\ generation < MaxGen
    /\ queue' = <<Slot(track, FALSE)>>
    /\ generation' = generation + 1
    /\ player' = "replaced"
    /\ UNCHANGED <<mode, refilling, played, starter, starts, observer, fill>>

ExitRadio ==
    /\ player = "replaced"
    /\ mode' = FALSE /\ player' = "idle"
    /\ UNCHANGED <<queue, generation, refilling, played, starter, starts, observer, fill>>

\* radio_stop: the queue is left alone.
Stop ==
    /\ mode /\ mode' = FALSE
    /\ UNCHANGED <<queue, generation, refilling, played, starter, starts, observer, player, fill>>

-----------------------------------------------------------------------------
People ==
    \/ \E seed \in Track, slot \in 0..Len(queue) : Start(seed, slot)
    \/ \E seed \in Track : StartOnTail(seed)
    \/ \E track \in Track : Replace(track)
    \/ Stop

Starter == ForgetPlayed \/ HoldRefill \/ TurnOn \/ FirstFill

FillStep(f) ==
    \/ PickBatch(f)
    \/ CheckEntry(f)
    \/ SkipEntry(f)
    \/ AppendEntry(f)
    \/ NoteEntry(f)
    \/ GiveUp(f)
    \/ Leave(f)

Observer(s) ==
    \/ \E idx \in 1..Len(queue) : Tick(s, idx)
    \/ HoldGuard(s)
    \/ Refill(s)

Next ==
    \/ People \/ ExitRadio \/ Starter
    \/ \E s \in Speaker : Observer(s)
    \/ \E f \in Fill : FillStep(f)

Spec == Init /\ [][Next]_vars

\* Threads run on, and the output goes on ticking; people do as they please.
\* A stream that is waited for comes or fails (proxy.wait_ready has a timeout).
Fairness ==
    /\ WF_vars(Starter) /\ WF_vars(ExitRadio)
    /\ \A s \in Speaker : WF_vars(Observer(s))
    /\ \A f \in Fill : WF_vars(FillStep(f))

FairSpec == Spec /\ Fairness

-----------------------------------------------------------------------------
FillType ==
    [pc : {"idle", "begun", "adding", "checked", "noting", "leaving"},
     gen : 0..MaxGen, batch : Seq(Track)]

\* Every variable holds a value of its kind.
TypeOK ==
    /\ queue \in Seq([track : Track, radio : BOOLEAN])
    /\ generation \in 0..MaxGen /\ starts \in 0..MaxStarts
    /\ mode \in BOOLEAN /\ refilling \in BOOLEAN
    /\ played \subseteq Track
    /\ starter \in [pc : {"idle", "cleared", "forgot", "holding", "on"},
                    gen : 0..MaxGen, seed : SUBSET Track]
    /\ observer \in [Speaker -> {"idle", "due", "held"}] /\ player \in {"idle", "replaced"}
    /\ fill \in [Fill -> FillType]

\* One fill thread at a time (player.py, _radio_refilling). It is owed to the
\* ticks of one thread: with two, both may pass the test before either holds
\* the guard.
OneFillAtATime == Cardinality({f \in Fill : fill[f].pc # "idle"}) <= 1

\* A station never adds a track twice (_radio_played: never repeat).
NeverRepeats ==
    \A i, j \in 1..Len(queue) :
        queue[i].radio /\ queue[j].radio /\ queue[i].track = queue[j].track => i = j

\* The guard is never left standing: the station can always be extended again.
GuardIsReleased == refilling ~> ~refilling
=============================================================================
