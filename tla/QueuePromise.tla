---------------------------- MODULE QueuePromise ----------------------------
(***************************************************************************)
(* What the play queue promises whoever brings it something: a mutation is *)
(* one step, what a request brings is rolled in item by item and in its    *)
(* order, and a replacement calls off whatever was still being rolled in.  *)
(* There are no locks, outputs, generations or fillers here: those are how *)
(* PlaybackQueue keeps the promise. What a request brings is open, so a    *)
(* step says of it only that the objects are new.                          *)
(***************************************************************************)
EXTENDS CanonicalQueue

CONSTANT Route   \* who brings items

VARIABLES
    queue,   \* the slots
    owed     \* what each route has yet to roll into this very queue, in order

vars == <<queue, owed>>

Nothing == [r \in Route |-> <<>>]

Init == queue = <<>> /\ owed = Nothing

\* Objects of their own, none of them in the queue.
New(run) == Distinct(run) /\ Slots(run) \cap Slots(queue) = {}

\* r comes to owe something, and nobody else anything.
OnlyOwes(r) == owed' = [Nothing EXCEPT ![r] = owed'[r]]

\* A new queue: the first of what r brings. It owes the rest, and what
\* anybody owed to the old queue is called off.
Replace(r) ==
    /\ queue' # <<>> /\ New(queue' \o owed'[r])
    /\ OnlyOwes(r)

\* A station: at most one slot stays, and all of it is owed.
Station(r) ==
    /\ \E slot \in 0..Len(queue) : queue' = KeepOnly(queue, slot)
    /\ owed'[r] # <<>> /\ New(owed'[r]) /\ OnlyOwes(r)

\* The first of what somebody brings goes in at once, side by side.
Add ==
    /\ Len(queue') > Len(queue)
    /\ \E place \in 0..Len(queue) :
         LET first == SubSeq(queue', place + 1, place + Len(queue') - Len(queue))
         IN  New(first) /\ queue' = InsertAfter(queue, place, first)
    /\ UNCHANGED owed

\* More is brought for the queue as it is.
Bring(r) ==
    /\ owed[r] = <<>> /\ New(owed'[r])
    /\ owed' = [owed EXCEPT ![r] = owed'[r]]
    /\ UNCHANGED queue

\* The next item owed takes a place, or cannot be had. Nothing else comes in.
RollIn(r) ==
    /\ owed[r] # <<>> /\ owed' = [owed EXCEPT ![r] = Tail(@)]
    /\ \/ \E place \in 0..Len(queue) : queue' = InsertAfter(queue, place, <<Head(owed[r])>>)
       \/ UNCHANGED queue

\* A person takes one slot away, or puts the slots into another order.
Edit ==
    /\ \/ \E i \in 1..Len(queue) : queue' = WithoutSlot(queue, i)
       \/ Distinct(queue') /\ Slots(queue') = Slots(queue)
    /\ UNCHANGED owed

Next ==
    \/ Edit \/ Add
    \/ \E r \in Route : RollIn(r) \/ Bring(r) \/ Replace(r) \/ Station(r)

Spec == Init /\ [][Next]_vars
=============================================================================
