--------------------------- MODULE CanonicalQueue ---------------------------
(***************************************************************************)
(* The canonical play queue (backend/playback/queue.py) as pure operators: *)
(* a queue is the sequence of its slots, and a slot is a QueueItem object. *)
(* Two slots are told apart by the object's identity, never by its track:  *)
(* a track queued twice is two slots.                                      *)
(***************************************************************************)
EXTENDS Integers, Sequences

\* The slots of a queue, as a set.
Slots(q) == {q[i] : i \in 1..Len(q)}

\* No object stands in two slots.
Distinct(q) == \A i, j \in 1..Len(q) : q[i] = q[j] => i = j

\* index_of: the 1-based place of this very object, 0 (the code's None) once
\* it is gone.
IndexOf(q, item) ==
    IF item \in Slots(q) THEN CHOOSE i \in 1..Len(q) : q[i] = item ELSE 0

\* insert_after: the new slots stand right behind place at; place 0 is the front.
InsertAfter(q, at, new) == SubSeq(q, 1, at) \o new \o SubSeq(q, at + 1, Len(q))

\* remove: the slot at place i leaves, the rest closes up.
WithoutSlot(q, i) == SubSeq(q, 1, i - 1) \o SubSeq(q, i + 1, Len(q))

\* clear_for_radio: only the slot at place i stays, nothing when there is none.
KeepOnly(q, i) == IF i \in 1..Len(q) THEN <<q[i]>> ELSE <<>>

\* Every order the slots of q can be put in (what /reorder may ask for).
Orders(q) == {p \in [1..Len(q) -> Slots(q)] : Slots(p) = Slots(q) /\ Distinct(p)}
=============================================================================
