---------------------------- MODULE PlaybackQueue ----------------------------
(***************************************************************************)
(* The canonical queue under the threads that change it: the routes of     *)
(* backend/routers/player.py and the background fillers they leave, each   *)
(* going through PlaybackManager's queue lock (backend/playback/manager.py)*)
(* with the output mirrored first and the queue committed after.           *)
(*                                                                         *)
(* A Route is one request thread together with the filler thread it spawns.*)
(* A mutation is two steps of its route: it takes the queue lock and hands *)
(* the output what changes (Begin...), then commits what the output took   *)
(* and lets the lock go (Commit...), or gives up (Abandon..., Refuse...).  *)
(* Whatever reads the queue or its generation without the lock runs in     *)
(* between.                                                                *)
(*                                                                         *)
(* The status a mutation reads (track_index, plays_out_after) is an input: *)
(* the latest tick may be any number of mutations old, so it may name any  *)
(* place of the queue or none.                                             *)
(***************************************************************************)
EXTENDS CanonicalQueue

CONSTANTS
    Item,       \* QueueItem objects; one that nothing holds any more is a new object's
    Output,     \* PlayerBackend objects, one per attached output
    None,       \* the code's None: no item, no output
    Route,      \* request threads, each with its filler
    Free,       \* the queue lock held by no route
    Kinds,      \* what the people of the instance ask for (a subset of AllKinds)
    TrackOf,    \* the track each item plays
    Batch,      \* bound: the most items one request brings
    Tries,      \* how often a filler offers an item the link dropped (the code's 4)
    MaxGen      \* bound on the generation counter

\* play      replace the queue; the filler's generation is the one
\*           replace_queue returned (_add_owned, play_phantom_album)
\* playlist  the same, the generation read after the call (_play_segments)
\* add       append or "play next" now and roll the rest in, with the
\*           generation read after the call (_add_owned)
\* stream    roll everything in, the generation read before (queue_phantom_album)
\* radio     keep the playing slot, roll the station in (radio_start)
Batches  == {"play", "playlist", "add", "stream", "radio"}
AllKinds == Batches \cup {"remove", "reorder"}

ASSUME ConstantsAssumption ==
    /\ None \notin Item \cup Output
    /\ Free \notin Route
    /\ Kinds \subseteq AllKinds
    /\ Batch \in Nat \ {0}
    /\ Tries \in Nat \ {0}
    /\ MaxGen \in Nat

VARIABLES
    queue,       \* CanonicalQueue._items
    generation,  \* CanonicalQueue._generation
    active,      \* the attached output (PlaybackManager._active), or None
    lock,        \* who holds PlaybackManager._mutate_lock
    pc,          \* where each route stands
    request,     \* what each route brings: see NewRequest
    plan,        \* the edit of the sheet each route carries: see NewPlan
    meant        \* history: the generation each item was asked into

vars == <<queue, generation, active, lock, pc, request, plan, meant>>

NoAnchor == -1     \* nothing to go behind: the append goes to the end

\* run     the items the route has yet to hand in, in order
\* cursor  the item of its run placed last (the filler's after)
\* guard   the generation its filler carries
\* tries   how often the link dropped the head of its run
\* at      the place its append goes behind
\* placed  history: the items of the run placed so far, whose order holds
NewRequest(kind, position, run, guard) ==
    [kind |-> kind, position |-> position, run |-> run, cursor |-> None,
     guard |-> guard, tries |-> 0, at |-> NoAnchor, placed |-> {}]

NoRequest == NewRequest("none", "end", <<>>, 0)

\* sheet is what the person saw: the slots, or the one slot at place at;
\* on is the output that was attached
NewPlan(sheet, order, at, on) == [sheet |-> sheet, order |-> order, at |-> at, on |-> on]

NoPlan == NewPlan(<<>>, <<>>, 0, None)

Idle(r) == pc[r] = "idle"

\* Where a route holds the queue lock.
Locked == {"replacing", "clearing", "adding", "appending", "removing", "reordering"}

Held == Slots(queue) \cup UNION {Slots(request[r].run) \cup request[r].placed
                                 \cup {request[r].cursor} \cup Slots(plan[r].sheet) : r \in Route}

\* Objects a request may create: nothing refers to them yet.
Fresh == Item \ Held

\* What one request brings: its items in order, each an object of its own.
Bundles == {s \in UNION {[1..n -> Fresh] : n \in 1..Batch} : Distinct(s)}

Go(r, where) == pc' = [pc EXCEPT ![r] = where]
Acquire(r)   == lock = Free /\ lock' = r
Release(r)   == lock = r /\ lock' = Free

Init ==
    /\ queue = <<>> /\ generation = 0 /\ active \in Output \cup {None}
    /\ lock = Free
    /\ pc = [r \in Route |-> "idle"]
    /\ request = [r \in Route |-> NoRequest]
    /\ plan = [r \in Route |-> NoPlan]
    /\ meant = [i \in Item |-> 0]

-----------------------------------------------------------------------------
\* History: these items were asked into the queue of generation g.
Means(items, g) == meant' = [i \in Item |-> IF i \in items THEN g ELSE meant[i]]

\* What of a run is left behind its first n items.
RestKeepsTheHead(run, n) == SubSeq(run, n, Len(run))
Rest(run, n) == SubSeq(run, n + 1, Len(run))

\* The first n items of the run are in: its filler brings the rest, with the
\* guard its route has now or reads next (where).
Advance(r, n, where) ==
    LET req  == request[r]
        rest == Rest(req.run, n)
    IN  IF rest = <<>>
          THEN Go(r, "idle") /\ request' = [request EXCEPT ![r] = NoRequest]
          ELSE /\ Go(r, where)
               /\ request' = [request EXCEPT ![r] =
                    [req EXCEPT !.run = rest, !.cursor = req.run[n], !.tries = 0,
                                !.guard = IF where = "fill" THEN generation' ELSE @,
                                !.placed = @ \cup Slots(SubSeq(req.run, 1, n))]]

\* A request that is over: nothing of its run is handed in any more.
Drop(r) == Go(r, "idle") /\ request' = [request EXCEPT ![r] = NoRequest]

\* A request arrives. A streamed one is numbered with the generation of the
\* queue as the route finds it, with no lock held, and goes straight to its
\* filler; any other goes through the queue lock first.
Ask(r, k, p, items) ==
    /\ Idle(r) /\ k \in Kinds
    /\ k \notin {"add", "stream"} => p = "end"
    /\ request' = [request EXCEPT ![r] =
         NewRequest(k, p, items, IF k = "stream" THEN generation ELSE 0)]
    /\ Go(r, IF k = "stream" THEN "fill" ELSE "asked")
    /\ Means(IF k = "stream" THEN Slots(items) ELSE {}, generation)
    /\ UNCHANGED <<queue, generation, active, lock, plan>>

NoOutput(r) ==
    /\ pc[r] = "asked" /\ request[r].kind \in {"play", "playlist", "radio"}
    /\ active = None /\ lock = Free
    /\ Drop(r)
    /\ UNCHANGED <<queue, generation, active, lock, plan, meant>>

\* replace_queue: the output is handed the new queue under the lock.
BeginReplace(r) ==
    /\ pc[r] = "asked" /\ request[r].kind \in {"play", "playlist"}
    /\ active # None /\ generation < MaxGen
    /\ Acquire(r) /\ Go(r, "replacing")
    /\ UNCHANGED <<queue, generation, active, request, plan, meant>>

\* The first n items are the new queue, the rest rolls in behind them. The
\* generation is the filler's own only when the route takes it from the call.
CommitReplace(r, n) ==
    /\ pc[r] = "replacing" /\ Release(r)
    /\ queue' = SubSeq(request[r].run, 1, n)
    /\ generation' = generation + 1
    /\ Means(Slots(request[r].run), generation + 1)
    /\ Advance(r, n, IF request[r].kind = "play" THEN "fill" ELSE "numbering")
    /\ UNCHANGED <<active, plan>>

\* The output took none of it, or the session rotation before the commit
\* failed: the output abandons it, and nothing commits.
AbandonReplace(r) ==
    /\ pc[r] = "replacing" /\ Release(r) /\ Drop(r)
    /\ UNCHANGED <<queue, generation, active, plan, meant>>

\* The generation of the queue, read once the lock is let go.
ReadGeneration(r) ==
    /\ pc[r] = "numbering"
    /\ request' = [request EXCEPT ![r].guard = generation]
    /\ Go(r, "fill")
    /\ UNCHANGED <<queue, generation, active, lock, plan, meant>>

-----------------------------------------------------------------------------
\* Where append puts new slots: for "next" behind the playing slot - or the
\* place of a removed one that plays out - and never before the run it
\* extends; anything else at the end.
AnchorForgetsTheRun(r, slot, out) ==
    IF request[r].position # "next" THEN NoAnchor
    ELSE IF slot \in 1..Len(queue) THEN slot
    ELSE IF out \in 0..Len(queue) THEN out ELSE NoAnchor
Anchor(r, slot, out) ==
    LET playing == IF slot \in 1..Len(queue) THEN slot
                   ELSE IF out \in 0..Len(queue) THEN out ELSE NoAnchor
        behind  == IndexOf(queue, request[r].cursor)
    IN  IF request[r].position # "next" THEN NoAnchor
        ELSE IF behind = 0 \/ playing >= behind THEN playing ELSE behind

\* A filler whose generation is past: the queue moved on under it.
StaleNever(r) == FALSE
Stale(r) == request[r].guard # generation

\* append: the first of a request, or the next item of a filler.
BeginAppend(r, slot, out) ==
    /\ \/ pc[r] = "asked" /\ request[r].kind = "add" /\ Go(r, "adding")
       \/ pc[r] = "fill" /\ ~Stale(r) /\ Go(r, "appending")
    /\ Acquire(r)
    /\ request' = [request EXCEPT ![r].at = Anchor(r, slot, out)]
    /\ UNCHANGED <<queue, generation, active, plan, meant>>

StopFilling(r) ==
    /\ pc[r] = "fill" /\ Stale(r) /\ lock = Free
    /\ Drop(r)
    /\ UNCHANGED <<queue, generation, active, lock, plan, meant>>

\* The output took the first n items: they stand behind the anchor, or behind
\* the slot the output read when it had moved on past it.
Insert(r, n, behind) ==
    LET new == SubSeq(request[r].run, 1, n)
        to  == request[r].at
    IN  /\ behind = to \/ (to # NoAnchor /\ active # None)
        /\ queue' = IF to = NoAnchor THEN queue \o new ELSE InsertAfter(queue, behind, new)

CommitAdd(r, n, behind) ==
    /\ pc[r] = "adding" /\ Release(r)
    /\ Insert(r, n, behind)
    /\ Means(Slots(request[r].run), generation)
    /\ Advance(r, n, "numbering")
    /\ UNCHANGED <<generation, active, plan>>

CommitFill(r, behind) ==
    /\ pc[r] = "appending" /\ Release(r)
    /\ Insert(r, 1, behind)
    /\ UNCHANGED generation
    /\ Advance(r, 1, "fill")
    /\ UNCHANGED <<active, plan, meant>>

\* The output refused the first of a request: it ends there.
RefuseAdd(r) ==
    /\ pc[r] = "adding" /\ active # None /\ Release(r) /\ Drop(r)
    /\ UNCHANGED <<queue, generation, active, plan, meant>>

\* A filler goes on with its next item.
SkipTheRun(r) == Drop(r)
Skip(r) ==
    LET rest == Rest(request[r].run, 1)
    IN  IF rest = <<>> THEN Drop(r)
        ELSE Go(r, "fill") /\ request' = [request EXCEPT ![r].run = rest, ![r].tries = 0]

\* A file the output refused is not offered again.
RefuseFill(r) ==
    /\ pc[r] = "appending" /\ active # None /\ Release(r) /\ Skip(r)
    /\ UNCHANGED <<queue, generation, active, plan, meant>>

\* How often an item was offered, and whether it may be once more.
OfferedUncounted(n) == n
Offered(n) == n + 1
OnceMoreTooMany(n) == n <= Tries
OnceMore(n) == n < Tries

\* The link did not send it - an output change cut it short, or a build did
\* not end: the same item is offered again, a bounded number of times.
DropFill(r) ==
    /\ pc[r] = "appending" /\ active # None /\ Release(r)
    /\ IF OnceMore(Offered(request[r].tries))
         THEN Go(r, "fill") /\ request' = [request EXCEPT ![r].tries = Offered(@)]
         ELSE Skip(r)
    /\ UNCHANGED <<queue, generation, active, plan, meant>>

-----------------------------------------------------------------------------
\* clear_for_radio: only the slot the status names stays.
BeginRadio(r) ==
    /\ pc[r] = "asked" /\ request[r].kind = "radio"
    /\ active # None /\ generation < MaxGen
    /\ Acquire(r) /\ Go(r, "clearing")
    /\ UNCHANGED <<queue, generation, active, request, plan, meant>>

CommitRadio(r, slot) ==
    /\ pc[r] = "clearing" /\ Release(r)
    /\ queue' = KeepOnly(queue, slot)
    /\ generation' = generation + 1
    /\ Means(Slots(queue') \cup Slots(request[r].run), generation + 1)
    /\ request' = [request EXCEPT ![r].guard = generation + 1]
    /\ Go(r, "fill")
    /\ UNCHANGED <<active, plan>>

\* An output that did not clear keeps the queue and its generation, and the
\* station follows it.
RadioNotCleared(r) ==
    /\ pc[r] = "clearing" /\ Release(r)
    /\ Means(Slots(request[r].run), generation)
    /\ request' = [request EXCEPT ![r].guard = generation]
    /\ Go(r, "fill")
    /\ UNCHANGED <<queue, generation, active, plan>>

AbandonRadio(r) ==
    /\ pc[r] = "clearing" /\ Release(r) /\ Drop(r)
    /\ UNCHANGED <<queue, generation, active, plan, meant>>

-----------------------------------------------------------------------------
\* A person takes a slot off the sheet: its place and the track it showed.
PlanRemove(r, i) ==
    /\ Idle(r) /\ "remove" \in Kinds
    /\ plan' = [plan EXCEPT ![r] = NewPlan(<<queue[i]>>, <<>>, i, None)]
    /\ Go(r, "removal")
    /\ UNCHANGED <<queue, generation, active, lock, request, meant>>

\* remove: the place must still hold that track.
StillThereAnyTrack(r) == plan[r].at \in 1..Len(queue)
StillThere(r) ==
    /\ plan[r].at \in 1..Len(queue)
    /\ TrackOf[queue[plan[r].at]] = TrackOf[plan[r].sheet[1]]

CloseSheet(r) == Go(r, "idle") /\ plan' = [plan EXCEPT ![r] = NoPlan]

BeginRemove(r) ==
    /\ pc[r] = "removal" /\ StillThere(r)
    /\ Acquire(r) /\ Go(r, "removing")
    /\ UNCHANGED <<queue, generation, active, request, plan, meant>>

MovedUnder(r) ==
    /\ pc[r] = "removal" /\ ~StillThere(r) /\ lock = Free
    /\ CloseSheet(r)
    /\ UNCHANGED <<queue, generation, active, lock, request, meant>>

\* A run whose last placed item a person takes away has no place to go on
\* from, and a person's own order is theirs: what was placed is owed no order.
Forfeit(gone) ==
    request' = [r \in Route |-> IF request[r].cursor \in gone
                                  THEN [request[r] EXCEPT !.placed = {}] ELSE request[r]]

CommitRemove(r) ==
    /\ pc[r] = "removing" /\ Release(r)
    /\ queue' = WithoutSlot(queue, plan[r].at)
    /\ Forfeit({queue[plan[r].at]})
    /\ CloseSheet(r)
    /\ UNCHANGED <<generation, active, meant>>

\* A removal or a reorder the output refused: the queue as it was.
AbandonEdit(r) ==
    /\ pc[r] \in {"removing", "reordering"} /\ active # None /\ Release(r)
    /\ CloseSheet(r)
    /\ UNCHANGED <<queue, generation, active, request, meant>>

\* A person drags the sheet into another order, read with no lock held, on
\* the output there is.
PlanReorder(r, wanted) ==
    /\ Idle(r) /\ "reorder" \in Kinds /\ wanted # queue
    /\ plan' = [plan EXCEPT ![r] = NewPlan(queue, wanted, 0, active)]
    /\ Go(r, "reorder")
    /\ UNCHANGED <<queue, generation, active, lock, request, meant>>

\* apply_reorder: only on the very slots, in the order, and on the output it
\* was planned on.
PlanHolds(r) == queue = plan[r].sheet /\ active = plan[r].on

BeginReorder(r) ==
    /\ pc[r] = "reorder" /\ PlanHolds(r)
    /\ Acquire(r) /\ Go(r, "reordering")
    /\ UNCHANGED <<queue, generation, active, request, plan, meant>>

PlanOvertaken(r) ==
    /\ pc[r] = "reorder" /\ ~PlanHolds(r) /\ lock = Free
    /\ CloseSheet(r)
    /\ UNCHANGED <<queue, generation, active, lock, request, meant>>

CommitReorder(r) ==
    /\ pc[r] = "reordering" /\ Release(r)
    /\ queue' = plan[r].order
    /\ Forfeit(Item)
    /\ CloseSheet(r)
    /\ UNCHANGED <<generation, active, meant>>

\* An output is attached or let go: output_change takes the queue lock.
SwitchOutput ==
    /\ lock = Free
    /\ active' \in (Output \cup {None}) \ {active}
    /\ UNCHANGED <<queue, generation, lock, pc, request, plan, meant>>

-----------------------------------------------------------------------------
Asks(r) ==
    \/ \E k \in Batches, p \in {"next", "end"}, items \in Bundles : Ask(r, k, p, items)
    \/ \E i \in 1..Len(queue) : PlanRemove(r, i)
    \/ \E wanted \in Orders(queue) : PlanReorder(r, wanted)

\* A route that was asked meets the lock.
Enter(r) ==
    \/ NoOutput(r)
    \/ BeginReplace(r)
    \/ BeginRadio(r)
    \/ \E slot, out \in -1..Len(queue) : BeginAppend(r, slot, out)
    \/ StopFilling(r)
    \/ BeginRemove(r)
    \/ MovedUnder(r)
    \/ BeginReorder(r)
    \/ PlanOvertaken(r)

\* What it does with the lock held, and right after it.
Leave(r) ==
    \/ \E n \in 1..Len(request[r].run) : CommitReplace(r, n)
    \/ AbandonReplace(r)
    \/ ReadGeneration(r)
    \/ \E n \in 1..Len(request[r].run), behind \in request[r].at..Len(queue) : CommitAdd(r, n, behind)
    \/ \E behind \in request[r].at..Len(queue) : CommitFill(r, behind)
    \/ RefuseAdd(r)
    \/ RefuseFill(r)
    \/ DropFill(r)
    \/ \E slot \in 0..Len(queue) : CommitRadio(r, slot)
    \/ RadioNotCleared(r)
    \/ AbandonRadio(r)
    \/ CommitRemove(r)
    \/ AbandonEdit(r)
    \/ CommitReorder(r)

Next == SwitchOutput \/ \E r \in Route : Asks(r) \/ Enter(r) \/ Leave(r)

Spec == Init /\ [][Next]_vars

\* A thread that holds the lock goes on; one that wants it gets it in the end.
\* Nobody is made to ask for anything.
Fairness == \A r \in Route : WF_vars(Leave(r)) /\ SF_vars(Enter(r))

FairSpec == Spec /\ Fairness

-----------------------------------------------------------------------------
RequestType ==
    [kind : Batches \cup {"none"}, position : {"next", "end"}, run : Seq(Item),
     cursor : Item \cup {None}, guard : 0..MaxGen, tries : 0..(Tries - 1),
     at : Nat \cup {NoAnchor}, placed : SUBSET Item]

PlanType == [sheet : Seq(Item), order : Seq(Item), at : Nat, on : Output \cup {None}]

\* Every variable holds a value of its kind.
TypeOK ==
    /\ queue \in Seq(Item)
    /\ generation \in 0..MaxGen
    /\ active \in Output \cup {None}
    /\ lock \in Route \cup {Free}
    /\ pc \in [Route -> {"idle", "asked", "numbering", "fill", "removal", "reorder"} \cup Locked]
    /\ request \in [Route -> RequestType]
    /\ plan \in [Route -> PlanType]
    /\ meant \in [Item -> 0..MaxGen]

\* No item stands in two slots of the queue.
SlotsAreDistinct == Distinct(queue)

\* Every slot was asked into the queue there is.
SlotsMeantForThisQueue == \A i \in Slots(queue) : meant[i] = generation

\* An item of a run lands behind everything of the run placed before it.
RunGoesForward ==
    [][\A r \in Route :
         \A x \in (Slots(queue') \ Slots(queue)) \cap Slots(request[r].run),
            y \in request[r].placed \cap Slots(queue') :
             IndexOf(queue', y) < IndexOf(queue', x)]_vars

\* An edit of the sheet does what the person saw, and nothing else: a reorder
\* keeps the very slots, a removal takes one slot, of the track they saw.
EditsDoWhatWasSeen ==
    [][\A r \in Route :
         /\ pc[r] = "reordering" /\ queue' # queue
              => queue' = plan[r].order /\ Slots(queue') = Slots(queue)
         /\ pc[r] = "removing" /\ queue' # queue
              => \E i \in Slots(queue) : /\ Slots(queue') = Slots(queue) \ {i}
                                         /\ TrackOf[i] = TrackOf[plan[r].sheet[1]]]_vars

\* What a route still owes to the queue there is: a filler whose generation is
\* past owes nothing, whatever is left of its run.
Owed(r) ==
    IF pc[r] \in {"fill", "appending"} /\ request[r].guard = generation
      THEN request[r].run ELSE <<>>

Owing == [r \in Route |-> Owed(r)]

Promised == INSTANCE QueuePromise WITH owed <- Owing

\* Locks, outputs and generations together keep what the queue promises: an
\* edit is one step, items come in one by one in their order, and a
\* replacement calls off all that was still being rolled in.
KeepsThePromise == Promised!Spec

\* Every filler ends: its run goes in, is refused, or its queue is gone.
FillersEnd == \A r \in Route : pc[r] = "fill" ~> pc[r] = "idle"
=============================================================================
