----------------------------- MODULE RelayedChat -----------------------------
(***************************************************************************)
(* A chat message on its way to a friend (desktop/p2p/p2p_manager.py,       *)
(* sync_server.py, chat_service.py): pushed directly, else handed to a     *)
(* relay that stores nothing, which sends it down the streams of every     *)
(* node of the friend's account and waits for the first signed receipt.    *)
(* No receipt, no delivery: the message stays queued and is retried.  It   *)
(* may come in a page of the thread's history as well.                     *)
(*                                                                         *)
(* Every sealing of a message differs, and a receipt names the sealing it  *)
(* is for.  Notices, answers, pages, receipts and streams may be lost,     *)
(* either pusher may raise, and each of the three may restart, MaxFaults   *)
(* times in all.                                                           *)
(***************************************************************************)
EXTENDS Naturals, FiniteSets, Sequences, SequencesExt, FiniteSetsExt

CONSTANTS
    Msg,           \* 1..N: the messages to one friend, by their uuids, in time order
    Node,          \* the nodes of the friend's account
    Accepting,     \* those of them that have the sender as a friend
    Forward,       \* forwards the relay holds at one time
    Seal,          \* bound: sealings on their way at one time, 1..N
    QueueMax,      \* envelopes waiting on one stream (the code's QUEUE_MAX, 100)
    MaxFaults,     \* bound: faults
    None

Pusher == {"pass", "now"}   \* _sync_chat_histories; _deliver_now's task

VARIABLES
    nodes,         \* the nodes that run; one switched off stays so
    outbox,        \* each message in the sender's table
    notified,      \* the pass was woken by a notice (sautium_chat)
    again,         \* the friend is in _push_again
    alive,         \* the pass's task has not ended: it has no except, and one start
    push,          \* each pusher: where it stands, what it has left, its last sealing
    forward,       \* each forward the relay holds, and the pusher that waits on it
    pending,       \* _pending_acks: the forward a receipt of the message is for
    open,          \* the nodes whose stream is open
    queue, wire,   \* what waits on a node's stream, and what was written to it
    receipt,       \* the receipt a node is posting
    stored,        \* the messages each node has a row of
    unseen,        \* history: noticed since the immediate push under way last looked
    exported,      \* history: marked by a page of history that was lost
    faults

chatVars == <<nodes, outbox, notified, again, alive, push, forward, pending, open, queue, wire,
              receipt, stored, unseen, exported, faults>>

senderVars == <<outbox, notified, again, alive, push, unseen, exported>>
relayVars  == <<nodes, forward, pending, open, queue, wire>>
nodeVars   == <<receipt, stored>>

NoPush    == [at |-> "idle", batch |-> {}, seal |-> None]
NoForward == [msg |-> None, by |-> None, ack |-> None]

Envelope == [msg : Msg, seal : Seal]

\* get_pending_messages; a batch goes out in time order, the earliest next
Pending == {m \in Msg : outbox[m] = "pending"}
First(p) == Min(push[p].batch)

Waiting == {f \in Forward : forward[f].msg # None}

InFlight == UNION {ToSet(queue[n]) \cup ToSet(wire[n]) : n \in Node}
                \cup ({receipt[n] : n \in Node} \ {None})

\* a sealing nothing holds any more stands for a new one
Unused ==
    {s \in Seal : /\ \A e \in InFlight : e.seal # s
                  /\ \A f \in Waiting : forward[f].ack # s
                  /\ \A p \in Pusher : push[p].seal # s}
NewSeal == Min(Unused)

Fault == faults < MaxFaults /\ faults' = faults + 1

-----------------------------------------------------------------------------
(* The sender: the outbox, and the two that push from it *)

\* the batch is done with: the immediate push looks again if it was asked to
\* (mutant: it ends)
EndsAtOnce(p) == NoPush
Finished(p) ==
    IF p = "now" /\ again
    THEN [NoPush EXCEPT !.at = "look"]
    ELSE NoPush

\* on to the next message of the batch, at the same place
Onward(p, at) ==
    LET rest == push[p].batch \ {First(p)}
    IN  IF rest # {} THEN [at |-> at, batch |-> rest, seal |-> None]
        ELSE Finished(p)

Goto(p, next) ==
    /\ push' = [push EXCEPT ![p] = next]
    /\ UNCHANGED <<again, alive, unseen, exported>>

\* mark_delivered, whose notice wakes the pass
Deliver(m) ==
    /\ outbox' = [outbox EXCEPT ![m] = "delivered"]
    /\ notified' = TRUE

\* a message is stored
Stored(m) ==
    /\ outbox[m] = "unwritten"
    /\ \A earlier \in Msg : earlier < m => outbox[earlier] # "unwritten"
    /\ outbox' = [outbox EXCEPT ![m] = "pending"]
    /\ UNCHANGED <<alive, exported, relayVars, nodeVars>>

\* its notice wakes the pass, and starts the immediate push, or has it look again
Write(m) ==
    /\ Stored(m)
    /\ notified' = TRUE /\ unseen' = unseen \cup {m}
    /\ IF push["now"].at = "idle"
       THEN /\ push' = [push EXCEPT !["now"].at = "look"]
            /\ UNCHANGED again
       ELSE again' = TRUE /\ UNCHANGED push
    /\ UNCHANGED faults

\* the listener has no connection just then, or raises before it comes to the push
WriteUnheard(m) ==
    /\ Stored(m) /\ Fault
    /\ UNCHANGED <<notified, again, push, unseen>>

\* everything sent has arrived or is lost, as it has when 60 s are over
Settled == InFlight = {} /\ Waiting = {}

\* the pass: on a notice, which it takes, or after 60 s; it passes over a friend
\* an immediate push is under way for
PassWakes ==
    /\ alive /\ push["pass"].at = "idle"
    /\ notified \/ Settled
    /\ notified' = FALSE
    /\ push' = IF Pending # {} /\ push["now"].at = "idle"
               THEN [push EXCEPT !["pass"].at = "look"] ELSE push
    /\ UNCHANGED <<outbox, again, alive, unseen, exported, relayVars, nodeVars, faults>>

\* the friend's addresses are looked up, over an await; no one checks again who
\* else is pushing. The immediate push lets go of _push_again as it looks
Look(p) ==
    /\ push[p].at = "look"
    /\ again' = (again /\ p # "now")
    /\ unseen' = IF p = "now" THEN {} ELSE unseen
    /\ push' = [push EXCEPT ![p] = IF Pending = {} THEN NoPush
                                   ELSE [at |-> "direct", batch |-> Pending, seal |-> None]]
    /\ UNCHANGED <<outbox, notified, alive, exported, relayVars, nodeVars, faults>>

-----------------------------------------------------------------------------
(* A node of the friend's account *)

\* handle_incoming of one who has the sender as a friend; a copy is stored once
Store(n, m) == stored' = [stored EXCEPT ![n] = @ \cup {m}]

\* what is answered with a receipt: a copy of what is stored as well (mutant:
\* only what is new)
OnlyTheNew(n, m) == n \in Accepting /\ m \notin stored[n]
Acknowledged(n, m) == n \in Accepting

\* _handle_relay_frame: the next frame, once the receipt of the one before it
\* is out of hand
Receive(n) ==
    /\ wire[n] # <<>> /\ receipt[n] = None
    /\ wire' = [wire EXCEPT ![n] = Tail(@)]
    /\ LET e == Head(wire[n])
       IN  /\ IF n \in Accepting THEN Store(n, e.msg) ELSE UNCHANGED stored
           /\ receipt' = [receipt EXCEPT ![n] = IF Acknowledged(n, e.msg) THEN e ELSE None]
    /\ UNCHANGED <<nodes, senderVars, forward, pending, open, queue, faults>>

\* the subscription is taken up again
Reopen(n) ==
    /\ n \in nodes \ open
    /\ open' = open \cup {n}
    /\ UNCHANGED <<nodes, senderVars, forward, pending, queue, wire, nodeVars, faults>>

-----------------------------------------------------------------------------
(* The history of the thread, pulled by either side; no notice comes of it *)

Written == {m \in Msg : outbox[m] # "unwritten"}

\* these messages, where they were pending, count as delivered
Marked(M) == outbox' = [m \in Msg |-> IF outbox[m] = "pending" /\ m \in M
                                       THEN "delivered" ELSE outbox[m]]

\* a node asks the sender, who marks what the page carries as it sends it
Export(n) ==
    /\ n \in nodes \cap Accepting /\ Pending # {}
    /\ Marked(Pending)
    /\ \/ stored' = [stored EXCEPT ![n] = @ \cup Written] /\ UNCHANGED <<exported, faults>>
       \/ exported' = exported \cup Pending /\ Fault /\ UNCHANGED stored
    /\ UNCHANGED <<notified, again, alive, push, unseen, relayVars, receipt>>

\* the sender asks a node, whose page has what it stored
Import(n) ==
    /\ n \in nodes \cap Accepting /\ Pending \cap stored[n] # {}
    /\ Marked(stored[n])
    /\ UNCHANGED <<notified, again, alive, push, unseen, exported, relayVars, nodeVars, faults>>

-----------------------------------------------------------------------------
(* The direct path *)

\* the next of the batch reaches a node, and its 200 comes back
DirectDelivers(p) ==
    /\ push[p].at = "direct"
    /\ \E n \in nodes \cap Accepting : Store(n, First(p))
    /\ Deliver(First(p))
    /\ Goto(p, Onward(p, "direct"))
    /\ UNCHANGED <<relayVars, receipt, faults>>

\* no address answers: this message and the rest go to the relay
NoRoute(p) ==
    /\ push[p].at = "direct"
    /\ Goto(p, [push[p] EXCEPT !.at = "relay"])
    /\ UNCHANGED <<outbox, notified, relayVars, nodeVars, faults>>

\* it is stored, and the answer is lost
DirectAnswerLost(p) ==
    /\ push[p].at = "direct" /\ Fault
    /\ \E n \in nodes \cap Accepting : Store(n, First(p))
    /\ Goto(p, [push[p] EXCEPT !.at = "relay"])
    /\ UNCHANGED <<outbox, notified, relayVars, receipt>>

-----------------------------------------------------------------------------
(* The relay *)

\* the streams with room: every one of them gets the envelope
Room == {n \in open : Len(queue[n]) < QueueMax}

\* handle_relay_forward: refused at once when the account holds no stream, and
\* the batch ends there; refused when none has room, and the next is tried; else
\* the forward waits. Whichever it is, a receipt of the message is no longer for
\* a forward that waits for it already
Ask(p) ==
    /\ push[p].at = "relay"
    /\ LET m == First(p) IN
       \/ /\ open = {}
          /\ Goto(p, Finished(p))
          /\ pending' = [pending EXCEPT ![m] = None]
          /\ UNCHANGED <<forward, open, queue, wire>>
       \/ /\ open # {} /\ Room = {}
          /\ Goto(p, Onward(p, "relay"))
          /\ pending' = [pending EXCEPT ![m] = None]
          /\ UNCHANGED <<forward, open, queue, wire>>
       \/ /\ Room # {} /\ Unused # {}
          /\ \E f \in Forward \ Waiting :
                 /\ \A g \in Forward \ Waiting : f <= g
                 /\ forward' = [forward EXCEPT ![f] = [msg |-> m, by |-> p, ack |-> None]]
                 /\ pending' = [pending EXCEPT ![m] = f]
          /\ queue' = [n \in Node |-> IF n \in Room
                           THEN Append(queue[n], [msg |-> m, seal |-> NewSeal])
                           ELSE queue[n]]
          /\ push' = [push EXCEPT ![p].at = "asked", ![p].seal = NewSeal]
          /\ UNCHANGED <<again, alive, unseen, exported, open, wire>>
    /\ UNCHANGED <<nodes, outbox, notified, nodeVars, faults>>

\* the stream's handler drains the queue and writes it down the stream
Drain(n) ==
    /\ queue[n] # <<>>
    /\ wire' = [wire EXCEPT ![n] = @ \o queue[n]]
    /\ queue' = [queue EXCEPT ![n] = <<>>]
    /\ UNCHANGED <<nodes, senderVars, forward, pending, open, nodeVars, faults>>

\* handle_relay_ack: the first receipt for a message that is waited for
TakeReceipt(n) ==
    /\ receipt[n] # None
    /\ LET f == pending[receipt[n].msg]
       IN  forward' = IF f # None /\ forward[f].ack = None
                      THEN [forward EXCEPT ![f].ack = receipt[n].seal]
                      ELSE forward
    /\ receipt' = [receipt EXCEPT ![n] = None]
    /\ UNCHANGED <<nodes, senderVars, pending, open, queue, wire, stored, faults>>

\* the forward is over: its entry goes, unless a later forward's took its place
Over(f) ==
    /\ forward' = [forward EXCEPT ![f] = NoForward]
    /\ pending' = [m \in Msg |-> IF pending[m] = f THEN None ELSE pending[m]]

\* the sender counts a message delivered on a receipt for the sealing it sent
\* (mutant: on any answer of the relay)
AnyAnswer(p, f) == TRUE
Confirmed(p, f) == forward[f].ack = push[p].seal

\* an answer "delivered" whose receipt is not this one's is ignored, and the
\* next message is tried; an answer "no ack" ends the batch
Answer(f) ==
    LET p == forward[f].by IN
    /\ f \in Waiting
    /\ Over(f)
    /\ IF p = None THEN UNCHANGED senderVars
       ELSE /\ IF Confirmed(p, f) THEN Deliver(forward[f].msg)
               ELSE UNCHANGED <<outbox, notified>>
            /\ Goto(p, IF forward[f].ack = None THEN Finished(p) ELSE Onward(p, "relay"))
    /\ UNCHANGED <<nodes, open, queue, wire, nodeVars>>

\* a copy of the message that may still bring its receipt
Expected(f) ==
    \/ \E n \in Accepting : \E e \in ToSet(queue[n]) \cup ToSet(wire[n]) : e.msg = forward[f].msg
    \/ \E n \in Node : receipt[n] # None /\ receipt[n].msg = forward[f].msg

Answered(f) == forward[f].ack # None /\ Answer(f) /\ UNCHANGED faults

\* 10 s without a receipt; with one still on its way that is a fault of timing
TimesOut(f) ==
    /\ forward[f].ack = None
    /\ Answer(f)
    /\ IF Expected(f) THEN Fault ELSE UNCHANGED faults

-----------------------------------------------------------------------------
(* Faults *)

\* the request fails on its way to the relay, or while the relay waits: the
\* forward goes on for nobody
RequestFails(p) ==
    /\ push[p].at \in {"relay", "asked"} /\ Fault
    /\ Goto(p, Onward(p, "relay"))
    /\ forward' = [f \in Forward |-> IF forward[f].by = p
                                     THEN [forward[f] EXCEPT !.by = None] ELSE forward[f]]
    /\ UNCHANGED <<nodes, outbox, notified, pending, open, queue, wire, nodeVars>>

ReceiptLost(n) ==
    /\ receipt[n] # None /\ Fault
    /\ receipt' = [receipt EXCEPT ![n] = None]
    /\ UNCHANGED <<senderVars, relayVars, stored>>

\* a stream ends with what was on it; the node restarts, or only its stream
StreamLost(n) ==
    /\ n \in open /\ Fault
    /\ open' = open \ {n}
    /\ queue' = [queue EXCEPT ![n] = <<>>]
    /\ wire' = [wire EXCEPT ![n] = <<>>]
    /\ receipt' \in {receipt, [receipt EXCEPT ![n] = None]}
    /\ UNCHANGED <<nodes, senderVars, forward, pending, stored>>

\* the database is lost, or something else raises where nothing catches it: on
\* waking, over the look-up, on the way to the relay, after the batch.  It is the
\* pass's end; nothing starts it again
PassRaises ==
    /\ alive /\ push["pass"].at \in {"idle", "look", "relay"} /\ Fault
    /\ alive' = FALSE
    /\ push' = [push EXCEPT !["pass"] = NoPush]
    /\ UNCHANGED <<outbox, notified, again, unseen, exported, relayVars, nodeVars>>

\* the immediate push is left to the pass; _push_again stays as it is
PushRaises ==
    /\ push["now"].at \in {"look", "relay"} /\ Fault
    /\ push' = [push EXCEPT !["now"] = NoPush]
    /\ unseen' = {}
    /\ UNCHANGED <<outbox, notified, again, alive, exported, relayVars, nodeVars>>

\* the sender restarts: the table is all it keeps
SenderRestarts ==
    /\ Fault
    /\ push' = [p \in Pusher |-> NoPush]
    /\ again' = FALSE /\ notified' = FALSE /\ alive' = TRUE /\ unseen' = {}
    /\ forward' = [f \in Forward |-> [forward[f] EXCEPT !.by = None]]
    /\ UNCHANGED <<nodes, outbox, exported, pending, open, queue, wire, nodeVars>>

\* the relay restarts, and keeps nothing: who waits on it goes on
RelayRestarts ==
    /\ Fault
    /\ forward' = [f \in Forward |-> NoForward]
    /\ pending' = [m \in Msg |-> None]
    /\ open' = {}
    /\ queue' = [n \in Node |-> <<>>] /\ wire' = [n \in Node |-> <<>>]
    /\ push' = [p \in Pusher |-> IF push[p].at = "asked" THEN Onward(p, "relay") ELSE push[p]]
    /\ UNCHANGED <<nodes, outbox, notified, again, alive, unseen, exported, nodeVars>>

-----------------------------------------------------------------------------
ChatInit ==
    /\ nodes \in SUBSET Node /\ nodes \cap Accepting # {}
    /\ outbox \in [Msg -> {"unwritten", "delivered"}]
    /\ notified = FALSE /\ again = FALSE /\ alive = TRUE
    /\ unseen = {} /\ exported = {}
    /\ push = [p \in Pusher |-> NoPush]
    /\ forward = [f \in Forward |-> NoForward]
    /\ pending = [m \in Msg |-> None]
    /\ open \in {{}, nodes}
    /\ queue = [n \in Node |-> <<>>] /\ wire = [n \in Node |-> <<>>]
    /\ receipt = [n \in Node |-> None]
    /\ stored = [n \in Node |-> IF n \in Accepting THEN {m \in Msg : outbox[m] = "delivered"} ELSE {}]
    /\ faults \in 0 .. MaxFaults

Pushing(p) == Look(p) \/ DirectDelivers(p) \/ NoRoute(p) \/ Ask(p)

ChatFaults ==
    \/ \E p \in Pusher : DirectAnswerLost(p) \/ RequestFails(p)
    \/ \E n \in Node : ReceiptLost(n) \/ StreamLost(n)
    \/ \E m \in Msg : WriteUnheard(m)
    \/ PassRaises \/ PushRaises
    \/ SenderRestarts \/ RelayRestarts

ChatNext ==
    \/ \E m \in Msg : Write(m)
    \/ PassWakes
    \/ \E p \in Pusher : Pushing(p)
    \/ \E n \in Node : Receive(n) \/ Reopen(n) \/ Drain(n) \/ TakeReceipt(n)
    \/ \E n \in Node : Export(n) \/ Import(n)
    \/ \E f \in Forward : Answered(f) \/ TimesOut(f)
    \/ ChatFaults

\* every handler runs on, the pass while its task lives, and a lost subscription
\* is taken up again; nothing makes a person write, or a node pull the history
ChatFairness ==
    /\ WF_chatVars(PassWakes \/ Pushing("pass"))
    /\ WF_chatVars(Pushing("now"))
    /\ \A n \in Node : WF_chatVars(Reopen(n) \/ Drain(n))
                     /\ WF_chatVars(Receive(n) \/ TakeReceipt(n))
    /\ \A f \in Forward : WF_chatVars(Answered(f) \/ (TimesOut(f) /\ UNCHANGED faults))

ChatSpec == ChatInit /\ [][ChatNext]_chatVars /\ ChatFairness

-----------------------------------------------------------------------------
\* Every variable holds a value of its kind.
ChatTypeOK ==
    /\ nodes \subseteq Node
    /\ outbox \in [Msg -> {"unwritten", "pending", "delivered"}]
    /\ notified \in BOOLEAN /\ again \in BOOLEAN /\ alive \in BOOLEAN
    /\ push \in [Pusher -> [at : {"idle", "look", "direct", "relay", "asked"},
                            batch : SUBSET Msg, seal : Seal \cup {None}]]
    /\ forward \in [Forward -> [msg : Msg \cup {None}, by : Pusher \cup {None},
                                ack : Seal \cup {None}]]
    /\ pending \in [Msg -> Forward \cup {None}]
    /\ open \subseteq Node
    /\ queue \in [Node -> Seq(Envelope)] /\ wire \in [Node -> Seq(Envelope)]
    /\ receipt \in [Node -> Envelope \cup {None}]
    /\ stored \in [Node -> SUBSET Msg] /\ unseen \subseteq Msg /\ exported \subseteq Msg
    /\ faults \in 0 .. MaxFaults

\* A message the sender counts as delivered is stored at a node of the
\* friend's, whatever was lost, retried, answered late or answered for another
\* sealing of it: the relay's word alone never does.  Exempt is what a page of
\* history carried that was lost: the sender marks it as it sends the page.
DeliveredIsStored ==
    \A m \in Msg : outbox[m] = "delivered" => m \in exported \/ \E n \in Node : m \in stored[n]

\* What is noticed while an immediate push is under way is looked at when that
\* one ends (_deliver_now), however its batch went.
NothingOverlooked ==
    unseen # {} => push["now"].at = "look" \/ (push["now"].at # "idle" /\ again)

\* A message that was written is delivered, though the direct path may never
\* work and its notice be lost, if faults come to an end and the pass was not
\* ended by one: an exception nothing catches ends it until the next start.
EventuallyDelivered ==
    \A m \in Msg : outbox[m] = "pending" ~> outbox[m] = "delivered" \/ ~alive
=============================================================================
