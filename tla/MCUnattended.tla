---------------------------- MODULE MCUnattended ----------------------------
(***************************************************************************)
(* What goes on when the person has let go, on a small instance for TLC: a *)
(* chat message on its way to a friend behind a relay, a browser tab that  *)
(* plays, and a station that extends the queue.  They share no state here; *)
(* a behaviour is one of the part it starts in, the others at rest.  The   *)
(* tab meets faults or an edit of the queue, never both.                   *)
(***************************************************************************)
EXTENDS RadioMode, TLC

CONSTANTS
    Msg, Node, Accepting, Forward, Seal, QueueMax, MaxFaults, None,
    Media, Tab, Channel, LateEnds, MaxEpoch, MaxInbox, MaxPosts, MaxAnswers, MaxEdits, MaxBlips,
    n1

VARIABLES
    part,
    nodes, outbox, notified, again, alive, push, forward, pending, open, waiting, wire, receipt,
    stored, unseen, exported, faults,
    slots, out, grace, chans, el, posts, answers, edits, blips

radioVars   == vars
chatVars    == <<nodes, outbox, notified, again, alive, push, forward, pending, open, waiting,
                 wire, receipt, stored, unseen, exported, faults>>
browserVars == <<slots, out, grace, chans, el, posts, answers, edits, blips>>

Chat    == INSTANCE RelayedChat WITH queue <- waiting
Browser == INSTANCE BrowserOutputProofs WITH queue <- slots, faults <- blips, MaxFaults <- MaxBlips

\* None is no message, forward, sealing or pusher, and messages and sealings are numbers.
ASSUME UnattendedAssumption ==
    /\ Msg \subseteq Nat /\ Seal \subseteq Nat /\ MaxFaults \in Nat
    /\ None \notin Msg /\ None \notin Forward /\ None \notin Seal
    /\ None \notin {"pass", "now"} /\ None \notin [msg : Msg, seal : Seal]
    /\ Browser!BrowserAssumption

-----------------------------------------------------------------------------
(* Where the parts start *)

ChatAtRest ==
    /\ nodes = {n1} /\ open = {n1} /\ outbox = [m \in Msg |-> "unwritten"] /\ faults = MaxFaults

\* Two messages to one node, and a fault; one message, two nodes and all faults.
ChatStarts ==
    \/ nodes = {n1} /\ faults = MaxFaults - 1 /\ \A m \in Msg : outbox[m] = "unwritten"
    \/ /\ nodes = Node /\ faults = 0
       /\ outbox = [m \in Msg |-> IF m = 1 THEN "delivered" ELSE "unwritten"]

ATrackAndAStream ==
    /\ slots[1].way = "open"
    /\ slots[2].way = "open" \/ (slots[2].way = "pending" /\ edits = 0)
    /\ <<edits, blips>> \in {<<0, MaxBlips>>, <<MaxEdits, 0>>}

TabAtRest == slots[2].way = "open" /\ edits = 0

RadioAtRest == queue = <<Slot(CHOOSE t \in Track : TRUE, FALSE)>>

UnattendedInit ==
    /\ Chat!ChatInit
    /\ Browser!BrowserInit /\ ATrackAndAStream
    /\ Init
    /\ \/ part = "chat"    /\ ChatStarts /\ TabAtRest /\ RadioAtRest
       \/ part = "tab"     /\ ChatAtRest /\ RadioAtRest
       \/ part = "station" /\ ChatAtRest /\ TabAtRest

UnattendedNext ==
    \/ part = "chat" /\ Chat!ChatNext /\ UNCHANGED <<part, browserVars, radioVars>>
    \/ part = "tab" /\ Browser!BrowserNext /\ UNCHANGED <<part, chatVars, radioVars>>
    \/ part = "station" /\ Next /\ UNCHANGED <<part, chatVars, browserVars>>

\* in a part at rest nothing fair is enabled
UnattendedSpec ==
    /\ UnattendedInit /\ [][UnattendedNext]_<<part, chatVars, browserVars, radioVars>>
    /\ Chat!ChatFairness /\ Browser!BrowserFairness /\ Fairness

-----------------------------------------------------------------------------
(* The properties, stated and explained in the components' modules; those  *)
(* of the station are RadioMode's                                          *)

\* Every variable of each part holds a value of its kind.
UnattendedTypeOK == Chat!ChatTypeOK /\ Browser!BrowserTypeOK /\ TypeOK

\* What counts as delivered is stored at the friend's (chat_service).
DeliveredIsStored == Chat!DeliveredIsStored

\* What is noticed during an immediate push is looked at after it (_deliver_now).
NothingOverlooked == Chat!NothingOverlooked

\* What was written arrives, while the pass lives (_sync_chat_histories).
EventuallyDelivered == Chat!EventuallyDelivered

\* A tab that reconnected in time can be told what to do (detach_tab).
ReconnectedInTime == Browser!ReconnectedInTime

\* The server comes to see what the tab plays (on_client_event).
SlotHeals == Browser!SlotHeals
=============================================================================
