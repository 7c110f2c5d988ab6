------------------------- MODULE MCUnattendedProofs -------------------------
(***************************************************************************)
(* Theorems of RelayedChat and RadioMode, as they run in MCUnattended,     *)
(* for every value of the constants.                                       *)
(***************************************************************************)
EXTENDS MCUnattended, FiniteSetTheorems, SequenceTheorems, WellFoundedInduction, TLAPS

-----------------------------------------------------------------------------
(* RelayedChat                                                             *)


\* Messages and sealings are numbers, and None is none of what it stands for.
ChatAssumption ==
    /\ Msg \subseteq Nat /\ Seal \subseteq Nat /\ MaxFaults \in Nat
    /\ None \notin Msg /\ None \notin Forward /\ None \notin Seal
    /\ None \notin Chat!Pusher /\ None \notin Chat!Envelope

PushType == [at : {"idle", "look", "direct", "relay", "asked"},
             batch : SUBSET Msg, seal : Seal \cup {None}]
ForwardType == [msg : Msg \cup {None}, by : Chat!Pusher \cup {None}, ack : Seal \cup {None}]

\* Who stands at a message has one.
Ready(q) == q.at \in {"direct", "relay", "asked"} => q.batch # {}

\* The account has stored m.
Held(m) == \E n \in Node : m \in stored[n]

\* A pusher waits on one forward at a time, for a sealing of its own.
OneWaits ==
    \A f \in Forward : forward[f].by # None =>
        /\ push[forward[f].by].at = "asked" /\ push[forward[f].by].seal # None
        /\ \A g \in Forward : forward[g].by = forward[f].by => g = f

\* A receipt of m goes to a forward of m.
PendingIsOfMessage == \A m \in Msg : pending[m] # None => forward[pending[m]].msg = m

\* A forward that has a receipt is of a message that is stored.
AckedIsHeld ==
    \A f \in Forward : forward[f].ack # None => forward[f].msg \in Msg /\ Held(forward[f].msg)

\* A node posts a receipt for what it stored.
ReceiptIsTrue == \A n \in Node : receipt[n] # None => receipt[n].msg \in stored[n]

ChatSound ==
    /\ Chat!ChatTypeOK /\ \A p \in Chat!Pusher : Ready(push[p])
    /\ OneWaits /\ PendingIsOfMessage /\ AckedIsHeld /\ ReceiptIsTrue
    /\ Chat!DeliveredIsStored /\ Chat!NothingOverlooked

\* No row is deleted.
Grows == \A n \in Node : stored[n] \subseteq stored'[n]

\* What the sender knows beside its outbox and its pushers.
SenderTyped ==
    /\ notified \in BOOLEAN /\ again \in BOOLEAN /\ alive \in BOOLEAN
    /\ unseen \subseteq Msg /\ exported \subseteq Msg

\* A pusher that was asked to look again does not end.
GoesOn(p, q) == p = "now" /\ again => q.at # "idle"

-----------------------------------------------------------------------------
LEMMA LeastIsIn ==
    ASSUME NEW S, S \subseteq Nat, S # {}
    PROVE  Chat!Min(S) \in S
<1>1. PICK x \in S : \A y \in S : ~(<<y, x>> \in OpToRel(<, Nat))
  BY WFMin, NatLessThanWellFounded
<1>2. \A y \in S : x <= y
  <2> SUFFICES ASSUME NEW y \in S PROVE x <= y
    OBVIOUS
  <2>1. ~(y < x)
    BY <1>1 DEF OpToRel
  <2> QED BY <2>1
<1> QED BY <1>2 DEF Chat!Min

LEMMA FirstIsIn ==
    ASSUME ChatAssumption, ChatSound, NEW p \in Chat!Pusher, push[p].batch # {}
    PROVE  Chat!First(p) \in push[p].batch /\ Chat!First(p) \in Msg
<1>1. push[p].batch \subseteq Msg
  BY DEF ChatSound, Chat!ChatTypeOK
<1> QED BY <1>1, LeastIsIn DEF ChatAssumption, Chat!First

LEMMA NewSealIsOne ==
    ASSUME ChatAssumption, Chat!Unused # {}
    PROVE  Chat!NewSeal \in Seal
<1>1. Chat!Unused \subseteq Seal
  BY DEF Chat!Unused
<1> QED BY <1>1, LeastIsIn DEF ChatAssumption, Chat!NewSeal

LEMMA StoresIt ==
    ASSUME ChatSound, NEW n \in Node, NEW m \in Msg, Chat!Store(n, m)
    PROVE  stored' \in [Node -> SUBSET Msg] /\ Grows /\ m \in stored'[n]
<1>1. stored \in [Node -> SUBSET Msg] /\ stored' = [stored EXCEPT ![n] = stored[n] \cup {m}]
  BY DEF ChatSound, Chat!ChatTypeOK, Chat!Store
<1> QED BY <1>1 DEF Grows

LEMMA FinishedIs ==
    ASSUME NEW p, Chat!ChatTypeOK
    PROVE  /\ Chat!Finished(p) \in PushType /\ Ready(Chat!Finished(p))
           /\ Chat!Finished(p).at # "asked" /\ GoesOn(p, Chat!Finished(p))
BY DEF Chat!Finished, Chat!NoPush, PushType, Ready, GoesOn

LEMMA OnwardIs ==
    ASSUME NEW p \in Chat!Pusher, Chat!ChatTypeOK, NEW at \in {"direct", "relay"}
    PROVE  /\ Chat!Onward(p, at) \in PushType /\ Ready(Chat!Onward(p, at))
           /\ Chat!Onward(p, at).at # "asked" /\ GoesOn(p, Chat!Onward(p, at))
<1> DEFINE rest == push[p].batch \ {Chat!First(p)}
<1>1. rest \subseteq Msg
  BY DEF Chat!ChatTypeOK
<1>2. CASE rest = {}
  BY <1>2, FinishedIs DEF Chat!Onward
<1>3. CASE rest # {}
  <2>1. Chat!Onward(p, at) = [at |-> at, batch |-> rest, seal |-> None]
    BY <1>3 DEF Chat!Onward
  <2> HIDE DEF rest
  <2> QED BY <1>1, <1>3, <2>1 DEF PushType, Ready, GoesOn
<1> QED BY <1>2, <1>3

\* What an immediate push was asked to look at it still will, wherever it is moved.
LEMMA StillToLook ==
    ASSUME ChatSound, NEW p \in Chat!Pusher, push[p].at # "look", NEW q, GoesOn(p, q),
           push' = [push EXCEPT ![p] = q], UNCHANGED <<again, unseen>>
    PROVE  Chat!NothingOverlooked'
<1>1. push \in [Chat!Pusher -> PushType] /\ "now" \in Chat!Pusher
  BY DEF ChatSound, Chat!ChatTypeOK, PushType, Chat!Pusher
<1>2. push'["now"] = IF p = "now" THEN q ELSE push["now"]
  BY <1>1
<1> QED BY <1>2 DEF ChatSound, Chat!NothingOverlooked, GoesOn

LEMMA HeldStays ==
    ASSUME Grows, NEW m \in Msg, Held(m)
    PROVE  Held(m)'
BY DEF Grows, Held

\* What a pusher does that waits on no forward.
LEMMA SenderMoves ==
    ASSUME ChatAssumption, ChatSound, NEW p \in Chat!Pusher, push[p].at # "asked",
           NEW q \in PushType, Ready(q), push' = [push EXCEPT ![p] = q],
           UNCHANGED <<Chat!relayVars, receipt>>,
           outbox' \in [Msg -> {"unwritten", "pending", "delivered"}],
           SenderTyped', faults' \in 0..MaxFaults,
           stored' \in [Node -> SUBSET Msg], Grows, Chat!DeliveredIsStored', Chat!NothingOverlooked'
    PROVE  ChatSound'
<1>0. push \in [Chat!Pusher -> PushType] /\ push' \in [Chat!Pusher -> PushType]
  BY DEF ChatSound, Chat!ChatTypeOK, PushType
<1>1. Chat!ChatTypeOK'
  BY <1>0 DEF ChatSound, Chat!ChatTypeOK, Chat!relayVars, PushType, SenderTyped
<1>2. \A x \in Chat!Pusher : Ready(push[x])'
  BY <1>0 DEF ChatSound, Ready
<1>3. OneWaits'
  <2>1. \A f \in Forward : forward[f].by # None => forward[f].by \in Chat!Pusher /\ forward[f].by # p
    BY DEF ChatSound, Chat!ChatTypeOK, OneWaits
  <2>2. \A x \in Chat!Pusher : x # p => push'[x] = push[x]
    BY <1>0
  <2> QED BY <2>1, <2>2 DEF ChatSound, OneWaits, Chat!relayVars
<1>4. PendingIsOfMessage'
  BY DEF ChatSound, PendingIsOfMessage, Chat!relayVars
<1>5. AckedIsHeld'
  BY HeldStays DEF ChatSound, AckedIsHeld, Chat!relayVars
<1>6. ReceiptIsTrue'
  BY DEF ChatSound, ReceiptIsTrue, Grows, Chat!ChatTypeOK, Chat!Envelope
<1> QED BY <1>1, <1>2, <1>3, <1>4, <1>5, <1>6 DEF ChatSound

\* What the nodes do, and their streams.
LEMMA NodesMove ==
    ASSUME ChatSound, UNCHANGED <<nodes, Chat!senderVars, forward, pending>>,
           open' \subseteq Node, faults' \in 0..MaxFaults,
           waiting' \in [Node -> Seq(Chat!Envelope)], wire' \in [Node -> Seq(Chat!Envelope)],
           receipt' \in [Node -> Chat!Envelope \cup {None}], stored' \in [Node -> SUBSET Msg],
           Grows, ReceiptIsTrue'
    PROVE  ChatSound'
<1>1. Chat!ChatTypeOK'
  BY DEF ChatSound, Chat!ChatTypeOK, Chat!senderVars
<1>2. (\A x \in Chat!Pusher : Ready(push[x]))' /\ OneWaits' /\ PendingIsOfMessage'
  BY DEF ChatSound, Ready, OneWaits, PendingIsOfMessage, Chat!senderVars
<1>3. AckedIsHeld'
  BY HeldStays DEF ChatSound, AckedIsHeld
<1>4. Chat!DeliveredIsStored' /\ Chat!NothingOverlooked'
  BY DEF ChatSound, Chat!DeliveredIsStored, Chat!NothingOverlooked, Chat!senderVars, Grows
<1> QED BY <1>1, <1>2, <1>3, <1>4 DEF ChatSound

\* A forward of m, for a pusher that waits on it.
LEMMA Typed ==
    ASSUME ChatSound
    PROVE  /\ push \in [Chat!Pusher -> PushType] /\ forward \in [Forward -> ForwardType]
           /\ pending \in [Msg -> Forward \cup {None}] /\ stored \in [Node -> SUBSET Msg]
           /\ receipt \in [Node -> Chat!Envelope \cup {None}]
           /\ waiting \in [Node -> Seq(Chat!Envelope)] /\ wire \in [Node -> Seq(Chat!Envelope)]
BY DEF ChatSound, Chat!ChatTypeOK, PushType, ForwardType

\* No row, and no receipt under way, is touched.
LEMMA RelayMoves ==
    ASSUME ChatSound, UNCHANGED <<nodes, receipt, stored>>,
           push' \in [Chat!Pusher -> PushType], SenderTyped',
           outbox' \in [Msg -> {"unwritten", "pending", "delivered"}],
           forward' \in [Forward -> ForwardType], pending' \in [Msg -> Forward \cup {None}],
           waiting' \in [Node -> Seq(Chat!Envelope)], wire' \in [Node -> Seq(Chat!Envelope)],
           open' \subseteq Node, faults' \in 0..MaxFaults,
           \A p \in Chat!Pusher : Ready(push'[p]),
           OneWaits', PendingIsOfMessage', Chat!DeliveredIsStored', Chat!NothingOverlooked',
           \A f \in Forward : forward'[f].ack # None =>
               forward'[f].ack = forward[f].ack /\ forward'[f].msg = forward[f].msg
    PROVE  ChatSound'
<1>1. Chat!ChatTypeOK'
  BY DEF ChatSound, Chat!ChatTypeOK, PushType, ForwardType, SenderTyped
<1>2. AckedIsHeld'
  BY DEF ChatSound, AckedIsHeld, Held
<1>3. ReceiptIsTrue'
  BY DEF ChatSound, ReceiptIsTrue
<1> QED BY <1>1, <1>2, <1>3 DEF ChatSound

-----------------------------------------------------------------------------
\* The steps of the sender.
LEMMA SenderSteps ==
    ASSUME ChatAssumption, ChatSound,
           \/ \E m \in Msg : Chat!Write(m) \/ Chat!WriteUnheard(m)
           \/ Chat!PassWakes \/ Chat!PassRaises \/ Chat!PushRaises
           \/ \E p \in Chat!Pusher : Chat!Look(p) \/ Chat!NoRoute(p)
    PROVE  ChatSound'
<1>0. push \in [Chat!Pusher -> PushType] /\ outbox \in [Msg -> {"unwritten", "pending", "delivered"}]
      /\ SenderTyped /\ faults \in 0..MaxFaults /\ Chat!NothingOverlooked
      /\ "pass" \in Chat!Pusher /\ "now" \in Chat!Pusher
  BY Typed DEF ChatSound, Chat!ChatTypeOK, SenderTyped, Chat!Pusher
<1>1. ASSUME UNCHANGED <<stored, exported>>,
             \A m \in Msg : outbox'[m] = "delivered" => outbox[m] = "delivered"
      PROVE  stored' \in [Node -> SUBSET Msg] /\ Grows /\ Chat!DeliveredIsStored'
  BY <1>1, Typed DEF ChatSound, Grows, Chat!DeliveredIsStored
<1>2. ASSUME Chat!Fault PROVE faults' \in 0..MaxFaults
  BY <1>0, <1>2 DEF Chat!Fault, ChatAssumption
<1>3. ASSUME UNCHANGED <<push, Chat!relayVars, receipt, stored, exported>>, SenderTyped', faults' \in 0..MaxFaults,
             outbox' \in [Msg -> {"unwritten", "pending", "delivered"}], Chat!NothingOverlooked',
             \A m \in Msg : outbox'[m] = "delivered" => outbox[m] = "delivered"
      PROVE  ChatSound'
  <2>1. OneWaits' /\ PendingIsOfMessage' /\ \A p \in Chat!Pusher : Ready(push'[p])
    BY <1>3 DEF ChatSound, OneWaits, PendingIsOfMessage, Chat!relayVars
  <2> QED BY <1>0, <1>1, <1>3, <2>1, RelayMoves, Typed DEF Chat!relayVars, ChatSound, Chat!ChatTypeOK
<1>4. ASSUME NEW m \in Msg, Chat!Stored(m)
      PROVE  /\ outbox' \in [Msg -> {"unwritten", "pending", "delivered"}]
             /\ \A x \in Msg : outbox'[x] = "delivered" => outbox[x] = "delivered"
             /\ UNCHANGED <<alive, exported, Chat!relayVars, receipt, stored>>
  BY <1>0, <1>4 DEF Chat!Stored, Chat!nodeVars
<1>5. ASSUME NEW m \in Msg, Chat!Write(m) PROVE ChatSound'
  <2>1. /\ Chat!Stored(m) /\ notified' = TRUE /\ unseen' = unseen \cup {m} /\ UNCHANGED faults
    BY <1>5 DEF Chat!Write
  <2>2. CASE push["now"].at = "idle"
    <3> DEFINE q == [push["now"] EXCEPT !.at = "look"]
    <3>1. q \in PushType /\ Ready(q) /\ q.at = "look"
      BY <1>0 DEF PushType, Ready
    <3>2. push' = [push EXCEPT !["now"] = q] /\ again' = again
      BY <1>5, <2>2, <1>0 DEF Chat!Write
    <3> HIDE DEF q
    <3>3. Chat!NothingOverlooked' /\ SenderTyped'
      BY <1>0, <1>4, <2>1, <3>1, <3>2 DEF Chat!NothingOverlooked, SenderTyped
    <3> QED BY <1>0, <1>1, <1>4, <2>1, <2>2, <3>1, <3>2, <3>3, SenderMoves
  <2>3. CASE push["now"].at # "idle"
    <3>1. push' = push /\ again' = TRUE
      BY <1>5, <2>3 DEF Chat!Write
    <3>2. Chat!NothingOverlooked' /\ SenderTyped'
      BY <1>0, <1>4, <2>1, <2>3, <3>1 DEF Chat!NothingOverlooked, SenderTyped
    <3> QED BY <1>0, <1>3, <1>4, <2>1, <3>1, <3>2
  <2> QED BY <2>2, <2>3
<1>6. ASSUME NEW m \in Msg, Chat!WriteUnheard(m) PROVE ChatSound'
  <2>1. Chat!Stored(m) /\ Chat!Fault /\ UNCHANGED <<notified, again, push, unseen>>
    BY <1>6 DEF Chat!WriteUnheard
  <2>2. Chat!NothingOverlooked' /\ SenderTyped'
    BY <1>0, <1>4, <2>1 DEF Chat!NothingOverlooked, SenderTyped
  <2> QED BY <1>2, <1>3, <1>4, <2>1, <2>2
<1>7. CASE Chat!PassWakes
  <2> DEFINE q == [push["pass"] EXCEPT !.at = "look"]
  <2>1. q \in PushType /\ Ready(q) /\ q.at = "look"
    BY <1>0 DEF PushType, Ready
  <2>2. /\ push' \in {push, [push EXCEPT !["pass"] = q]} /\ push["pass"].at = "idle" /\ notified' = FALSE
        /\ UNCHANGED <<outbox, again, alive, unseen, exported, Chat!relayVars, receipt, stored, faults>>
    BY <1>0, <1>7 DEF Chat!PassWakes, Chat!nodeVars
  <2> HIDE DEF q
  <2>3. SenderTyped'
    BY <1>0, <2>2 DEF SenderTyped
  <2>4. CASE push' = push
    BY <1>0, <1>3, <2>2, <2>3, <2>4 DEF Chat!NothingOverlooked
  <2>5. CASE push' = [push EXCEPT !["pass"] = q]
    <3>1. Chat!NothingOverlooked'
      BY <2>2, <2>5, <1>0 DEF Chat!NothingOverlooked
    <3> QED BY <1>0, <1>1, <2>1, <2>2, <2>3, <2>5, <3>1, SenderMoves
  <2> QED BY <2>2, <2>4, <2>5
<1>8. ASSUME NEW p \in Chat!Pusher, push[p].at # "asked", push' = [push EXCEPT ![p] = Chat!NoPush],
             SenderTyped', Chat!NothingOverlooked', Chat!Fault,
             UNCHANGED <<outbox, exported, Chat!relayVars, Chat!nodeVars>>
      PROVE  ChatSound'
  <2>1. Chat!NoPush \in PushType /\ Ready(Chat!NoPush)
    BY DEF Chat!NoPush, PushType, Ready
  <2>2. UNCHANGED <<receipt, stored>>
    BY <1>8 DEF Chat!nodeVars
  <2> QED BY <1>0, <1>1, <1>2, <1>8, <2>1, <2>2, SenderMoves
<1>9. CASE Chat!PassRaises
  <2>1. /\ push["pass"].at # "asked" /\ push' = [push EXCEPT !["pass"] = Chat!NoPush] /\ alive' = FALSE
        /\ Chat!Fault
        /\ UNCHANGED <<outbox, notified, again, unseen, exported, Chat!relayVars, Chat!nodeVars>>
    BY <1>9 DEF Chat!PassRaises
  <2>2. SenderTyped' /\ Chat!NothingOverlooked'
    BY <1>0, <2>1 DEF SenderTyped, Chat!NothingOverlooked
  <2> QED BY <1>0, <1>8, <2>1, <2>2
<1>10. CASE Chat!PushRaises
  <2>1. /\ push["now"].at # "asked" /\ push' = [push EXCEPT !["now"] = Chat!NoPush] /\ unseen' = {}
        /\ Chat!Fault
        /\ UNCHANGED <<outbox, notified, again, alive, exported, Chat!relayVars, Chat!nodeVars>>
    BY <1>10 DEF Chat!PushRaises
  <2>2. SenderTyped' /\ Chat!NothingOverlooked'
    BY <1>0, <2>1 DEF SenderTyped, Chat!NothingOverlooked
  <2> QED BY <1>0, <1>8, <2>1, <2>2
<1>11. ASSUME NEW p \in Chat!Pusher, Chat!Look(p) PROVE ChatSound'
  <2> DEFINE q == IF Chat!Pending = {} THEN Chat!NoPush
                  ELSE [at |-> "direct", batch |-> Chat!Pending, seal |-> None]
  <2>1. q \in PushType /\ Ready(q)
    BY DEF PushType, Ready, Chat!Pending, Chat!NoPush
  <2>2. /\ push' = [push EXCEPT ![p] = q] /\ push[p].at = "look"
        /\ again' = (again /\ p # "now") /\ unseen' = IF p = "now" THEN {} ELSE unseen
        /\ UNCHANGED <<outbox, notified, alive, exported, Chat!relayVars, receipt, stored, faults>>
    BY <1>11 DEF Chat!Look, Chat!nodeVars
  <2> HIDE DEF q
  <2>3. SenderTyped' /\ Chat!NothingOverlooked'
    BY <1>0, <2>2 DEF SenderTyped, Chat!NothingOverlooked
  <2> QED BY <1>0, <1>1, <2>1, <2>2, <2>3, SenderMoves
<1>12. ASSUME NEW p \in Chat!Pusher, Chat!NoRoute(p) PROVE ChatSound'
  <2> DEFINE q == [push[p] EXCEPT !.at = "relay"]
  <2>1. q \in PushType /\ Ready(q) /\ GoesOn(p, q)
    BY <1>0, <1>12 DEF PushType, Ready, GoesOn, Chat!NoRoute, ChatSound
  <2>2. /\ push' = [push EXCEPT ![p] = q] /\ push[p].at = "direct"
        /\ UNCHANGED <<outbox, notified, again, alive, unseen, exported, Chat!relayVars, receipt, stored, faults>>
    BY <1>12 DEF Chat!NoRoute, Chat!Goto, Chat!nodeVars
  <2> HIDE DEF q
  <2>3. SenderTyped' /\ Chat!NothingOverlooked'
    BY <1>0, <2>1, <2>2, StillToLook DEF SenderTyped
  <2> QED BY <1>0, <1>1, <2>1, <2>2, <2>3, SenderMoves
<1> QED BY <1>5, <1>6, <1>7, <1>9, <1>10, <1>11, <1>12

\* The direct path stores the message before it counts as delivered.
LEMMA DirectSteps ==
    ASSUME ChatAssumption, ChatSound, NEW p \in Chat!Pusher, Chat!DirectDelivers(p) \/ Chat!DirectAnswerLost(p)
    PROVE  ChatSound'
<1>0. push \in [Chat!Pusher -> PushType] /\ outbox \in [Msg -> {"unwritten", "pending", "delivered"}]
      /\ SenderTyped /\ faults \in 0..MaxFaults /\ nodes \subseteq Node
  BY Typed DEF ChatSound, Chat!ChatTypeOK, SenderTyped
<1>1. push[p].at = "direct" /\ push[p].batch # {}
  BY DEF Chat!DirectDelivers, Chat!DirectAnswerLost, ChatSound, Ready
<1> DEFINE m == Chat!First(p)
<1>2. m \in Msg
  BY <1>1, FirstIsIn
<1>3. PICK n \in Node : Chat!Store(n, m)
  BY <1>0 DEF Chat!DirectDelivers, Chat!DirectAnswerLost
<1> HIDE DEF m
<1>4. stored' \in [Node -> SUBSET Msg] /\ Grows /\ m \in stored'[n]
  BY <1>2, <1>3, StoresIt
<1>5. ASSUME NEW x \in Msg, outbox[x] = "delivered" \/ x = m
      PROVE  x \in exported \/ \E y \in Node : x \in stored'[y]
  <2>1. CASE x = m
    BY <1>4, <2>1
  <2>2. CASE outbox[x] = "delivered"
    BY <1>4, <2>2 DEF ChatSound, Chat!DeliveredIsStored, Grows
  <2> QED BY <1>5, <2>1, <2>2
<1>6. CASE Chat!DirectDelivers(p)
  <2> DEFINE q == Chat!Onward(p, "direct")
  <2>1. /\ outbox' = [outbox EXCEPT ![m] = "delivered"] /\ notified' = TRUE
        /\ push' = [push EXCEPT ![p] = q]
        /\ UNCHANGED <<again, alive, unseen, exported, Chat!relayVars, receipt, faults>>
    BY <1>6 DEF Chat!DirectDelivers, Chat!Deliver, Chat!Goto, m
  <2>2. q \in PushType /\ Ready(q) /\ GoesOn(p, q)
    BY OnwardIs DEF ChatSound
  <2> HIDE DEF q
  <2>3. Chat!DeliveredIsStored' /\ outbox' \in [Msg -> {"unwritten", "pending", "delivered"}]
    BY <1>0, <1>5, <2>1 DEF Chat!DeliveredIsStored
  <2>4. SenderTyped' /\ Chat!NothingOverlooked'
    BY <1>0, <1>1, <2>1, <2>2, StillToLook DEF SenderTyped
  <2> QED BY <1>0, <1>1, <1>4, <2>1, <2>2, <2>3, <2>4, SenderMoves
<1>7. CASE Chat!DirectAnswerLost(p)
  <2> DEFINE q == [push[p] EXCEPT !.at = "relay"]
  <2>1. q \in PushType /\ Ready(q) /\ GoesOn(p, q)
    BY <1>0, <1>1 DEF PushType, Ready, GoesOn
  <2>2. /\ push' = [push EXCEPT ![p] = q] /\ faults' \in 0..MaxFaults
        /\ UNCHANGED <<outbox, notified, again, alive, unseen, exported, Chat!relayVars, receipt>>
    BY <1>0, <1>7 DEF Chat!DirectAnswerLost, Chat!Goto, Chat!Fault, ChatAssumption
  <2> HIDE DEF q
  <2>3. Chat!DeliveredIsStored'
    BY <1>5, <2>2 DEF Chat!DeliveredIsStored
  <2>4. SenderTyped' /\ Chat!NothingOverlooked'
    BY <1>0, <1>1, <2>1, <2>2, StillToLook DEF SenderTyped
  <2> QED BY <1>0, <1>1, <1>4, <2>1, <2>2, <2>3, <2>4, SenderMoves
<1> QED BY <1>6, <1>7

\* What a page marks it has brought to n, or it is exempt.
PageEffect(n, M) ==
    /\ Chat!Marked(M) /\ stored' \in [Node -> SUBSET Msg] /\ Grows
    /\ exported \subseteq exported' /\ exported' \subseteq Msg /\ faults' \in 0..MaxFaults
    /\ \A m \in Msg : outbox[m] = "pending" /\ m \in M => m \in exported' \/ m \in stored'[n]

\* A page of history marks what it brings; one that is lost is exempt.
LEMMA HistorySteps ==
    ASSUME ChatAssumption, ChatSound, NEW n \in Node, Chat!Export(n) \/ Chat!Import(n)
    PROVE  ChatSound'
<1>0. /\ outbox \in [Msg -> {"unwritten", "pending", "delivered"}] /\ stored \in [Node -> SUBSET Msg]
      /\ faults \in 0..MaxFaults /\ exported \subseteq Msg /\ Chat!DeliveredIsStored
  BY DEF ChatSound, Chat!ChatTypeOK
<1>1. UNCHANGED <<notified, again, alive, push, unseen, Chat!relayVars, receipt>>
  BY DEF Chat!Export, Chat!Import, Chat!nodeVars
<1>2. \E M : PageEffect(n, M)
  <2>1. CASE Chat!Export(n) /\ stored' = [stored EXCEPT ![n] = @ \cup Chat!Written]
                            /\ UNCHANGED <<exported, faults>>
    <3>1. Chat!Pending \subseteq Chat!Written /\ Chat!Written \subseteq Msg
      BY DEF Chat!Pending, Chat!Written
    <3>2. stored' \in [Node -> SUBSET Msg] /\ Grows /\ stored'[n] = stored[n] \cup Chat!Written
      BY <1>0, <2>1, <3>1 DEF Grows
    <3>3. PageEffect(n, Chat!Pending)
      BY <1>0, <2>1, <3>1, <3>2 DEF Chat!Export, PageEffect
    <3> QED BY <3>3
  <2>2. CASE Chat!Export(n) /\ exported' = exported \cup Chat!Pending /\ Chat!Fault
                            /\ UNCHANGED stored
    <3>1. Chat!Pending \subseteq Msg
      BY DEF Chat!Pending
    <3>2. faults' \in 0..MaxFaults
      BY <1>0, <2>2 DEF Chat!Fault, ChatAssumption
    <3>3. PageEffect(n, Chat!Pending)
      BY <1>0, <2>2, <3>1, <3>2 DEF Chat!Export, PageEffect, Grows
    <3> QED BY <3>3
  <2>3. CASE Chat!Import(n)
    <3>1. PageEffect(n, stored[n])
      BY <1>0, <2>3 DEF Chat!Import, Chat!nodeVars, PageEffect, Grows
    <3> QED BY <3>1
  <2> QED BY <2>1, <2>2, <2>3 DEF Chat!Export
<1> PICK M : PageEffect(n, M)
  BY <1>2
<1>9. /\ Chat!Marked(M) /\ stored' \in [Node -> SUBSET Msg] /\ Grows
      /\ exported \subseteq exported' /\ exported' \subseteq Msg /\ faults' \in 0..MaxFaults
      /\ \A m \in Msg : outbox[m] = "pending" /\ m \in M => m \in exported' \/ m \in stored'[n]
  BY DEF PageEffect
<1>3. outbox' \in [Msg -> {"unwritten", "pending", "delivered"}]
      /\ \A m \in Msg : outbox'[m] = "delivered" => outbox[m] = "delivered" \/ (outbox[m] = "pending" /\ m \in M)
  BY <1>0, <1>9 DEF Chat!Marked
<1>4. Chat!DeliveredIsStored'
  <2> SUFFICES ASSUME NEW m \in Msg, outbox'[m] = "delivered"
               PROVE  m \in exported' \/ \E x \in Node : m \in stored'[x]
    BY DEF Chat!DeliveredIsStored
  <2>1. CASE outbox[m] = "delivered"
    BY <1>0, <1>9, <2>1 DEF Chat!DeliveredIsStored, Grows
  <2>2. CASE outbox[m] = "pending" /\ m \in M
    BY <1>9, <2>2
  <2> QED BY <1>3, <2>1, <2>2
<1>5. Chat!ChatTypeOK'
  BY <1>1, <1>9, <1>3 DEF ChatSound, Chat!ChatTypeOK, Chat!relayVars
<1>6. /\ (\A p \in Chat!Pusher : Ready(push[p]))' /\ OneWaits' /\ PendingIsOfMessage'
      /\ Chat!NothingOverlooked'
  BY <1>1 DEF ChatSound, Ready, OneWaits, PendingIsOfMessage, Chat!NothingOverlooked, Chat!relayVars
<1>7. AckedIsHeld'
  BY <1>1, <1>9, HeldStays DEF ChatSound, AckedIsHeld, Chat!relayVars
<1>8. ReceiptIsTrue'
  BY <1>1, <1>9 DEF ChatSound, ReceiptIsTrue, Grows
<1> QED BY <1>4, <1>5, <1>6, <1>7, <1>8 DEF ChatSound

-----------------------------------------------------------------------------
\* What a node takes off its stream it stores before it answers.
LEMMA NodeSteps ==
    ASSUME ChatAssumption, ChatSound, NEW n \in Node,
           Chat!Receive(n) \/ Chat!Reopen(n) \/ Chat!Drain(n) \/ Chat!ReceiptLost(n) \/ Chat!StreamLost(n)
    PROVE  ChatSound'
<1>0. /\ stored \in [Node -> SUBSET Msg] /\ receipt \in [Node -> Chat!Envelope \cup {None}]
      /\ waiting \in [Node -> Seq(Chat!Envelope)] /\ wire \in [Node -> Seq(Chat!Envelope)]
      /\ open \subseteq Node /\ nodes \subseteq Node /\ faults \in 0..MaxFaults
      /\ ReceiptIsTrue
  BY Typed DEF ChatSound, Chat!ChatTypeOK
<1>1. ASSUME UNCHANGED stored
      PROVE  stored' \in [Node -> SUBSET Msg] /\ Grows
  BY <1>0, <1>1 DEF Grows
<1>2. ASSUME Chat!Fault PROVE faults' \in 0..MaxFaults
  BY <1>0, <1>2 DEF Chat!Fault, ChatAssumption
<1>3. ASSUME receipt' = [receipt EXCEPT ![n] = None], UNCHANGED stored
      PROVE  receipt' \in [Node -> Chat!Envelope \cup {None}] /\ ReceiptIsTrue'
  BY <1>0, <1>3 DEF ReceiptIsTrue
<1>4. CASE Chat!Receive(n)
  <2> DEFINE e == Head(wire[n])
             t == Tail(wire[n])
  <2>1. wire[n] \in Seq(Chat!Envelope) /\ wire[n] # <<>>
    BY <1>0, <1>4 DEF Chat!Receive
  <2>2. e \in Chat!Envelope /\ t \in Seq(Chat!Envelope)
    BY <2>1
  <2>3. e.msg \in Msg
    BY <2>2 DEF Chat!Envelope
  <2>4. /\ wire' = [wire EXCEPT ![n] = t]
        /\ UNCHANGED <<nodes, Chat!senderVars, forward, pending, open, waiting, faults>>
        /\ IF n \in Accepting THEN Chat!Store(n, e.msg) ELSE UNCHANGED stored
        /\ receipt' = [receipt EXCEPT ![n] = IF n \in Accepting THEN e ELSE None]
    BY <1>4 DEF Chat!Receive, Chat!Acknowledged
  <2> HIDE DEF e, t
  <2>5. wire' \in [Node -> Seq(Chat!Envelope)] /\ receipt' \in [Node -> Chat!Envelope \cup {None}]
    BY <1>0, <2>2, <2>4
  <2>6. CASE n \in Accepting
    <3>1. /\ stored' \in [Node -> SUBSET Msg] /\ Grows /\ e.msg \in stored'[n]
      BY <2>3, <2>4, <2>6, StoresIt
    <3>2. ReceiptIsTrue'
      BY <1>0, <2>4, <2>6, <3>1 DEF ReceiptIsTrue, Grows, Chat!Envelope
    <3> QED BY <1>0, <2>4, <2>5, <3>1, <3>2, NodesMove
  <2>7. CASE n \notin Accepting
    <3>1. UNCHANGED stored /\ receipt' = [receipt EXCEPT ![n] = None]
      BY <2>4, <2>7
    <3> QED BY <1>0, <1>1, <1>3, <2>4, <2>5, <3>1, NodesMove
  <2> QED BY <2>6, <2>7
<1>5. CASE Chat!Reopen(n)
  <2>1. /\ open' \subseteq Node
        /\ UNCHANGED <<nodes, Chat!senderVars, forward, pending, waiting, wire, receipt, stored, faults>>
    BY <1>0, <1>5 DEF Chat!Reopen, Chat!nodeVars
  <2>2. ReceiptIsTrue'
    BY <1>0, <2>1 DEF ReceiptIsTrue
  <2> QED BY <1>0, <1>1, <2>1, <2>2, NodesMove
<1>6. CASE Chat!Drain(n)
  <2> DEFINE w == wire[n] \o waiting[n]
  <2>1. w \in Seq(Chat!Envelope) /\ <<>> \in Seq(Chat!Envelope)
    BY <1>0
  <2>2. /\ wire' = [wire EXCEPT ![n] = w] /\ waiting' = [waiting EXCEPT ![n] = <<>>]
        /\ UNCHANGED <<nodes, Chat!senderVars, forward, pending, open, receipt, stored, faults>>
    BY <1>0, <1>6 DEF Chat!Drain, Chat!nodeVars
  <2> HIDE DEF w
  <2>3. wire' \in [Node -> Seq(Chat!Envelope)] /\ waiting' \in [Node -> Seq(Chat!Envelope)]
    BY <1>0, <2>1, <2>2
  <2>4. ReceiptIsTrue'
    BY <1>0, <2>2 DEF ReceiptIsTrue
  <2> QED BY <1>0, <1>1, <2>2, <2>3, <2>4, NodesMove
<1>7. CASE Chat!ReceiptLost(n)
  <2>1. /\ receipt' = [receipt EXCEPT ![n] = None] /\ faults' \in 0..MaxFaults
        /\ UNCHANGED <<nodes, Chat!senderVars, forward, pending, open, waiting, wire, stored>>
    BY <1>2, <1>7 DEF Chat!ReceiptLost, Chat!relayVars
  <2> QED BY <1>0, <1>1, <1>3, <2>1, NodesMove
<1>8. CASE Chat!StreamLost(n)
  <2>1. /\ open' \subseteq Node /\ faults' \in 0..MaxFaults
        /\ waiting' = [waiting EXCEPT ![n] = <<>>] /\ wire' = [wire EXCEPT ![n] = <<>>]
        /\ UNCHANGED <<nodes, Chat!senderVars, forward, pending, stored>>
    BY <1>0, <1>2, <1>8 DEF Chat!StreamLost
  <2>2. <<>> \in Seq(Chat!Envelope)
    OBVIOUS
  <2>3. wire' \in [Node -> Seq(Chat!Envelope)] /\ waiting' \in [Node -> Seq(Chat!Envelope)]
    BY <1>0, <2>1, <2>2
  <2>4. receipt' \in [Node -> Chat!Envelope \cup {None}] /\ ReceiptIsTrue'
    <3>1. CASE receipt' = receipt
      BY <1>0, <2>1, <3>1 DEF ReceiptIsTrue
    <3>2. CASE receipt' = [receipt EXCEPT ![n] = None]
      BY <1>3, <2>1, <3>2
    <3> QED BY <1>8, <3>1, <3>2 DEF Chat!StreamLost
  <2> QED BY <1>0, <1>1, <2>1, <2>3, <2>4, NodesMove
<1> QED BY <1>4, <1>5, <1>6, <1>7, <1>8

-----------------------------------------------------------------------------
\* A sender that leaves what it may have waited on leaves no forward behind
\* that names it.
LEMMA AskSteps ==
    ASSUME ChatAssumption, ChatSound, NEW p \in Chat!Pusher, Chat!Ask(p)
    PROVE  ChatSound'
<1>0. /\ push \in [Chat!Pusher -> PushType] /\ forward \in [Forward -> ForwardType]
      /\ pending \in [Msg -> Forward \cup {None}] /\ waiting \in [Node -> Seq(Chat!Envelope)]
      /\ wire \in [Node -> Seq(Chat!Envelope)] /\ open \subseteq Node /\ SenderTyped
      /\ outbox \in [Msg -> {"unwritten", "pending", "delivered"}]
      /\ faults \in 0..MaxFaults /\ \A x \in Chat!Pusher : Ready(push[x])
      /\ Chat!DeliveredIsStored /\ OneWaits /\ PendingIsOfMessage
  BY Typed DEF ChatSound, Chat!ChatTypeOK, SenderTyped
<1> DEFINE m == Chat!First(p)
<1>1. push[p].at = "relay" /\ push[p].batch # {}
  BY <1>0 DEF Chat!Ask, Ready
<1>2. m \in Msg
  BY <1>1, FirstIsIn
<1>3. \A f \in Forward : forward[f].by # p
  BY <1>0, <1>1 DEF OneWaits, ChatAssumption
<1>4. UNCHANGED <<nodes, outbox, notified, again, alive, unseen, exported, receipt, stored, faults>>
  BY DEF Chat!Ask, Chat!Goto, Chat!nodeVars
<1>5. Chat!DeliveredIsStored' /\ SenderTyped'
  BY <1>0, <1>4 DEF Chat!DeliveredIsStored, SenderTyped
<1> DEFINE refused(q) == /\ push' = [push EXCEPT ![p] = q]
                         /\ pending' = [pending EXCEPT ![m] = None]
                         /\ UNCHANGED <<forward, open, waiting, wire>>
           taken == /\ Chat!Room # {} /\ Chat!Unused # {}
                    /\ \E f \in Forward \ Chat!Waiting :
                           /\ forward' = [forward EXCEPT ![f] = [msg |-> m, by |-> p, ack |-> None]]
                           /\ pending' = [pending EXCEPT ![m] = f]
                    /\ waiting' = [n \in Node |-> IF n \in Chat!Room
                                     THEN Append(waiting[n], [msg |-> m, seal |-> Chat!NewSeal])
                                     ELSE waiting[n]]
                    /\ push' = [push EXCEPT ![p] = [push[p] EXCEPT !.at = "asked", !.seal = Chat!NewSeal]]
                    /\ UNCHANGED <<open, wire>>
<1>6. refused(Chat!Finished(p)) \/ refused(Chat!Onward(p, "relay")) \/ taken
  <2>1. ASSUME NEW q PROVE [push EXCEPT ![p].at = "asked", ![p].seal = q]
                           = [push EXCEPT ![p] = [push[p] EXCEPT !.at = "asked", !.seal = q]]
    BY <1>0 DEF PushType
  <2>2. [push EXCEPT ![p].at = "asked", ![p].seal = Chat!NewSeal]
        = [push EXCEPT ![p] = [push[p] EXCEPT !.at = "asked", !.seal = Chat!NewSeal]]
    BY <2>1
  <2> QED BY <2>2 DEF Chat!Ask, Chat!Goto
<1> HIDE DEF m
<1>7. ASSUME NEW q \in PushType, Ready(q), GoesOn(p, q), refused(q) PROVE ChatSound'
  <2>1. push' \in [Chat!Pusher -> PushType] /\ \A x \in Chat!Pusher : Ready(push'[x])
    BY <1>0, <1>7
  <2>2. pending' \in [Msg -> Forward \cup {None}] /\ PendingIsOfMessage'
    BY <1>0, <1>2, <1>7 DEF PendingIsOfMessage
  <2>3. OneWaits'
    BY <1>0, <1>3, <1>7 DEF OneWaits, ForwardType
  <2>4. Chat!NothingOverlooked'
    BY <1>1, <1>4, <1>7, StillToLook
  <2> QED BY <1>0, <1>4, <1>5, <1>7, <2>1, <2>2, <2>3, <2>4, RelayMoves
<1>8. CASE taken
  <2> DEFINE q == [push[p] EXCEPT !.at = "asked", !.seal = Chat!NewSeal]
             w == [msg |-> m, by |-> p, ack |-> None]
             e == [msg |-> m, seal |-> Chat!NewSeal]
  <2>1. Chat!NewSeal \in Seal /\ Chat!NewSeal # None
    BY <1>8, NewSealIsOne DEF ChatAssumption
  <2>2. q \in PushType /\ Ready(q) /\ q.at = "asked" /\ q.seal # None
    BY <1>0, <1>1, <2>1 DEF PushType, Ready
  <2>3. e \in Chat!Envelope
    BY <1>2, <2>1 DEF Chat!Envelope
  <2>4. w \in ForwardType /\ w.msg = m /\ w.by = p /\ w.ack = None /\ p # None
    BY <1>2 DEF ForwardType, ChatAssumption
  <2>5. PICK f \in Forward \ Chat!Waiting : forward' = [forward EXCEPT ![f] = w]
                                       /\ pending' = [pending EXCEPT ![m] = f]
    BY <1>8
  <2>6. push' = [push EXCEPT ![p] = q] /\ UNCHANGED <<open, wire>>
        /\ waiting' = [n \in Node |-> IF n \in Chat!Room THEN Append(waiting[n], e) ELSE waiting[n]]
    BY <1>8
  <2> HIDE DEF q, w, e
  <2>7. forward' \in [Forward -> ForwardType] /\ forward'[f] = w
        /\ \A g \in Forward : g # f => forward'[g] = forward[g]
    BY <1>0, <2>4, <2>5
  <2>8. push' \in [Chat!Pusher -> PushType] /\ push'[p] = q
        /\ \A x \in Chat!Pusher : x # p => push'[x] = push[x]
    BY <1>0, <2>2, <2>6
  <2>9. waiting' \in [Node -> Seq(Chat!Envelope)]
    <3> SUFFICES ASSUME NEW n \in Node
                 PROVE  (IF n \in Chat!Room THEN Append(waiting[n], e) ELSE waiting[n]) \in Seq(Chat!Envelope)
      BY <2>6
    <3>1. waiting[n] \in Seq(Chat!Envelope)
      BY <1>0
    <3> QED BY <2>3, <3>1
  <2>10. pending' \in [Msg -> Forward \cup {None}] /\ pending'[m] = f
         /\ \A x \in Msg : x # m => pending'[x] = pending[x]
    BY <1>0, <1>2, <2>5
  <2>11. forward[f].msg = None
    BY DEF Chat!Waiting
  <2>12. PendingIsOfMessage'
    <3> SUFFICES ASSUME NEW x \in Msg, pending'[x] # None PROVE forward'[pending'[x]].msg = x
      BY DEF PendingIsOfMessage
    <3>1. CASE x = m
      BY <2>4, <2>7, <2>10, <3>1
    <3>2. CASE x # m
      <4>1. pending'[x] \in Forward /\ forward[pending'[x]].msg = x /\ x # None
        BY <1>0, <2>10, <3>2 DEF PendingIsOfMessage, ChatAssumption
      <4> QED BY <2>7, <2>11, <4>1
    <3> QED BY <3>1, <3>2
  <2>13. OneWaits'
    <3> SUFFICES ASSUME NEW g \in Forward, forward'[g].by # None
                 PROVE  /\ push'[forward'[g].by].at = "asked" /\ push'[forward'[g].by].seal # None
                        /\ \A h \in Forward : forward'[h].by = forward'[g].by => h = g
      BY DEF OneWaits
    <3>1. CASE g = f
      BY <1>3, <2>2, <2>4, <2>7, <2>8, <3>1
    <3>2. CASE g # f
      <4>1. forward'[g] = forward[g] /\ forward[g].by \in Chat!Pusher /\ forward[g].by # p
        BY <1>0, <1>3, <2>7, <3>2 DEF ForwardType
      <4>2. push'[forward[g].by] = push[forward[g].by]
        BY <2>8, <4>1
      <4>3. forward[g].by # None
        BY <4>1 DEF ChatAssumption
      <4>4. \A h \in Forward : forward'[h].by = forward[g].by => forward[h].by = forward[g].by
        BY <2>4, <2>7, <4>1
      <4> QED BY <1>0, <4>1, <4>2, <4>3, <4>4 DEF OneWaits
    <3> QED BY <3>1, <3>2
  <2>14. \A x \in Chat!Pusher : Ready(push'[x])
    BY <1>0, <2>2, <2>8
  <2>15. \A g \in Forward : forward'[g].ack # None =>
             forward'[g].ack = forward[g].ack /\ forward'[g].msg = forward[g].msg
    BY <2>4, <2>7
  <2>16. Chat!NothingOverlooked'
    BY <1>1, <1>4, <2>2, <2>6, StillToLook DEF GoesOn
  <2> HIDE DEF taken, refused
  <2> QED BY <1>0, <1>4, <1>5, <2>6, <2>7, <2>8, <2>9, <2>10, <2>12, <2>13, <2>14, <2>15,
             <2>16, RelayMoves
<1>9. /\ Chat!Finished(p) \in PushType /\ Ready(Chat!Finished(p)) /\ GoesOn(p, Chat!Finished(p))
      /\ Chat!Onward(p, "relay") \in PushType /\ Ready(Chat!Onward(p, "relay"))
      /\ GoesOn(p, Chat!Onward(p, "relay"))
  BY FinishedIs, OnwardIs DEF ChatSound
<1> QED BY <1>6, <1>7, <1>8, <1>9

\* The first receipt is the waiting forward's, and of a message that is stored.
LEMMA ReceiptTaken ==
    ASSUME ChatAssumption, ChatSound, NEW n \in Node, Chat!TakeReceipt(n)
    PROVE  ChatSound'
<1>0. /\ forward \in [Forward -> ForwardType] /\ pending \in [Msg -> Forward \cup {None}]
      /\ receipt \in [Node -> Chat!Envelope \cup {None}] /\ ReceiptIsTrue /\ OneWaits
      /\ PendingIsOfMessage /\ AckedIsHeld /\ Chat!DeliveredIsStored /\ Chat!NothingOverlooked
  BY Typed DEF ChatSound
<1> DEFINE e == receipt[n]
           f == pending[e.msg]
           w == [forward[f] EXCEPT !.ack = e.seal]
<1>1. e \in Chat!Envelope /\ e.msg \in Msg /\ e.seal \in Seal /\ e.msg \in stored[n]
  BY <1>0 DEF Chat!TakeReceipt, Chat!Envelope, ReceiptIsTrue
<1>2. /\ forward' = IF f # None /\ forward[f].ack = None
                    THEN [forward EXCEPT ![f] = w] ELSE forward
      /\ receipt' = [receipt EXCEPT ![n] = None]
      /\ UNCHANGED <<nodes, Chat!senderVars, pending, open, waiting, wire, stored, faults>>
  BY DEF Chat!TakeReceipt
<1>3. f \in Forward \cup {None}
  BY <1>0, <1>1
<1>4. f \in Forward => w \in ForwardType /\ w.msg = forward[f].msg /\ w.by = forward[f].by
                       /\ w.ack = e.seal
  BY <1>0, <1>1 DEF ForwardType
<1>5. f # None => forward[f].msg = e.msg
  BY <1>0, <1>1 DEF PendingIsOfMessage
<1>6. Held(e.msg)
  BY <1>1 DEF Held
<1> HIDE DEF w, f, e
<1>7. forward' \in [Forward -> ForwardType]
      /\ \A g \in Forward : /\ forward'[g].msg = forward[g].msg /\ forward'[g].by = forward[g].by
                            /\ forward'[g].ack # forward[g].ack => g = f
  BY <1>0, <1>2, <1>3, <1>4
<1>8. receipt' \in [Node -> Chat!Envelope \cup {None}] /\ ReceiptIsTrue'
  BY <1>0, <1>2 DEF ReceiptIsTrue
<1>9. Chat!ChatTypeOK'
  BY <1>2, <1>7, <1>8 DEF ChatSound, Chat!ChatTypeOK, Chat!senderVars, ForwardType
<1>10. OneWaits' /\ PendingIsOfMessage'
  BY <1>0, <1>2, <1>7 DEF OneWaits, PendingIsOfMessage, Chat!senderVars, ForwardType
<1>11. AckedIsHeld'
  <2> SUFFICES ASSUME NEW g \in Forward, forward'[g].ack # None
               PROVE  forward[g].msg \in Msg /\ Held(forward[g].msg)
    BY <1>2, <1>7 DEF AckedIsHeld, Held
  <2>1. CASE forward'[g].ack = forward[g].ack
    BY <1>0, <2>1 DEF AckedIsHeld
  <2>2. CASE forward'[g].ack # forward[g].ack
    <3>1. g = f /\ f # None
      BY <1>2, <1>7, <2>2
    <3> QED BY <1>1, <1>5, <1>6, <3>1
  <2> QED BY <2>1, <2>2
<1>12. Chat!DeliveredIsStored' /\ Chat!NothingOverlooked' /\ (\A x \in Chat!Pusher : Ready(push[x]))'
  BY <1>0, <1>2 DEF Chat!DeliveredIsStored, Chat!NothingOverlooked, Ready, ChatSound, Chat!senderVars
<1> QED BY <1>8, <1>9, <1>10, <1>11, <1>12 DEF ChatSound

\* The sender counts a message as delivered for a receipt of its own sealing:
\* such a forward has one, and so is of a stored message.
LEMMA AnswerSteps ==
    ASSUME ChatAssumption, ChatSound, NEW f \in Forward, Chat!Answer(f), faults' \in 0..MaxFaults
    PROVE  ChatSound'
<1>0. /\ push \in [Chat!Pusher -> PushType] /\ forward \in [Forward -> ForwardType]
      /\ pending \in [Msg -> Forward \cup {None}] /\ SenderTyped /\ open \subseteq Node
      /\ waiting \in [Node -> Seq(Chat!Envelope)] /\ wire \in [Node -> Seq(Chat!Envelope)]
      /\ outbox \in [Msg -> {"unwritten", "pending", "delivered"}]
      /\ \A x \in Chat!Pusher : Ready(push[x])
      /\ Chat!DeliveredIsStored /\ OneWaits /\ PendingIsOfMessage /\ AckedIsHeld
  BY Typed DEF ChatSound, Chat!ChatTypeOK, SenderTyped
<1> DEFINE p == forward[f].by
           m == forward[f].msg
<1>1. /\ f \in Chat!Waiting /\ Chat!Over(f)
      /\ IF p = None THEN UNCHANGED Chat!senderVars
         ELSE /\ IF Chat!Confirmed(p, f) THEN Chat!Deliver(m) ELSE UNCHANGED <<outbox, notified>>
              /\ Chat!Goto(p, IF forward[f].ack = None THEN Chat!Finished(p) ELSE Chat!Onward(p, "relay"))
      /\ UNCHANGED <<nodes, open, waiting, wire, Chat!nodeVars>>
  BY DEF Chat!Answer
<1>2. p \in Chat!Pusher \cup {None} /\ m \in Msg
  BY <1>0, <1>1 DEF ForwardType, Chat!Waiting
<1>3. Chat!NoForward \in ForwardType /\ Chat!NoForward.by = None /\ Chat!NoForward.ack = None
  BY DEF Chat!NoForward, ForwardType
<1>4. forward' = [forward EXCEPT ![f] = Chat!NoForward]
      /\ pending' = [x \in Msg |-> IF pending[x] = f THEN None ELSE pending[x]]
  BY <1>1 DEF Chat!Over
<1>5. forward' \in [Forward -> ForwardType] /\ forward'[f] = Chat!NoForward
      /\ \A g \in Forward : g # f => forward'[g] = forward[g]
  BY <1>0, <1>3, <1>4
<1>6. pending' \in [Msg -> Forward \cup {None}] /\ PendingIsOfMessage'
  BY <1>0, <1>4, <1>5 DEF PendingIsOfMessage
<1>7. \A g \in Forward : forward'[g].ack # None =>
          forward'[g].ack = forward[g].ack /\ forward'[g].msg = forward[g].msg
  BY <1>3, <1>5
<1>8. UNCHANGED <<nodes, receipt, stored, open, waiting, wire>>
  BY <1>1 DEF Chat!nodeVars
<1>9. CASE p = None
  <2>1. UNCHANGED <<outbox, notified, again, alive, push, unseen, exported>>
    BY <1>1, <1>9 DEF Chat!senderVars
  <2>2. OneWaits'
    <3>1. \A g \in Forward : forward'[g].by # None => forward'[g].by = forward[g].by
      BY <1>3, <1>5
    <3> QED BY <1>0, <2>1, <3>1 DEF OneWaits
  <2>3. /\ Chat!DeliveredIsStored' /\ SenderTyped' /\ \A x \in Chat!Pusher : Ready(push'[x])
        /\ Chat!NothingOverlooked'
    BY <1>0, <1>8, <2>1 DEF Chat!DeliveredIsStored, SenderTyped, ChatSound, Chat!NothingOverlooked
  <2> QED BY <1>0, <1>5, <1>6, <1>7, <1>8, <2>1, <2>2, <2>3, RelayMoves
<1>10. CASE p # None
  <2> DEFINE q == IF forward[f].ack = None THEN Chat!Finished(p) ELSE Chat!Onward(p, "relay")
  <2>1. p \in Chat!Pusher /\ push[p].seal # None /\ push[p].at = "asked"
        /\ \A g \in Forward : g # f => forward[g].by # p
    BY <1>0, <1>2, <1>10 DEF OneWaits
  <2>2. q \in PushType /\ Ready(q) /\ GoesOn(p, q)
    BY <2>1, FinishedIs, OnwardIs DEF ChatSound
  <2>3. push' = [push EXCEPT ![p] = q] /\ UNCHANGED <<again, alive, unseen, exported>>
    BY <1>1, <1>10 DEF Chat!Goto
  <2>4. \/ outbox' = [outbox EXCEPT ![m] = "delivered"] /\ notified' = TRUE
           /\ forward[f].ack = push[p].seal
        \/ UNCHANGED <<outbox, notified>>
    BY <1>1, <1>10 DEF Chat!Deliver, Chat!Confirmed
  <2> HIDE DEF q, p, m
  <2>5. push' \in [Chat!Pusher -> PushType] /\ (\A x \in Chat!Pusher : Ready(push'[x]))
        /\ \A x \in Chat!Pusher : x # p => push'[x] = push[x]
    BY <1>0, <2>1, <2>2, <2>3
  <2>6. OneWaits'
    <3> SUFFICES ASSUME NEW g \in Forward, forward'[g].by # None
                 PROVE  /\ push'[forward'[g].by].at = "asked" /\ push'[forward'[g].by].seal # None
                        /\ \A h \in Forward : forward'[h].by = forward'[g].by => h = g
      BY DEF OneWaits
    <3>1. g # f /\ forward'[g] = forward[g]
      BY <1>3, <1>5
    <3>2. forward[g].by \in Chat!Pusher /\ forward[g].by # p
      BY <1>0, <2>1, <3>1 DEF ForwardType
    <3>3. push'[forward'[g].by] = push[forward[g].by]
      BY <2>5, <3>1, <3>2
    <3>4. push[forward[g].by].at = "asked" /\ push[forward[g].by].seal # None
      BY <1>0, <3>1 DEF OneWaits
    <3>5. ASSUME NEW h \in Forward, forward'[h].by = forward'[g].by PROVE h = g
      <4>1. h # f
        BY <1>3, <1>5, <3>5
      <4>2. forward[h].by = forward[g].by
        BY <1>5, <3>1, <3>5, <4>1
      <4>3. forward[g].by # None
        BY <3>1
      <4> QED BY <1>0, <4>2, <4>3 DEF OneWaits
    <3> QED BY <3>3, <3>4, <3>5
  <2>7. outbox' \in [Msg -> {"unwritten", "pending", "delivered"}] /\ SenderTyped'
    BY <1>0, <1>2, <2>3, <2>4 DEF SenderTyped
  <2>8. Chat!DeliveredIsStored'
    <3>1. CASE UNCHANGED outbox
      BY <1>0, <1>8, <2>3, <3>1 DEF Chat!DeliveredIsStored
    <3>2. CASE outbox' = [outbox EXCEPT ![m] = "delivered"] /\ forward[f].ack = push[p].seal
      <4>1. Held(m)
        BY <1>0, <2>1, <3>2 DEF AckedIsHeld, m
      <4> QED BY <1>0, <1>8, <2>3, <3>2, <4>1 DEF Chat!DeliveredIsStored, Held
    <3> QED BY <2>4, <3>1, <3>2
  <2>9. Chat!NothingOverlooked'
    BY <2>1, <2>2, <2>3, StillToLook
  <2> QED BY <1>0, <1>5, <1>6, <1>7, <1>8, <2>5, <2>6, <2>7, <2>8, <2>9, RelayMoves
<1> QED BY <1>9, <1>10

-----------------------------------------------------------------------------
\* A request that fails, a restart: a forward that is left names no one.
LEMMA FaultSteps ==
    ASSUME ChatAssumption, ChatSound,
           \/ \E p \in Chat!Pusher : Chat!RequestFails(p)
           \/ Chat!SenderRestarts \/ Chat!RelayRestarts
    PROVE  ChatSound'
<1>0. /\ push \in [Chat!Pusher -> PushType] /\ forward \in [Forward -> ForwardType]
      /\ pending \in [Msg -> Forward \cup {None}] /\ SenderTyped /\ open \subseteq Node
      /\ waiting \in [Node -> Seq(Chat!Envelope)] /\ wire \in [Node -> Seq(Chat!Envelope)]
      /\ outbox \in [Msg -> {"unwritten", "pending", "delivered"}]
      /\ faults \in 0..MaxFaults /\ \A x \in Chat!Pusher : Ready(push[x])
      /\ Chat!DeliveredIsStored /\ OneWaits /\ PendingIsOfMessage
  BY Typed DEF ChatSound, Chat!ChatTypeOK, SenderTyped
<1>1. faults' \in 0..MaxFaults
  BY <1>0 DEF Chat!Fault, ChatAssumption, Chat!RequestFails, Chat!SenderRestarts, Chat!RelayRestarts
<1>2. UNCHANGED <<nodes, outbox, exported, receipt, stored>>
  BY DEF Chat!nodeVars, Chat!Goto, Chat!RequestFails, Chat!SenderRestarts, Chat!RelayRestarts
<1>3. Chat!DeliveredIsStored'
  BY <1>0, <1>2 DEF Chat!DeliveredIsStored
<1>4. ASSUME NEW p \in Chat!Pusher, Chat!RequestFails(p) PROVE ChatSound'
  <2> DEFINE q == Chat!Onward(p, "relay")
  <2>1. q \in PushType /\ Ready(q) /\ GoesOn(p, q)
    BY OnwardIs DEF ChatSound
  <2>2. /\ push' = [push EXCEPT ![p] = q] /\ push[p].at # "look"
        /\ forward' = [f \in Forward |-> IF forward[f].by = p
                                         THEN [forward[f] EXCEPT !.by = None] ELSE forward[f]]
        /\ UNCHANGED <<notified, again, alive, unseen, pending, open, waiting, wire>>
    BY <1>4 DEF Chat!RequestFails, Chat!Goto
  <2> HIDE DEF q
  <2>3. push' \in [Chat!Pusher -> PushType] /\ (\A x \in Chat!Pusher : Ready(push'[x]))
        /\ \A x \in Chat!Pusher : x # p => push'[x] = push[x]
    BY <1>0, <2>1, <2>2
  <2>4. forward' \in [Forward -> ForwardType]
        /\ \A f \in Forward : /\ forward'[f].msg = forward[f].msg /\ forward'[f].ack = forward[f].ack
                              /\ forward'[f].by = IF forward[f].by = p THEN None ELSE forward[f].by
    BY <1>0, <2>2 DEF ForwardType
  <2>5. OneWaits'
    <3> SUFFICES ASSUME NEW g \in Forward, forward'[g].by # None
                 PROVE  /\ push'[forward'[g].by].at = "asked" /\ push'[forward'[g].by].seal # None
                        /\ \A h \in Forward : forward'[h].by = forward'[g].by => h = g
      BY DEF OneWaits
    <3>1. forward'[g].by = forward[g].by /\ forward[g].by \in Chat!Pusher /\ forward[g].by # p
      BY <1>0, <2>4 DEF ForwardType
    <3> QED BY <1>0, <2>3, <2>4, <3>1 DEF OneWaits
  <2>6. PendingIsOfMessage'
    BY <1>0, <2>2, <2>4 DEF PendingIsOfMessage
  <2>7. Chat!NothingOverlooked' /\ SenderTyped'
    BY <1>0, <1>2, <2>1, <2>2, StillToLook DEF SenderTyped
  <2> QED BY <1>0, <1>1, <1>2, <1>3, <2>2, <2>3, <2>4, <2>5, <2>6, <2>7, RelayMoves
<1>5. CASE Chat!SenderRestarts
  <2>1. Chat!NoPush \in PushType /\ Ready(Chat!NoPush)
    BY DEF Chat!NoPush, PushType, Ready
  <2>2. /\ push' = [p \in Chat!Pusher |-> Chat!NoPush] /\ again' = FALSE /\ notified' = FALSE
        /\ alive' = TRUE /\ unseen' = {}
        /\ forward' = [f \in Forward |-> [forward[f] EXCEPT !.by = None]]
        /\ UNCHANGED <<pending, open, waiting, wire>>
    BY <1>5 DEF Chat!SenderRestarts
  <2>3. push' \in [Chat!Pusher -> PushType] /\ \A x \in Chat!Pusher : Ready(push'[x])
    BY <2>1, <2>2
  <2>4. forward' \in [Forward -> ForwardType]
        /\ \A f \in Forward : /\ forward'[f].msg = forward[f].msg /\ forward'[f].ack = forward[f].ack
                              /\ forward'[f].by = None
    BY <1>0, <2>2 DEF ForwardType
  <2>5. OneWaits' /\ PendingIsOfMessage'
    BY <1>0, <2>2, <2>4 DEF OneWaits, PendingIsOfMessage
  <2>6. Chat!NothingOverlooked' /\ SenderTyped'
    BY <1>0, <1>2, <2>2 DEF Chat!NothingOverlooked, SenderTyped
  <2> QED BY <1>0, <1>1, <1>2, <1>3, <2>2, <2>3, <2>4, <2>5, <2>6, RelayMoves
<1>6. CASE Chat!RelayRestarts
  <2>1. /\ forward' = [f \in Forward |-> Chat!NoForward] /\ pending' = [m \in Msg |-> None]
        /\ open' = {} /\ UNCHANGED <<notified, again, alive, unseen>>
        /\ waiting' = [n \in Node |-> <<>>] /\ wire' = [n \in Node |-> <<>>]
        /\ push' = [p \in Chat!Pusher |-> IF push[p].at = "asked" THEN Chat!Onward(p, "relay") ELSE push[p]]
    BY <1>6 DEF Chat!RelayRestarts
  <2>2. Chat!NoForward \in ForwardType /\ Chat!NoForward.by = None /\ Chat!NoForward.ack = None
    BY DEF Chat!NoForward, ForwardType
  <2>3. \A p \in Chat!Pusher : /\ Chat!Onward(p, "relay") \in PushType /\ Ready(Chat!Onward(p, "relay"))
                              /\ GoesOn(p, Chat!Onward(p, "relay"))
    BY OnwardIs DEF ChatSound
  <2>4. push' \in [Chat!Pusher -> PushType] /\ \A x \in Chat!Pusher : Ready(push'[x])
    BY <1>0, <2>1, <2>3
  <2>5. forward' \in [Forward -> ForwardType] /\ pending' \in [Msg -> Forward \cup {None}]
        /\ \A f \in Forward : forward'[f].by = None /\ forward'[f].ack = None
    BY <2>1, <2>2
  <2>6. <<>> \in Seq(Chat!Envelope)
    OBVIOUS
  <2>7. waiting' \in [Node -> Seq(Chat!Envelope)] /\ wire' \in [Node -> Seq(Chat!Envelope)] /\ open' \subseteq Node
    BY <2>1, <2>6
  <2>8. OneWaits' /\ PendingIsOfMessage'
    BY <2>1, <2>5 DEF OneWaits, PendingIsOfMessage
  <2>9. SenderTyped' /\ outbox' \in [Msg -> {"unwritten", "pending", "delivered"}]
    BY <1>0, <1>2, <2>1 DEF SenderTyped
  <2>10. Chat!NothingOverlooked'
    <3>1. "now" \in Chat!Pusher
      BY DEF Chat!Pusher
    <3>2. push'["now"] = IF push["now"].at = "asked" THEN Chat!Onward("now", "relay") ELSE push["now"]
      BY <2>1, <3>1
    <3> QED BY <2>1, <2>3, <3>1, <3>2 DEF ChatSound, Chat!NothingOverlooked, GoesOn
  <2> QED BY <1>1, <1>2, <1>3, <2>1, <2>4, <2>5, <2>7, <2>8, <2>9, <2>10, RelayMoves
<1> QED BY <1>4, <1>5, <1>6

-----------------------------------------------------------------------------
LEMMA ChatStartsSound ==
    ASSUME ChatAssumption, Chat!ChatInit
    PROVE  ChatSound
<1>1. Chat!NoPush \in PushType /\ Ready(Chat!NoPush) /\ Chat!NoForward \in ForwardType
      /\ Chat!NoForward.by = None /\ Chat!NoForward.ack = None
  BY DEF Chat!NoPush, Chat!NoForward, PushType, ForwardType, Ready
<1>2. <<>> \in Seq(Chat!Envelope)
  OBVIOUS
<1>3. stored \in [Node -> SUBSET Msg] /\ unseen \subseteq Msg /\ exported \subseteq Msg
  BY DEF Chat!ChatInit
<1>4. Chat!ChatTypeOK
  <2>1. push \in [Chat!Pusher -> PushType] /\ forward \in [Forward -> ForwardType]
    BY <1>1 DEF Chat!ChatInit
  <2>2. waiting \in [Node -> Seq(Chat!Envelope)] /\ wire \in [Node -> Seq(Chat!Envelope)]
    BY <1>2 DEF Chat!ChatInit
  <2>3. outbox \in [Msg -> {"unwritten", "pending", "delivered"}] /\ open \subseteq Node
    BY DEF Chat!ChatInit
  <2>4. nodes \subseteq Node /\ pending \in [Msg -> Forward \cup {None}]
        /\ receipt \in [Node -> Chat!Envelope \cup {None}]
    BY DEF Chat!ChatInit
  <2>5. notified \in BOOLEAN /\ again \in BOOLEAN /\ alive \in BOOLEAN
    BY DEF Chat!ChatInit
  <2>6. faults \in 0..MaxFaults
    BY DEF Chat!ChatInit
  <2> QED BY <1>3, <2>1, <2>2, <2>3, <2>4, <2>5, <2>6 DEF Chat!ChatTypeOK, PushType, ForwardType
<1>5. Chat!DeliveredIsStored /\ Chat!NothingOverlooked
  BY DEF Chat!ChatInit, Chat!DeliveredIsStored, Chat!NothingOverlooked
<1>6. OneWaits /\ PendingIsOfMessage /\ AckedIsHeld /\ ReceiptIsTrue
  BY <1>1 DEF Chat!ChatInit, OneWaits, PendingIsOfMessage, AckedIsHeld, ReceiptIsTrue
<1> QED BY <1>1, <1>4, <1>5, <1>6 DEF ChatSound, Chat!ChatInit

LEMMA ChatStepSound ==
    ASSUME ChatAssumption, ChatSound, [Chat!ChatNext]_(Chat!chatVars)
    PROVE  ChatSound'
<1>1. CASE UNCHANGED Chat!chatVars
  BY <1>1 DEF Chat!chatVars, ChatSound, Chat!ChatTypeOK, Ready, OneWaits, PendingIsOfMessage, AckedIsHeld,
              ReceiptIsTrue, Chat!DeliveredIsStored, Chat!NothingOverlooked, Held
<1>2. ASSUME NEW f \in Forward, Chat!Answered(f) \/ Chat!TimesOut(f) PROVE ChatSound'
  <2>1. Chat!Answer(f) /\ faults' \in 0..MaxFaults
    BY <1>2 DEF Chat!Answered, Chat!TimesOut, Chat!Fault, ChatSound, Chat!ChatTypeOK, ChatAssumption
  <2> QED BY <2>1, AnswerSteps
<1>3. CASE Chat!ChatNext
  BY <1>2, <1>3, SenderSteps, DirectSteps, HistorySteps, NodeSteps, AskSteps, ReceiptTaken,
         FaultSteps
     DEF Chat!ChatNext, Chat!Pushing, Chat!ChatFaults
<1> QED BY <1>1, <1>3

-----------------------------------------------------------------------------
(* RadioMode                                                               *)


SlotType == [track : Track, radio : BOOLEAN]

\* A fill that checks or notes an entry has one.
Filled ==
    \A f \in Fill :
        /\ fill[f].pc = "idle" => fill[f].batch = <<>>
        /\ fill[f].pc \in {"checked", "noting"} => fill[f].batch # <<>>

\* One thread brings the ticks, as with every output but the browser's.
OneThread == \A s, t \in Speaker : s = t

\* Nobody starts a fill while one runs: the starter is through when one does,
\* and the observer looks at the guard a fill holds.
OneFill ==
    /\ \A f, g \in Fill : fill[f].pc # "idle" /\ fill[g].pc # "idle" => f = g
    /\ \A f \in Fill : fill[f].pc # "idle" => refilling /\ starter.pc = "idle"
    /\ \A s \in Speaker : observer[s] # "idle" =>
           starter.pc = "idle" /\ \A f \in Fill : fill[f].pc = "idle"
    /\ \A s \in Speaker : observer[s] = "held" => refilling
    /\ starter.pc \in {"holding", "on"} => refilling
    /\ starter.pc # "idle" => starts >= 1
    /\ starter.pc \in {"cleared", "forgot", "holding"} => ~mode
    /\ starts = 0 => /\ ~mode /\ \A s \in Speaker : observer[s] = "idle"
                     /\ \A f \in Fill : fill[f].pc = "idle"

\* No entry of a fill's batch is noted, or twice in it.
BatchIsFresh(b) ==
    /\ \A i \in 1..Len(b) : b[i] \notin played
    /\ \A i, j \in 1..Len(b) : b[i] = b[j] => i = j

\* What the station added is noted, but for the one entry that is being noted.
Fresh ==
    /\ starts = 0 \/ starter.pc # "idle" => \A i \in 1..Len(queue) : ~queue[i].radio
    /\ \A f \in Fill : BatchIsFresh(fill[f].batch)
    /\ \A i \in 1..Len(queue) : queue[i].radio =>
           \/ queue[i].track \in played
           \/ \E f \in Fill : fill[f].pc = "noting" /\ queue[i].track = Head(fill[f].batch)

StationSound == OneFill /\ Fresh /\ NeverRepeats

\* Fill f stands at pc with batch b, the others where they stood.
Moved(f, pc, b) ==
    /\ fill' \in [Fill -> FillType] /\ fill'[f].pc = pc /\ fill'[f].batch = b
    /\ \A g \in Fill : g # f => fill'[g] = fill[g]

-----------------------------------------------------------------------------
LEMMA OneSlot ==
    ASSUME NEW t \in Track
    PROVE  /\ <<Slot(t, FALSE)>> \in Seq(SlotType)
           /\ \A i \in 1..Len(<<Slot(t, FALSE)>>) : ~<<Slot(t, FALSE)>>[i].radio
<1> DEFINE s == Slot(t, FALSE)
<1>1. s \in SlotType /\ s.radio = FALSE
  BY DEF Slot, SlotType
<1> HIDE DEF s
<1>2. <<s>> \in Seq(SlotType) /\ Len(<<s>>) = 1 /\ <<s>>[1] = s
  BY <1>1
<1>3. \A i \in 1..Len(<<s>>) : ~<<s>>[i].radio
  BY <1>1, <1>2
<1> QED BY <1>2, <1>3 DEF s

LEMMA HeardIs ==
    ASSUME NEW q \in Seq(SlotType)
    PROVE  /\ Heard(q) \in Seq(SlotType) /\ Len(Heard(q)) = Len(q)
           /\ \A i \in 1..Len(q) : ~Heard(q)[i].radio
<1>1. Heard(q) = [i \in 1..Len(q) |-> Slot(q[i].track, FALSE)]
  BY DEF Heard
<1>2. \A i \in 1..Len(q) : Slot(q[i].track, FALSE) \in SlotType
                            /\ Slot(q[i].track, FALSE).radio = FALSE
  <2> SUFFICES ASSUME NEW i \in 1..Len(q)
               PROVE  Slot(q[i].track, FALSE) \in SlotType /\ Slot(q[i].track, FALSE).radio = FALSE
    OBVIOUS
  <2>1. q[i] \in SlotType
    OBVIOUS
  <2> QED BY <2>1 DEF SlotType, Slot
<1>3. Heard(q) \in [1..Len(q) -> SlotType]
  BY <1>1, <1>2, Zenon
<1>4. Heard(q) \in Seq(SlotType) /\ Len(Heard(q)) = Len(q)
  <2>1. Len(q) \in Nat
    OBVIOUS
  <2> QED BY <1>3, <2>1
<1> QED BY <1>1, <1>2, <1>4

LEMMA ABatchIs ==
    ASSUME RadioAssumption, TypeOK, NEW b \in Batches
    PROVE  b \in Seq(Track) /\ BatchIsFresh(b)
<1>1. PICK n \in 0..Batch : b \in [1..n -> Track \ played]
  BY DEF Batches
<1>2. n \in Nat
  BY <1>1 DEF RadioAssumption
<1>3. b \in Seq(Track) /\ Len(b) = n /\ DOMAIN b = 1..n
  BY <1>1, <1>2
<1>4. \A i, j \in DOMAIN b : b[i] = b[j] => i = j
  BY DEF Batches
<1> QED BY <1>1, <1>3, <1>4 DEF BatchIsFresh

LEMMA RestIsFresh ==
    ASSUME NEW b \in Seq(Track), b # <<>>, BatchIsFresh(b)
    PROVE  /\ Tail(b) \in Seq(Track) /\ BatchIsFresh(Tail(b)) /\ Head(b) \in Track
           /\ Head(b) \notin played
           /\ \A i \in 1..Len(Tail(b)) : Tail(b)[i] # Head(b)
<1>1. /\ Tail(b) \in Seq(Track) /\ Head(b) = b[1] /\ Len(b) >= 1 /\ Len(b) \in Nat
      /\ Len(Tail(b)) = Len(b) - 1 /\ \A i \in 1..Len(Tail(b)) : Tail(b)[i] = b[i + 1]
  OBVIOUS
<1>2. \A i \in 1..Len(Tail(b)) : i + 1 \in 1..Len(b) /\ i + 1 # 1
  BY <1>1
<1>3. 1 \in 1..Len(b)
  BY <1>1
<1>4. b[1] \in Track
  BY <1>3
<1>5. \A i, j \in 1..Len(Tail(b)) : Tail(b)[i] = Tail(b)[j] => i = j
  <2> SUFFICES ASSUME NEW i \in 1..Len(Tail(b)), NEW j \in 1..Len(Tail(b)), Tail(b)[i] = Tail(b)[j]
               PROVE  i = j
    OBVIOUS
  <2>1. i + 1 = j + 1
    BY <1>1, <1>2 DEF BatchIsFresh
  <2> QED BY <2>1, <1>1
<1>6. \A i \in 1..Len(Tail(b)) : Tail(b)[i] # Head(b) /\ Tail(b)[i] \notin played
  BY <1>1, <1>2, <1>3 DEF BatchIsFresh
<1> QED BY <1>1, <1>3, <1>4, <1>5, <1>6 DEF BatchIsFresh

LEMMA SpawnIs ==
    ASSUME TypeOK, NEW gen \in 0..MaxGen, Spawn(gen)
    PROVE  \E f \in Fill : fill[f].pc = "idle" /\ Moved(f, "begun", <<>>)
<1>1. PICK f \in Fill : /\ fill[f].pc = "idle"
                        /\ fill' = [fill EXCEPT ![f] = [NoFill EXCEPT !.pc = "begun", !.gen = gen]]
  BY DEF Spawn
<1> DEFINE q == [NoFill EXCEPT !.pc = "begun", !.gen = gen]
<1>2. <<>> \in Seq(Track)
  OBVIOUS
<1>3. q \in FillType
  BY <1>2 DEF FillType, NoFill
<1>4. q.pc = "begun" /\ q.batch = <<>>
  BY DEF NoFill
<1>5. fill' = [fill EXCEPT ![f] = q]
  BY <1>1
<1> HIDE DEF q
<1>6. Moved(f, "begun", <<>>)
  BY <1>3, <1>4, <1>5 DEF Moved, TypeOK
<1> QED BY <1>1, <1>6

LEMMA FillIsMoved ==
    ASSUME TypeOK, NEW f \in Fill, NEW pc \in {"begun", "adding", "checked", "noting", "leaving"},
           NEW b \in Seq(Track), fill' = [fill EXCEPT ![f] = [fill[f] EXCEPT !.pc = pc, !.batch = b]]
    PROVE  Moved(f, pc, b)
<1> DEFINE q == [fill[f] EXCEPT !.pc = pc, !.batch = b]
<1>1. q \in FillType /\ q.pc = pc /\ q.batch = b
  BY DEF TypeOK, FillType
<1> HIDE DEF q
<1>2. fill' = [fill EXCEPT ![f] = q]
  BY DEF q
<1> QED BY <1>1, <1>2 DEF Moved, TypeOK

\* Where the steps of a fill take it.
LEMMA FillStepIs ==
    ASSUME RadioAssumption, TypeOK, Filled, NEW f \in Fill, FillStep(f)
    PROVE  \/ PickBatch(f) /\ \E b \in Batches : Moved(f, "adding", b)
           \/ CheckEntry(f) /\ fill[f].batch # <<>> /\ Moved(f, "checked", fill[f].batch)
           \/ SkipEntry(f) /\ fill[f].batch # <<>> /\ Moved(f, "adding", Tail(fill[f].batch))
           \/ AppendEntry(f) /\ fill[f].batch # <<>> /\ Moved(f, "noting", fill[f].batch)
           \/ NoteEntry(f) /\ fill[f].batch # <<>> /\ Moved(f, "adding", Tail(fill[f].batch))
           \/ GiveUp(f) /\ Moved(f, "leaving", fill[f].batch)
           \/ Leave(f) /\ Moved(f, "idle", <<>>)
<1>0. fill \in [Fill -> FillType] /\ fill[f].batch \in Seq(Track) /\ fill[f] \in FillType
  BY DEF TypeOK, FillType
<1>1. ASSUME NEW pc \in {"begun", "adding", "checked", "noting", "leaving"}, To(f, pc)
      PROVE  Moved(f, pc, fill[f].batch)
  <2> DEFINE q == [fill[f] EXCEPT !.pc = pc]
  <2>1. q \in FillType /\ q.pc = pc /\ q.batch = fill[f].batch
    BY <1>0 DEF FillType
  <2>2. fill' = [fill EXCEPT ![f] = q]
    BY <1>1 DEF To
  <2> HIDE DEF q
  <2> QED BY <1>0, <2>1, <2>2 DEF Moved
<1>2. ASSUME NEW b \in Seq(Track), fill' = [fill EXCEPT ![f].pc = "adding", ![f].batch = b]
      PROVE  Moved(f, "adding", b)
  <2>1. fill' = [fill EXCEPT ![f] = [fill[f] EXCEPT !.pc = "adding", !.batch = b]]
    BY <1>0, <1>2 DEF FillType
  <2> QED BY <2>1, FillIsMoved
<1>3. fill[f].pc \in {"checked", "noting"} => fill[f].batch # <<>>
  BY DEF Filled
<1>4. fill[f].batch # <<>> => Tail(fill[f].batch) \in Seq(Track)
  BY <1>0
<1>5. ASSUME fill' = [fill EXCEPT ![f].pc = "adding", ![f].batch = Tail(@)], fill[f].batch # <<>>
      PROVE  Moved(f, "adding", Tail(fill[f].batch))
  <2>1. fill' = [fill EXCEPT ![f].pc = "adding", ![f].batch = Tail(fill[f].batch)]
    BY <1>0, <1>5 DEF FillType
  <2> QED BY <1>2, <1>4, <1>5, <2>1
<1>6. CASE PickBatch(f)
  <2>1. PICK b \in Batches : fill' = [fill EXCEPT ![f].pc = "adding", ![f].batch = b]
    BY <1>6 DEF PickBatch
  <2>2. b \in Seq(Track)
    BY ABatchIs
  <2>3. Moved(f, "adding", b)
    BY <1>2, <2>1, <2>2
  <2> QED BY <1>6, <2>3
<1>7. CASE CheckEntry(f)
  <2>1. fill[f].batch # <<>> /\ To(f, "checked")
    BY <1>7 DEF CheckEntry
  <2> QED BY <1>1, <1>7, <2>1
<1>8. CASE SkipEntry(f)
  <2>1. fill[f].pc = "checked" /\ fill' = [fill EXCEPT ![f].pc = "adding", ![f].batch = Tail(@)]
    BY <1>8 DEF SkipEntry, At
  <2> QED BY <1>3, <1>5, <1>8, <2>1
<1>9. CASE AppendEntry(f)
  <2>1. fill[f].pc = "checked" /\ To(f, "noting")
    BY <1>9 DEF AppendEntry, At
  <2> QED BY <1>1, <1>3, <1>9, <2>1
<1>10. CASE NoteEntry(f)
  <2>1. fill[f].pc = "noting" /\ fill' = [fill EXCEPT ![f].pc = "adding", ![f].batch = Tail(@)]
    BY <1>10 DEF NoteEntry, At
  <2> QED BY <1>3, <1>5, <1>10, <2>1
<1>11. CASE GiveUp(f)
  <2>1. To(f, "leaving")
    BY <1>11 DEF GiveUp
  <2> QED BY <1>1, <1>11, <2>1
<1>12. CASE Leave(f)
  <2>1. fill' = [fill EXCEPT ![f] = NoFill]
    BY <1>12 DEF Leave
  <2>2. 0 \in 0..MaxGen /\ <<>> \in Seq(Track)
    BY DEF RadioAssumption
  <2>3. NoFill \in FillType /\ NoFill.pc = "idle" /\ NoFill.batch = <<>>
    BY <2>2 DEF NoFill, FillType
  <2> HIDE DEF NoFill
  <2> QED BY <1>0, <1>12, <2>1, <2>3 DEF Moved
<1> QED BY <1>6, <1>7, <1>8, <1>9, <1>10, <1>11, <1>12 DEF FillStep

-----------------------------------------------------------------------------
\* The types do not depend on how often a station is started.
LEMMA RadioStartsTyped ==
    ASSUME RadioAssumption, Init
    PROVE  TypeOK /\ Filled
<1>1. NoStart \in [pc : {"idle", "cleared", "forgot", "holding", "on"},
                   gen : 0..MaxGen, seed : SUBSET Track]
  BY DEF NoStart, RadioAssumption
<1>2. <<>> \in Seq(Track) /\ 0 \in 0..MaxGen
  BY DEF RadioAssumption
<1>3. NoFill \in FillType /\ NoFill.pc = "idle" /\ NoFill.batch = <<>>
  BY <1>2 DEF NoFill, FillType
<1>4. fill \in [Fill -> FillType] /\ Filled
  BY <1>3 DEF Init, Filled
<1>5. queue \in Seq(SlotType)
  <2>1. PICK t \in Track : queue = <<Slot(t, FALSE)>>
    BY DEF Init
  <2> QED BY <2>1, OneSlot
<1>6. generation \in 0..MaxGen /\ starts \in 0..MaxStarts
  <2>1. generation = 1 /\ starts = 0
    BY DEF Init
  <2> QED BY <2>1 DEF RadioAssumption
<1>7. mode \in BOOLEAN /\ refilling \in BOOLEAN /\ played \subseteq Track
      /\ observer \in [Speaker -> {"idle", "due", "held"}] /\ player \in {"idle", "replaced"}
  BY DEF Init
<1> QED BY <1>1, <1>4, <1>5, <1>6, <1>7 DEF TypeOK, Init, SlotType

LEMMA RadioStepTyped ==
    ASSUME RadioAssumption, TypeOK, Filled, [Next]_vars
    PROVE  TypeOK' /\ Filled'
<1>0. /\ queue \in Seq(SlotType) /\ generation \in 0..MaxGen /\ starts \in 0..MaxStarts
      /\ MaxGen \in Nat /\ MaxStarts \in Nat /\ fill \in [Fill -> FillType]
      /\ starter \in [pc : {"idle", "cleared", "forgot", "holding", "on"},
                      gen : 0..MaxGen, seed : SUBSET Track]
      /\ mode \in BOOLEAN /\ refilling \in BOOLEAN /\ played \subseteq Track
      /\ observer \in [Speaker -> {"idle", "due", "held"}] /\ player \in {"idle", "replaced"}
  BY DEF TypeOK, SlotType, RadioAssumption
<1>1. CASE UNCHANGED vars
  BY <1>1 DEF vars, TypeOK, Filled
<1>2. ASSUME NEW seed \in Track, NEW slot \in 0..Len(queue), Start(seed, slot)
      PROVE  TypeOK' /\ Filled'
  <2>1. queue' = IF slot = 0 THEN <<>> ELSE Heard(<<queue[slot]>>)
    BY <1>2 DEF Start
  <2>2. queue' \in Seq(SlotType)
    <3>1. CASE slot = 0
      BY <2>1, <3>1
    <3>2. CASE slot # 0
      <4>1. queue[slot] \in SlotType
        BY <1>0, <3>2
      <4>2. <<queue[slot]>> \in Seq(SlotType)
        BY <4>1
      <4> QED BY <2>1, <3>2, <4>2, HeardIs
    <3> QED BY <3>1, <3>2
  <2>3. /\ generation' = generation + 1 /\ generation < MaxGen /\ starts' = starts + 1
        /\ starts < MaxStarts
        /\ starter' = [pc |-> "cleared", gen |-> generation + 1, seed |-> {seed}]
        /\ UNCHANGED <<mode, refilling, played, observer, player, fill>>
    BY <1>2 DEF Start
  <2>4. generation' \in 0..MaxGen /\ starts' \in 0..MaxStarts
    BY <1>0, <2>3
  <2>5. starter' \in [pc : {"idle", "cleared", "forgot", "holding", "on"},
                      gen : 0..MaxGen, seed : SUBSET Track]
    BY <2>3, <2>4
  <2> QED BY <1>0, <2>2, <2>3, <2>4, <2>5 DEF TypeOK, Filled, SlotType
<1>3. ASSUME NEW seed \in Track, StartOnTail(seed) PROVE TypeOK' /\ Filled'
  <2>1. /\ queue' = Heard(queue) /\ starts' = starts + 1 /\ starts < MaxStarts
        /\ starter' = [pc |-> "cleared", gen |-> generation, seed |-> {seed}]
        /\ UNCHANGED <<generation, mode, refilling, played, observer, player, fill>>
    BY <1>3 DEF StartOnTail
  <2>2. queue' \in Seq(SlotType)
    BY <1>0, <2>1, HeardIs
  <2>3. starts' \in 0..MaxStarts
    BY <1>0, <2>1
  <2>4. starter' \in [pc : {"idle", "cleared", "forgot", "holding", "on"},
                      gen : 0..MaxGen, seed : SUBSET Track]
    BY <1>0, <2>1
  <2> QED BY <1>0, <2>1, <2>2, <2>3, <2>4 DEF TypeOK, Filled, SlotType
<1>4. ASSUME ForgetPlayed \/ HoldRefill \/ TurnOn PROVE TypeOK' /\ Filled'
  <2>1. /\ starter' \in [pc : {"idle", "cleared", "forgot", "holding", "on"},
                         gen : 0..MaxGen, seed : SUBSET Track]
        /\ played' \subseteq Track /\ refilling' \in BOOLEAN /\ mode' \in BOOLEAN
    BY <1>0, <1>4 DEF ForgetPlayed, HoldRefill, TurnOn
  <2>2. UNCHANGED <<queue, generation, starts, observer, player, fill>>
    BY <1>4 DEF ForgetPlayed, HoldRefill, TurnOn
  <2> QED BY <1>0, <2>1, <2>2 DEF TypeOK, Filled, SlotType
<1>5. ASSUME NEW gen \in 0..MaxGen, Spawn(gen),
             UNCHANGED <<queue, generation, mode, played, starts, player>>,
             starter' \in {starter, NoStart}, refilling' \in BOOLEAN, observer' \in [Speaker -> {"idle", "due", "held"}]
      PROVE  TypeOK' /\ Filled'
  <2>1. PICK f \in Fill : Moved(f, "begun", <<>>)
    BY <1>5, SpawnIs
  <2>2. fill' \in [Fill -> FillType] /\ Filled'
    BY <2>1 DEF Moved, Filled
  <2>3. starter' \in [pc : {"idle", "cleared", "forgot", "holding", "on"},
                      gen : 0..MaxGen, seed : SUBSET Track]
    BY <1>0, <1>5 DEF NoStart
  <2> QED BY <1>0, <1>5, <2>2, <2>3 DEF TypeOK, SlotType
<1>6. CASE FirstFill
  <2>1. /\ Spawn(starter.gen) /\ starter.gen \in 0..MaxGen /\ starter' = NoStart
        /\ UNCHANGED <<queue, generation, mode, refilling, played, starts, observer, player>>
    BY <1>0, <1>6 DEF FirstFill
  <2> QED BY <1>0, <1>5, <2>1
<1>7. ASSUME NEW s \in Speaker, Refill(s) PROVE TypeOK' /\ Filled'
  <2>1. /\ Spawn(generation) /\ observer' = [observer EXCEPT ![s] = "idle"]
        /\ UNCHANGED <<queue, generation, mode, refilling, played, starter, starts, player>>
    BY <1>7 DEF Refill
  <2> QED BY <1>0, <1>5, <2>1
<1>8. ASSUME NEW f \in Fill, FillStep(f) PROVE TypeOK' /\ Filled'
  <2>1. UNCHANGED <<generation, mode, starter, starts, observer, player>>
    BY <1>8 DEF FillStep, PickBatch, CheckEntry, SkipEntry, AppendEntry, NoteEntry, GiveUp, Leave
  <2>2. refilling' \in BOOLEAN
    BY <1>0, <1>8 DEF FillStep, PickBatch, CheckEntry, SkipEntry, AppendEntry, NoteEntry, GiveUp,
                      Leave, ReleasedGuard
  <2>3. fill' \in [Fill -> FillType] /\ Filled'
    <3>1. PICK pc, b : Moved(f, pc, b) /\ (pc = "idle" => b = <<>>)
                       /\ (pc \in {"checked", "noting"} => b # <<>>)
      BY <1>8, FillStepIs
    <3> QED BY <3>1 DEF Moved, Filled
  <2>4. fill[f].batch # <<>> => Head(fill[f].batch) \in Track
    <3>1. fill[f].batch \in Seq(Track)
      BY <1>0 DEF FillType
    <3> QED BY <3>1
  <2>5. queue' \in Seq(SlotType)
    <3>1. CASE AppendEntry(f)
      <4> DEFINE s == Slot(Head(fill[f].batch), TRUE)
      <4>1. fill[f].batch # <<>>
        BY <3>1 DEF AppendEntry, At, Filled
      <4>2. s \in SlotType
        BY <2>4, <4>1 DEF Slot, SlotType
      <4>3. queue' \in {queue, Append(queue, s)}
        BY <3>1 DEF AppendEntry
      <4> HIDE DEF s
      <4> QED BY <1>0, <4>2, <4>3
    <3>2. CASE ~AppendEntry(f)
      <4>1. UNCHANGED queue
        BY <1>8, <3>2 DEF FillStep, PickBatch, CheckEntry, SkipEntry, NoteEntry, GiveUp, Leave
      <4> QED BY <1>0, <4>1
    <3> QED BY <3>1, <3>2
  <2>6. played' \subseteq Track
    <3>1. CASE NoteEntry(f)
      <4>1. fill[f].batch # <<>> /\ played' = played \cup {Head(fill[f].batch)}
        BY <3>1 DEF NoteEntry, At, Filled, Noted
      <4> QED BY <1>0, <2>4, <4>1
    <3>2. CASE ~NoteEntry(f)
      <4>1. UNCHANGED played
        BY <1>8, <3>2 DEF FillStep, PickBatch, CheckEntry, SkipEntry, AppendEntry, GiveUp, Leave
      <4> QED BY <1>0, <4>1
    <3> QED BY <3>1, <3>2
  <2> QED BY <1>0, <2>1, <2>2, <2>3, <2>5, <2>6 DEF TypeOK, SlotType
<1>9. ASSUME NEW s \in Speaker, (\E idx \in 1..Len(queue) : Tick(s, idx)) \/ HoldGuard(s)
      PROVE  TypeOK' /\ Filled'
  <2>1. /\ observer' \in [Speaker -> {"idle", "due", "held"}] /\ refilling' \in BOOLEAN
        /\ UNCHANGED <<queue, generation, mode, played, starter, starts, player, fill>>
    BY <1>0, <1>9 DEF Tick, HoldGuard
  <2> QED BY <1>0, <2>1 DEF TypeOK, Filled, SlotType
<1>10. ASSUME NEW track \in Track, Replace(track) PROVE TypeOK' /\ Filled'
  <2>2. /\ queue' = <<Slot(track, FALSE)>> /\ generation' = generation + 1 /\ generation < MaxGen
        /\ player' = "replaced"
        /\ UNCHANGED <<mode, refilling, played, starter, starts, observer, fill>>
    BY <1>10 DEF Replace
  <2>3. queue' \in Seq(SlotType) /\ generation' \in 0..MaxGen
    <3>1. queue' \in Seq(SlotType)
      BY <2>2, OneSlot
    <3>2. generation' \in 0..MaxGen
      BY <1>0, <2>2
    <3> QED BY <3>1, <3>2
  <2> QED BY <1>0, <2>2, <2>3 DEF TypeOK, Filled, SlotType
<1>11. ASSUME ExitRadio \/ Stop PROVE TypeOK' /\ Filled'
  <2>1. mode' = FALSE /\ player' \in {"idle", player}
        /\ UNCHANGED <<queue, generation, refilling, played, starter, starts, observer, fill>>
    BY <1>11 DEF ExitRadio, Stop
  <2> QED BY <1>0, <2>1 DEF TypeOK, Filled, SlotType
<1> QED BY <1>1, <1>2, <1>3, <1>4, <1>6, <1>7, <1>8, <1>9, <1>10, <1>11
        DEF Next, People, Starter, Observer

-----------------------------------------------------------------------------
LEMMA RadioStartsAlone ==
    ASSUME RadioAssumption, Init
    PROVE  StationSound
<1>1. PICK t \in Track : queue = <<Slot(t, FALSE)>>
  BY DEF Init
<1>3. \A i \in 1..Len(queue) : ~queue[i].radio
  BY <1>1, OneSlot
<1>4. \A f \in Fill : fill[f].pc = "idle" /\ fill[f].batch = <<>>
  BY DEF Init, NoFill
<1>5. OneFill
  BY <1>4 DEF Init, OneFill, NoStart
<1>6. BatchIsFresh(<<>>)
  BY DEF BatchIsFresh
<1>7. Fresh /\ NeverRepeats
  BY <1>3, <1>4, <1>6 DEF Fresh, NeverRepeats
<1> QED BY <1>5, <1>7 DEF StationSound

\* With one start and one thread that ticks, whoever starts a fill finds none.
LEMMA OneFillSteps ==
    ASSUME RadioAssumption, OneThread, MaxStarts <= 1, TypeOK, Filled, OneFill, [Next]_vars
    PROVE  OneFill'
<1>0. starts \in 0..MaxStarts /\ MaxStarts \in Nat /\ mode \in BOOLEAN /\ refilling \in BOOLEAN
      /\ starter.pc \in {"idle", "cleared", "forgot", "holding", "on"}
      /\ starter \in [pc : {"idle", "cleared", "forgot", "holding", "on"},
                      gen : 0..MaxGen, seed : SUBSET Track]
      /\ generation \in 0..MaxGen /\ observer \in [Speaker -> {"idle", "due", "held"}]
  BY DEF TypeOK, RadioAssumption
<1>1. CASE UNCHANGED vars
  BY <1>1 DEF vars, OneFill
<1>2. ASSUME \E seed \in Track : (\E slot \in 0..Len(queue) : Start(seed, slot)) \/ StartOnTail(seed)
      PROVE  OneFill'
  <2>1. /\ starter'.pc = "cleared" /\ starts' = starts + 1 /\ starts < MaxStarts
        /\ UNCHANGED <<mode, refilling, observer, fill>>
    <3>1. ASSUME NEW seed \in Track, NEW slot \in 0..Len(queue), Start(seed, slot)
          PROVE  /\ starter'.pc = "cleared" /\ starts' = starts + 1 /\ starts < MaxStarts
                 /\ UNCHANGED <<mode, refilling, observer, fill>>
      BY <3>1 DEF Start
    <3>2. ASSUME NEW seed \in Track, StartOnTail(seed)
          PROVE  /\ starter'.pc = "cleared" /\ starts' = starts + 1 /\ starts < MaxStarts
                 /\ UNCHANGED <<mode, refilling, observer, fill>>
      BY <3>2 DEF StartOnTail
    <3> QED BY <1>2, <3>1, <3>2
  <2>2. starts = 0 /\ starts' = 1
    BY <1>0, <2>1
  <2> QED BY <2>1, <2>2 DEF OneFill
<1>3. CASE ForgetPlayed
  <2>1. starter.pc = "cleared" /\ starter'.pc = "forgot"
        /\ UNCHANGED <<mode, refilling, observer, fill, starts>>
    BY <1>0, <1>3 DEF ForgetPlayed
  <2> QED BY <2>1 DEF OneFill
<1>4. CASE HoldRefill
  <2>1. starter.pc = "forgot" /\ starter'.pc = "holding" /\ refilling' = TRUE
        /\ UNCHANGED <<mode, observer, fill, starts>>
    BY <1>0, <1>4 DEF HoldRefill
  <2> QED BY <2>1 DEF OneFill
<1>5. CASE TurnOn
  <2>1. starter.pc = "holding" /\ starter'.pc = "on" /\ mode' = TRUE
        /\ UNCHANGED <<refilling, observer, fill, starts>>
    BY <1>0, <1>5 DEF TurnOn
  <2> QED BY <1>0, <2>1 DEF OneFill
<1>6. ASSUME FirstFill \/ \E s \in Speaker : Refill(s) PROVE OneFill'
  <2>1. /\ UNCHANGED <<mode, starts>> /\ starter'.pc = "idle"
        /\ (\A s \in Speaker : observer'[s] = "idle")
        /\ refilling' = TRUE /\ starts # 0 /\ (\E gen \in 0..MaxGen : Spawn(gen))
        /\ \A f \in Fill : fill[f].pc = "idle"
    <3>1. CASE FirstFill
      BY <1>0, <3>1 DEF FirstFill, NoStart, OneFill
    <3>2. ASSUME NEW s \in Speaker, Refill(s)
          PROVE  /\ UNCHANGED <<mode, starts>> /\ starter'.pc = "idle"
                 /\ (\A t \in Speaker : observer'[t] = "idle")
                 /\ refilling' = TRUE /\ starts # 0 /\ (\E gen \in 0..MaxGen : Spawn(gen))
                 /\ \A f \in Fill : fill[f].pc = "idle"
      <4>1. /\ observer[s] = "held" /\ observer' = [observer EXCEPT ![s] = "idle"]
            /\ UNCHANGED <<mode, starts, starter, refilling>> /\ Spawn(generation)
        BY <3>2 DEF Refill
      <4>2. refilling /\ starter.pc = "idle" /\ starts # 0 /\ \A f \in Fill : fill[f].pc = "idle"
        BY <4>1 DEF OneFill
      <4>3. \A t \in Speaker : observer'[t] = "idle"
        BY <1>0, <4>1 DEF OneThread
      <4> QED BY <1>0, <4>1, <4>2, <4>3
    <3> QED BY <1>6, <3>1, <3>2
  <2>2. PICK f \in Fill : Moved(f, "begun", <<>>)
    BY <2>1, SpawnIs
  <2>3. \A g \in Fill : fill'[g].pc # "idle" => g = f
    BY <2>1, <2>2 DEF Moved
  <2> QED BY <2>1, <2>3 DEF OneFill
<1>7. ASSUME NEW f \in Fill, FillStep(f) PROVE OneFill'
  <2>1. UNCHANGED <<mode, starter, starts, observer>>
    BY <1>7 DEF FillStep, PickBatch, CheckEntry, SkipEntry, AppendEntry, NoteEntry, GiveUp, Leave
  <2>2. fill[f].pc # "idle"
    BY <1>7 DEF FillStep, PickBatch, CheckEntry, SkipEntry, AppendEntry, NoteEntry, GiveUp, Leave, At
  <2>3. PICK pc, b : Moved(f, pc, b)
    BY <1>7, FillStepIs
  <2>4. \A g \in Fill : fill'[g].pc # "idle" => g = f
    BY <2>2, <2>3 DEF Moved, OneFill
  <2>5. CASE Leave(f)
    <3>1. fill'[f].pc = "idle"
      BY <2>5, FillStepIs, <1>7 DEF Leave, NoFill, Moved, TypeOK
    <3> QED BY <2>1, <2>2, <2>4, <3>1 DEF OneFill
  <2>6. CASE ~Leave(f)
    <3>1. UNCHANGED refilling
      BY <1>7, <2>6 DEF FillStep, PickBatch, CheckEntry, SkipEntry, AppendEntry, NoteEntry, GiveUp
    <3> QED BY <2>1, <2>2, <2>4, <3>1 DEF OneFill
  <2> QED BY <2>5, <2>6
<1>8. ASSUME NEW s \in Speaker, NEW idx \in 1..Len(queue), Tick(s, idx) PROVE OneFill'
  <2>1. /\ mode /\ ~refilling /\ observer' = [observer EXCEPT ![s] = "due"]
        /\ UNCHANGED <<mode, refilling, starter, starts, fill>>
    BY <1>8 DEF Tick, Due
  <2>2. starter.pc = "idle" /\ starts # 0 /\ \A f \in Fill : fill[f].pc = "idle"
    BY <1>0, <2>1 DEF OneFill
  <2>3. \A t \in Speaker : observer'[t] = "held" => observer[t] = "held"
    BY <1>0, <2>1
  <2> QED BY <2>1, <2>2, <2>3 DEF OneFill
<1>10. ASSUME NEW s \in Speaker, HoldGuard(s) PROVE OneFill'
  <2>1. /\ observer[s] = "due" /\ observer' = [observer EXCEPT ![s] = "held"] /\ refilling' = TRUE
        /\ UNCHANGED <<mode, starter, starts, fill>>
    BY <1>10 DEF HoldGuard
  <2>2. \A t \in Speaker : observer'[t] # "idle" => observer[t] # "idle"
    BY <1>0, <2>1
  <2>3. starts # 0
    BY <2>1 DEF OneFill
  <2> QED BY <2>1, <2>2, <2>3 DEF OneFill
<1>9. ASSUME (\E track \in Track : Replace(track)) \/ ExitRadio \/ Stop PROVE OneFill'
  <2>1. (mode' => mode) /\ UNCHANGED <<refilling, starter, starts, observer, fill>>
    <3>1. ASSUME NEW track \in Track, Replace(track)
          PROVE  UNCHANGED <<mode, refilling, starter, starts, observer, fill>>
      BY <3>1 DEF Replace
    <3>2. ASSUME ExitRadio \/ Stop
          PROVE  mode' = FALSE /\ UNCHANGED <<refilling, starter, starts, observer, fill>>
      BY <3>2 DEF ExitRadio, Stop
    <3> QED BY <1>9, <3>1, <3>2
  <2> QED BY <2>1 DEF OneFill
<1> QED BY <1>1, <1>2, <1>3, <1>4, <1>5, <1>6, <1>7, <1>8, <1>9, <1>10
        DEF Next, People, Starter, Observer

\* The fills but f are idle, with nothing in hand.
LEMMA TheOthersAreIdle ==
    ASSUME Filled, OneFill, NEW f \in Fill, fill[f].pc # "idle"
    PROVE  \A g \in Fill : g # f => fill[g].pc = "idle" /\ fill[g].batch = <<>>
BY DEF Filled, OneFill

\* A queue that holds nothing of the station's.
LEMMA QueueIsOfNoStation ==
    ASSUME \A i \in 1..Len(queue') : ~queue'[i].radio,
           \A f \in Fill : BatchIsFresh(fill[f].batch)'
    PROVE  Fresh' /\ NeverRepeats'
BY DEF Fresh, NeverRepeats

LEMMA FreshSteps ==
    ASSUME RadioAssumption, OneThread, MaxStarts <= 1, TypeOK, Filled, StationSound, [Next]_vars
    PROVE  Fresh' /\ NeverRepeats'
<1>0. /\ queue \in Seq(SlotType) /\ starts \in 0..MaxStarts /\ MaxStarts \in Nat
      /\ \A f \in Fill : fill[f].batch \in Seq(Track)
      /\ Fresh /\ NeverRepeats /\ OneFill
  BY DEF TypeOK, SlotType, FillType, RadioAssumption, StationSound
<1>1. ASSUME UNCHANGED <<queue, played, starts, fill>>, starter'.pc = "idle" \/ starter.pc # "idle"
      PROVE  Fresh' /\ NeverRepeats'
  BY <1>0, <1>1 DEF Fresh, NeverRepeats, BatchIsFresh
<1>2. CASE UNCHANGED vars
  <2>1. UNCHANGED <<queue, played, starts, fill>> /\ UNCHANGED starter
    BY <1>2 DEF vars
  <2> QED BY <1>1, <2>1
<1>3. ASSUME starts < MaxStarts PROVE \A f \in Fill : fill[f].pc = "idle" /\ fill[f].batch = <<>>
  <2>1. starts = 0
    BY <1>0, <1>3
  <2> QED BY <1>0, <2>1 DEF OneFill, Filled
<1>4. ASSUME UNCHANGED fill, \A f \in Fill : fill[f].batch = <<>>
      PROVE  \A f \in Fill : BatchIsFresh(fill[f].batch)'
  BY <1>4 DEF BatchIsFresh
<1>5. ASSUME NEW seed \in Track, NEW slot \in 0..Len(queue), Start(seed, slot)
      PROVE  Fresh' /\ NeverRepeats'
  <2>1. /\ starts < MaxStarts /\ UNCHANGED fill
        /\ queue' = IF slot = 0 THEN <<>> ELSE Heard(<<queue[slot]>>)
    BY <1>5 DEF Start
  <2>2. CASE slot = 0
    <3>1. \A i \in 1..Len(queue') : ~queue'[i].radio
      BY <2>1, <2>2
    <3> QED BY <1>3, <1>4, <2>1, <3>1, QueueIsOfNoStation
  <2>3. CASE slot # 0
    <3>1. queue[slot] \in SlotType
      BY <1>0, <2>3
    <3>2. <<queue[slot]>> \in Seq(SlotType)
      BY <3>1
    <3>3. \A i \in 1..Len(queue') : ~queue'[i].radio
      BY <2>1, <2>3, <3>2, HeardIs
    <3> QED BY <1>3, <1>4, <2>1, <3>3, QueueIsOfNoStation
  <2> QED BY <2>2, <2>3
<1>6. ASSUME NEW seed \in Track, StartOnTail(seed) PROVE Fresh' /\ NeverRepeats'
  <2>1. starts < MaxStarts /\ UNCHANGED fill /\ queue' = Heard(queue)
    BY <1>6 DEF StartOnTail
  <2>2. \A i \in 1..Len(queue') : ~queue'[i].radio
    BY <1>0, <2>1, HeardIs
  <2> QED BY <1>3, <1>4, <2>1, <2>2, QueueIsOfNoStation
<1>7. CASE ForgetPlayed
  <2>1. starter.pc # "idle" /\ UNCHANGED <<queue, fill>>
    BY <1>7 DEF ForgetPlayed
  <2>2. \A f \in Fill : fill[f].batch = <<>>
    BY <1>0, <2>1 DEF OneFill, Filled
  <2>3. \A i \in 1..Len(queue') : ~queue'[i].radio
    BY <1>0, <2>1 DEF Fresh
  <2> QED BY <1>4, <2>1, <2>2, <2>3, QueueIsOfNoStation
<1>8. ASSUME HoldRefill \/ TurnOn PROVE Fresh' /\ NeverRepeats'
  <2>1. UNCHANGED <<queue, played, starts, fill>> /\ starter.pc # "idle"
    BY <1>8 DEF HoldRefill, TurnOn
  <2> QED BY <1>1, <2>1
<1>9. ASSUME FirstFill \/ \E s \in Speaker : Refill(s) PROVE Fresh' /\ NeverRepeats'
  <2>1. /\ UNCHANGED <<queue, played, starts>> /\ \E gen \in 0..MaxGen : Spawn(gen)
        /\ starter'.pc = "idle" \/ starter.pc # "idle"
    BY <1>9 DEF FirstFill, Refill, NoStart, TypeOK
  <2>2. PICK f \in Fill : fill[f].pc = "idle" /\ Moved(f, "begun", <<>>)
    BY <2>1, SpawnIs
  <2>3. \A g \in Fill : fill'[g] = fill[g] \/ (g = f /\ fill'[g].batch = <<>>)
    BY <2>2 DEF Moved
  <2>4. \A g \in Fill : BatchIsFresh(fill[g].batch)'
    <3> SUFFICES ASSUME NEW g \in Fill PROVE BatchIsFresh(fill[g].batch)'
      OBVIOUS
    <3>1. CASE fill'[g] = fill[g]
      BY <1>0, <2>1, <3>1 DEF Fresh, BatchIsFresh
    <3>2. CASE fill'[g].batch = <<>>
      BY <3>2 DEF BatchIsFresh
    <3> QED BY <2>3, <3>1, <3>2
  <2>5. \A g \in Fill : fill[g].pc = "noting" => fill'[g] = fill[g]
    BY <2>2 DEF Moved
  <2> QED BY <1>0, <2>1, <2>4, <2>5 DEF Fresh, NeverRepeats
<1>10. ASSUME NEW f \in Fill, FillStep(f) PROVE Fresh' /\ NeverRepeats'
  <2> DEFINE b == fill[f].batch
  <2>1. UNCHANGED <<starter, starts>> /\ fill[f].pc # "idle"
    BY <1>10 DEF FillStep, PickBatch, CheckEntry, SkipEntry, AppendEntry, NoteEntry, GiveUp, Leave, At
  <2>2. starts # 0 /\ starter.pc = "idle"
    BY <1>0, <2>1 DEF OneFill
  <2>3. \A g \in Fill : g # f => fill[g].pc = "idle" /\ fill[g].batch = <<>>
    BY <1>0, <2>1, TheOthersAreIdle
  <2>4. b \in Seq(Track) /\ BatchIsFresh(b)
    BY <1>0 DEF Fresh
  <2>5. ASSUME NEW pc, NEW d, Moved(f, pc, d), BatchIsFresh(d), fill[f].pc # "noting",
               UNCHANGED <<queue, played>>
        PROVE  Fresh' /\ NeverRepeats'
    <3>1. \A g \in Fill : g # f => fill'[g] = fill[g]
      BY <2>5 DEF Moved
    <3>2. BatchIsFresh(fill[f].batch)'
      BY <2>5 DEF Moved, BatchIsFresh
    <3>3. \A g \in Fill : BatchIsFresh(fill[g].batch)'
      BY <2>3, <3>1, <3>2 DEF BatchIsFresh
    <3>4. \A g \in Fill : fill[g].pc = "noting" => FALSE
      BY <2>3, <2>5
    <3> QED BY <1>0, <2>1, <2>2, <2>5, <3>3, <3>4 DEF Fresh, NeverRepeats
  <2>6. b # <<>> => BatchIsFresh(Tail(b)) /\ Head(b) \notin played
    BY <2>4, RestIsFresh
  <2> HIDE DEF b
  <2>7. CASE PickBatch(f) /\ \E d \in Batches : Moved(f, "adding", d)
    <3>1. fill[f].pc # "noting" /\ UNCHANGED <<queue, played>>
      BY <2>7 DEF PickBatch, At
    <3> QED BY <2>5, <2>7, <3>1, ABatchIs
  <2>8. CASE CheckEntry(f) /\ Moved(f, "checked", fill[f].batch)
    <3>1. fill[f].pc # "noting" /\ UNCHANGED <<queue, played>>
      BY <2>8 DEF CheckEntry, At
    <3> QED BY <2>4, <2>5, <2>8, <3>1 DEF b
  <2>9. CASE SkipEntry(f) /\ fill[f].batch # <<>> /\ Moved(f, "adding", Tail(fill[f].batch))
    <3>1. fill[f].pc # "noting" /\ UNCHANGED <<queue, played>>
      BY <2>9 DEF SkipEntry, At
    <3> QED BY <2>5, <2>6, <2>9, <3>1 DEF b
  <2>10. CASE GiveUp(f) /\ Moved(f, "leaving", fill[f].batch)
    <3>1. fill[f].pc # "noting" /\ UNCHANGED <<queue, played>>
      BY <2>10 DEF GiveUp, At
    <3> QED BY <2>4, <2>5, <2>10, <3>1 DEF b
  <2>11. CASE Leave(f) /\ Moved(f, "idle", <<>>)
    <3>1. fill[f].pc # "noting" /\ UNCHANGED <<queue, played>>
      BY <2>11 DEF Leave, At
    <3>2. BatchIsFresh(<<>>)
      BY DEF BatchIsFresh
    <3> QED BY <2>5, <2>11, <3>1, <3>2
  <2>12. CASE AppendEntry(f) /\ fill[f].batch # <<>> /\ Moved(f, "noting", fill[f].batch)
    <3> DEFINE s == Slot(Head(b), TRUE)
    <3>1. /\ fill[f].pc = "checked" /\ UNCHANGED played
          /\ queue' \in {queue, Append(queue, s)}
      BY <2>12 DEF AppendEntry, At, b
    <3>2. \A i \in 1..Len(queue) : queue[i].radio => queue[i].track \in played
      BY <1>0, <2>3, <3>1 DEF Fresh
    <3>3. Head(b) \notin played /\ Head(b) \in Track
      BY <2>4, <2>12, RestIsFresh DEF b
    <3>4. s.track = Head(b) /\ s \in SlotType
      BY <3>3 DEF Slot, SlotType
    <3> HIDE DEF s
    <3>5. \A g \in Fill : BatchIsFresh(fill[g].batch)'
      <4>1. \A g \in Fill : fill'[g].batch = fill[g].batch
        BY <2>12 DEF Moved
      <4> QED BY <1>0, <3>1, <4>1 DEF Fresh, BatchIsFresh
    <3>6. fill'[f].pc = "noting" /\ fill'[f].batch = b
      BY <2>12 DEF Moved, b
    <3>7. CASE queue' = queue
      BY <1>0, <2>1, <2>2, <3>1, <3>2, <3>5, <3>7 DEF Fresh, NeverRepeats
    <3>8. CASE queue' = Append(queue, s)
      <4>1. /\ Len(queue') = Len(queue) + 1 /\ Len(queue) \in Nat /\ queue'[Len(queue) + 1] = s
            /\ \A i \in 1..Len(queue) : queue'[i] = queue[i]
        BY <1>0, <3>4, <3>8
      <4>2. \A i \in 1..Len(queue') : i \in 1..Len(queue) \/ i = Len(queue) + 1
        BY <4>1
      <4>3. Fresh'
        <5> SUFFICES ASSUME NEW i \in 1..Len(queue'), queue'[i].radio
                     PROVE  \/ queue'[i].track \in played'
                            \/ \E g \in Fill : /\ fill'[g].pc = "noting"
                                               /\ queue'[i].track = Head(fill'[g].batch)
          BY <2>1, <2>2, <3>5 DEF Fresh
        <5>1. CASE i \in 1..Len(queue)
          BY <3>1, <3>2, <4>1, <5>1
        <5>2. CASE i = Len(queue) + 1
          BY <3>4, <3>6, <4>1, <5>2
        <5> QED BY <4>2, <5>1, <5>2
      <4>4. NeverRepeats'
        <5> SUFFICES ASSUME NEW i \in 1..Len(queue'), NEW j \in 1..Len(queue'),
                            queue'[i].radio, queue'[j].radio, queue'[i].track = queue'[j].track
                     PROVE  i = j
          BY DEF NeverRepeats
        <5>1. CASE i \in 1..Len(queue) /\ j \in 1..Len(queue)
          BY <1>0, <4>1, <5>1 DEF NeverRepeats
        <5>2. CASE i \in 1..Len(queue) /\ j = Len(queue) + 1
          BY <3>2, <3>3, <3>4, <4>1, <5>2
        <5>3. CASE j \in 1..Len(queue) /\ i = Len(queue) + 1
          BY <3>2, <3>3, <3>4, <4>1, <5>3
        <5> QED BY <4>2, <5>1, <5>2, <5>3
      <4> QED BY <4>3, <4>4
    <3> QED BY <3>1, <3>7, <3>8
  <2>13. CASE NoteEntry(f) /\ fill[f].batch # <<>> /\ Moved(f, "adding", Tail(fill[f].batch))
    <3>1. fill[f].pc = "noting" /\ played' = played \cup {Head(b)} /\ UNCHANGED queue
      BY <2>13 DEF NoteEntry, At, Noted, b
    <3>2. /\ Tail(b) \in Seq(Track) /\ BatchIsFresh(Tail(b))
          /\ \A i \in 1..Len(Tail(b)) : Tail(b)[i] # Head(b)
      BY <2>4, <2>13, RestIsFresh DEF b
    <3>3. fill'[f].batch = Tail(b) /\ \A g \in Fill : g # f => fill'[g] = fill[g]
      BY <2>13 DEF Moved, b
    <3>4. BatchIsFresh(fill[f].batch)'
      BY <3>1, <3>2, <3>3 DEF BatchIsFresh
    <3>5. \A g \in Fill : g # f => BatchIsFresh(fill[g].batch)'
      BY <2>3, <3>3 DEF BatchIsFresh
    <3>6. \A i \in 1..Len(queue) : queue[i].radio => queue[i].track \in played'
      <4> SUFFICES ASSUME NEW i \in 1..Len(queue), queue[i].radio PROVE queue[i].track \in played'
        OBVIOUS
      <4>1. CASE queue[i].track \in played
        BY <3>1, <4>1
      <4>2. ASSUME NEW g \in Fill, fill[g].pc = "noting", queue[i].track = Head(fill[g].batch)
            PROVE  queue[i].track \in played'
        <5>1. g = f
          BY <2>3, <4>2
        <5> QED BY <3>1, <4>2, <5>1 DEF b
      <4> QED BY <1>0, <4>1, <4>2 DEF Fresh
    <3> QED BY <1>0, <2>1, <2>2, <3>1, <3>4, <3>5, <3>6 DEF Fresh, NeverRepeats
  <2> QED BY <1>10, <2>7, <2>8, <2>9, <2>10, <2>11, <2>12, <2>13, FillStepIs
<1>11. ASSUME NEW s \in Speaker, (\E idx \in 1..Len(queue) : Tick(s, idx)) \/ HoldGuard(s)
       PROVE  Fresh' /\ NeverRepeats'
  <2>1. UNCHANGED <<queue, played, starts, fill>> /\ UNCHANGED starter
    BY <1>11 DEF Tick, HoldGuard
  <2> QED BY <1>1, <2>1
<1>12. ASSUME NEW track \in Track, Replace(track) PROVE Fresh' /\ NeverRepeats'
  <2>1. queue' = <<Slot(track, FALSE)>> /\ UNCHANGED <<played, fill>>
    BY <1>12 DEF Replace
  <2>2. \A i \in 1..Len(queue') : ~queue'[i].radio
    BY <2>1, OneSlot
  <2>3. \A f \in Fill : BatchIsFresh(fill[f].batch)'
    BY <1>0, <2>1 DEF Fresh, BatchIsFresh
  <2> QED BY <2>2, <2>3, QueueIsOfNoStation
<1>13. ASSUME ExitRadio \/ Stop PROVE Fresh' /\ NeverRepeats'
  <2>1. UNCHANGED <<queue, played, starts, fill>> /\ UNCHANGED starter
    BY <1>13 DEF ExitRadio, Stop
  <2> QED BY <1>1, <2>1
<1> QED BY <1>2, <1>5, <1>6, <1>7, <1>8, <1>9, <1>10, <1>11, <1>12, <1>13
        DEF Next, People, Starter, Observer

LEMMA RadioStepAlone ==
    ASSUME RadioAssumption, OneThread, MaxStarts <= 1, TypeOK, Filled, StationSound, [Next]_vars
    PROVE  StationSound'
BY OneFillSteps, FreshSteps DEF StationSound

\* At most one of the fills has begun.
LEMMA OneFillIsOne ==
    ASSUME OneFill
    PROVE  OneFillAtATime
<1> DEFINE S == {f \in Fill : fill[f].pc # "idle"}
<1>1. CASE S = {}
  BY <1>1, FS_EmptySet DEF OneFillAtATime
<1>2. CASE S # {}
  <2>1. PICK f \in Fill : fill[f].pc # "idle"
    BY <1>2
  <2>2. S = {f}
    BY <2>1 DEF OneFill
  <2>3. Cardinality({f}) = 1
    BY FS_Singleton
  <2> QED BY <2>2, <2>3 DEF OneFillAtATime
<1> QED BY <1>1, <1>2
-----------------------------------------------------------------------------
(* The parts together                                                      *)

LEMMA ChatConstants == ChatAssumption
BY UnattendedAssumption DEF ChatAssumption, Chat!Pusher, Chat!Envelope

LEMMA PartsStart ==
    ASSUME UnattendedInit
    PROVE  Chat!ChatInit /\ Browser!BrowserInit /\ Init
BY DEF UnattendedInit

LEMMA PartsStep ==
    ASSUME [UnattendedNext]_<<part, chatVars, browserVars, radioVars>>
    PROVE  /\ [Chat!ChatNext]_(Chat!chatVars) /\ [Next]_vars
           /\ [Browser!BrowserNext]_(Browser!browserVars)
BY DEF UnattendedNext, chatVars, browserVars, radioVars, Chat!chatVars, Browser!browserVars

\* A delivered message is stored at a node of the friend's, what is noticed is
\* looked at, and the chat's variables hold values of their kinds, whatever is
\* lost, retried, raised or restarted (p2p_manager, sync_server, chat_service).
THEOREM ChatIsSound == UnattendedSpec => []ChatSound
<1>1. UnattendedInit => ChatSound
  BY PartsStart, ChatStartsSound, ChatConstants
<1>2. ChatSound /\ [UnattendedNext]_<<part, chatVars, browserVars, radioVars>> => ChatSound'
  BY PartsStep, ChatStepSound, ChatConstants
<1> QED BY <1>1, <1>2, PTL DEF UnattendedSpec

\* A message the sender counts as delivered is stored at the friend's.
THEOREM DeliveredMessageIsStored == UnattendedSpec => []DeliveredIsStored
<1>1. ChatSound => DeliveredIsStored
  BY DEF ChatSound, DeliveredIsStored
<1> QED BY <1>1, ChatIsSound, PTL

\* What is noticed during an immediate push is looked at when that one ends
\* (p2p_manager, _deliver_now).
THEOREM NoticesAreLookedAt == UnattendedSpec => []NothingOverlooked
<1>1. ChatSound => NothingOverlooked
  BY DEF ChatSound, NothingOverlooked
<1> QED BY <1>1, ChatIsSound, PTL

\* The station's variables hold values of their kinds, however often one is
\* started: a fill that adds or notes an entry has one.
THEOREM RadioIsTyped == UnattendedSpec => []TypeOK
<1>1. UnattendedInit => TypeOK /\ Filled
  BY PartsStart, RadioStartsTyped, RadioAssumption
<1>2. TypeOK /\ Filled /\ [UnattendedNext]_<<part, chatVars, browserVars, radioVars>>
      => TypeOK' /\ Filled'
  BY PartsStep, RadioStepTyped, RadioAssumption
<1> QED BY <1>1, <1>2, PTL DEF UnattendedSpec

LEMMA TabIsTyped == UnattendedSpec => []Browser!BrowserTypeOK
<1>1. Browser!BrowserInit /\ [][Browser!BrowserNext]_(Browser!browserVars) => []Browser!BrowserTypeOK
  BY UnattendedAssumption, Browser!BrowserTypeCorrect
<1>2. UnattendedInit => Browser!BrowserInit
  BY PartsStart
<1>3. [UnattendedNext]_<<part, chatVars, browserVars, radioVars>>
      => [Browser!BrowserNext]_(Browser!browserVars)
  BY PartsStep
<1> QED BY <1>1, <1>2, <1>3, PTL DEF UnattendedSpec

\* Every variable of the message, the tab and the station holds a value of its kind.
THEOREM UnattendedTypeCorrect == UnattendedSpec => []UnattendedTypeOK
<1>1. ChatSound => Chat!ChatTypeOK
  BY DEF ChatSound
<1>2. Chat!ChatTypeOK /\ Browser!BrowserTypeOK /\ TypeOK => UnattendedTypeOK
  BY DEF UnattendedTypeOK
<1> QED BY <1>1, <1>2, ChatIsSound, TabIsTyped, RadioIsTyped, PTL

\* With one start and one thread that ticks, no fill is started beside another,
\* and nothing a fill may still add has been added.
THEOREM StationStaysSound ==
    OneThread /\ MaxStarts <= 1 /\ UnattendedSpec => [](TypeOK /\ Filled /\ StationSound)
<1> SUFFICES ASSUME OneThread, MaxStarts <= 1 PROVE UnattendedSpec => [](TypeOK /\ Filled /\ StationSound)
  OBVIOUS
<1>1. UnattendedInit => TypeOK /\ Filled /\ StationSound
  BY PartsStart, RadioStartsTyped, RadioStartsAlone, RadioAssumption
<1>2. (TypeOK /\ Filled /\ StationSound)
      /\ [UnattendedNext]_<<part, chatVars, browserVars, radioVars>>
      => (TypeOK /\ Filled /\ StationSound)'
  BY PartsStep, RadioStepTyped, RadioStepAlone, RadioAssumption
<1> QED BY <1>1, <1>2, PTL DEF UnattendedSpec

\* While a station is started at most once and its ticks come on one thread, one
\* fill at a time extends it (player.py, _radio_refilling).  With two threads
\* both may pass the test before either holds the guard.
THEOREM OneFillExtends == OneThread /\ MaxStarts <= 1 /\ UnattendedSpec => []OneFillAtATime
<1>1. StationSound => OneFillAtATime
  BY OneFillIsOne DEF StationSound
<1> QED BY <1>1, StationStaysSound, PTL

\* While a station is started at most once and its ticks come on one thread, it
\* never adds a track twice (player.py, _radio_played).
THEOREM StationNeverRepeats == OneThread /\ MaxStarts <= 1 /\ UnattendedSpec => []NeverRepeats
<1>1. StationSound => NeverRepeats
  BY DEF StationSound
<1> QED BY <1>1, StationStaysSound, PTL
=============================================================================
