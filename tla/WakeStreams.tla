----------------------------- MODULE WakeStreams -----------------------------
(***************************************************************************)
(* Who holds a live wake stream to a relay, and for which of them the relay *)
(* announces (desktop/p2p/wake_registry.py, and the handler that uses it,   *)
(* sync_server.handle_wake_stream; routers/peer_chat.py mirrors both).      *)
(*                                                                         *)
(* A stream belongs to a node of an account, not to its key.  A stranger   *)
(* presents a voucher and proves its identity over an await; a friend is   *)
(* admitted at once.  The relay announces the keys that registered with a  *)
(* voucher, for as long as the key holds a stream.  The switch may go off  *)
(* at any moment, and a handler may die before it reaches its try block.   *)
(***************************************************************************)
EXTENDS Naturals, FiniteSets, Sequences, SequencesExt

CONSTANTS
    Node,          \* the nodes: records of key, name (the instance) and ip
    Friend,        \* the keys of friends; any other key is a stranger's
    Stream,        \* streams and the requests for them, reused once ended
    MaxPerIp, MaxPerKey, MaxStreams,
    CapBase, CapMax,   \* the cap grows by one, as RELAY_CAP_STEP does by 20
    None

\* A key holds a stream at least, and the cap has room to grow in.
WakeAssumption ==
    /\ MaxPerKey \in Nat \ {0}
    /\ CapBase \in Nat /\ CapMax \in Nat /\ CapBase <= CapMax

VARIABLES
    slots,         \* slots[k]: the streams of key k, oldest first
    held, byIp,    \* the registry's counts: of all streams, of those of an ip
    stage,         \* stage[s]: no request, awaiting its proof, open, or dead:
                   \* its handler ended without giving up its slot
    node,          \* node[s]: the node that asked, while the stream is in use
    voucher,       \* the requests whose voucher the relay honours
    closed,        \* the streams told to end
    clients,       \* the keys announced on behalf (_relay_clients)
    relaying,      \* the relay switch, as the cached reading has it
    cap,           \* how many clients the relay takes
    slipped        \* history: admitted on a reading the switch has left behind

wakeVars == <<slots, held, byIp, stage, node, voucher, closed, clients,
              relaying, cap, slipped>>

Account == {n.key : n \in Node}
Ip  == {n.ip : n \in Node}

KeyOf(s) == node[s].key

One(condition) == IF condition THEN 1 ELSE 0

-----------------------------------------------------------------------------
(* WakeRegistry, each operation under its lock *)

\* the stream the node of the request holds already
Previous(n) == {s \in ToSet(slots[n.key]) : node[s].name = n.name}

\* an address or a relay that holds all it may; never asked of a node that
\* comes back, nor, of the relay, where the oldest of the key yields
Refused(n) ==
    /\ Previous(n) = {}
    /\ \/ byIp[n.ip] >= MaxPerIp
       \/ Len(slots[n.key]) < MaxPerKey /\ held >= MaxStreams

Yielding(n) ==
    CASE Previous(n) # {}             -> Previous(n)
      [] /\ Previous(n) = {}
         /\ Len(slots[n.key]) >= MaxPerKey -> {Head(slots[n.key])}
      [] OTHER                        -> {}

\* the slots of a key that loses one of them, or none
Without(q, gone) ==
    [i \in 1..(Len(q) - One(ToSet(q) \cap gone # {})) |->
        IF \E j \in 1..i : q[j] \in gone THEN q[i + 1] ELSE q[i]]

\* what lost its slot is told so (mutant: the oldest of a full key is not)
ToldIfPrevious(n) == Previous(n)
ToldToEnd(n) == Yielding(n)

\* register: the stream takes its slot, what it takes the place of is told to
\* end.  The answer's headers may find the connection gone: that raises ahead
\* of the handler's try block, and the slot stays with nobody to give it up
Register(s, n, v) ==
    /\ slots' = [slots EXCEPT ![n.key] = Append(Without(slots[n.key], Yielding(n)), s)]
    /\ held' = held + 1 - Cardinality(Yielding(n))
    /\ byIp' = [i \in Ip |-> byIp[i] + One(i = n.ip)
                                - Cardinality({t \in Yielding(n) : node[t].ip = i})]
    /\ closed' = (closed \cup {t \in ToldToEnd(n) : stage[t] = "open"}) \ {s}
    /\ clients' = IF v THEN clients \cup {n.key} ELSE clients
    /\ node' = [t \in Stream |->
                    CASE t = s                                  -> n
                      [] t \in Yielding(n) /\ stage[t] = "dead" -> None
                      [] OTHER                                  -> node[t]]
    /\ voucher' = IF v THEN voucher \cup {s} ELSE voucher \ {s}
    /\ \E outcome \in {"open", "dead"} :
           stage' = [t \in Stream |->
                         CASE t = s                                  -> outcome
                           [] t \in Yielding(n) /\ stage[t] = "dead" -> "none"
                           [] OTHER                                  -> stage[t]]

HoldsItsSlot(s) == Contains(slots[KeyOf(s)], s)

\* unregister says TRUE: no stream of the key is left
LastOfItsKey(s) == \A t \in ToSet(slots[KeyOf(s)]) : t = s

\* unregister, in the handler's finally
Unregister(s) ==
    /\ slots' = [slots EXCEPT ![KeyOf(s)] = Without(slots[KeyOf(s)], {s})]
    /\ held' = held - One(HoldsItsSlot(s))
    /\ byIp' = [byIp EXCEPT ![node[s].ip] = @ - One(HoldsItsSlot(s))]
    /\ clients' = IF LastOfItsKey(s) THEN clients \ {KeyOf(s)} ELSE clients

\* mutant of the next: the newest stream of a key alone
OnlyTheNewest(k) == IF slots[k] = <<>> THEN {} ELSE {Last(slots[k])}

\* close: every stream of the key
StreamsOf(k) == ToSet(slots[k])

-----------------------------------------------------------------------------
(* handle_wake_stream *)

\* relay_client_count and relay_has_room
ClientsHeld == {k \in clients : slots[k] # <<>>}

HasRoom(k) == k \in clients \/ Cardinality(ClientsHeld) < cap

Admit(s, n, v) ==
    IF Refused(n)
    THEN /\ stage' = [stage EXCEPT ![s] = "none"]
         /\ node' = [node EXCEPT ![s] = None]
         /\ UNCHANGED <<slots, held, byIp, voucher, closed, clients>>
    ELSE Register(s, n, v)

\* a friend with no voucher, or whose voucher an unrelaying relay passes over
FriendSubscribes(s) ==
    /\ stage[s] = "none"
    /\ \E n \in Node, v \in BOOLEAN :
           /\ n.key \in Friend
           /\ v /\ relaying => HasRoom(n.key)
           /\ Admit(s, n, v /\ relaying)
    /\ slipped' = slipped \ {s}
    /\ UNCHANGED <<relaying, cap>>

\* a stranger with a voucher: the switch and the room are looked at first,
\* then its identity is proved, over an await
StrangerAsks(s) ==
    /\ stage[s] = "none"
    /\ relaying
    /\ \E n \in Node :
           /\ n.key \notin Friend
           /\ HasRoom(n.key)
           /\ node' = [node EXCEPT ![s] = n]
    /\ stage' = [stage EXCEPT ![s] = "proof"]
    /\ slipped' = slipped \ {s}
    /\ UNCHANGED <<slots, held, byIp, voucher, closed, clients, relaying, cap>>

\* the proof is in: neither the switch nor the room is looked at again
Proved(s) ==
    /\ stage[s] = "proof"
    /\ Admit(s, node[s], TRUE)
    /\ slipped' = IF relaying THEN slipped ELSE slipped \cup {s}
    /\ UNCHANGED <<relaying, cap>>

NotProved(s) ==
    /\ stage[s] = "proof"
    /\ stage' = [stage EXCEPT ![s] = "none"]
    /\ node' = [node EXCEPT ![s] = None]
    /\ UNCHANGED <<slots, held, byIp, voucher, closed, clients, relaying, cap, slipped>>

\* told to end, or the subscriber went away
Ends(s) ==
    /\ stage[s] = "open"
    /\ Unregister(s)
    /\ stage' = [stage EXCEPT ![s] = "none"]
    /\ voucher' = voucher \ {s}
    /\ closed' = closed \ {s}
    /\ slipped' = slipped \ {s}
    /\ node' = [node EXCEPT ![s] = None]
    /\ UNCHANGED <<relaying, cap>>

-----------------------------------------------------------------------------
(* The relay switch and the cap *)

\* close_relay_clients, on the notice and again on every turn of the cap loop
\* while off; _apply_relay_role closes the same with the switch as it is
SwitchedOff ==
    /\ relaying' = FALSE
    /\ closed' = closed \cup UNION {StreamsOf(k) : k \in clients}
    /\ slipped' = {}
    /\ UNCHANGED <<slots, held, byIp, stage, node, voucher, clients, cap>>

RoleLost ==
    /\ closed' = closed \cup UNION {StreamsOf(k) : k \in clients}
    /\ UNCHANGED <<slots, held, byIp, stage, node, voucher, clients, relaying, cap, slipped>>

\* the cached reading expires, and the switch is on again
SwitchedOn ==
    /\ ~relaying
    /\ relaying' = TRUE
    /\ UNCHANGED <<slots, held, byIp, stage, node, voucher, closed, clients, cap, slipped>>

\* adapt_relay_cap
AdaptCap ==
    /\ \/ /\ Cardinality(ClientsHeld) >= cap
          /\ cap < CapMax
          /\ cap' = cap + 1
       \/ /\ Cardinality(ClientsHeld) < CapBase
          /\ cap > CapBase
          /\ cap' = CapBase
    /\ UNCHANGED <<slots, held, byIp, stage, node, voucher, closed, clients, relaying, slipped>>

WakeInit ==
    /\ slots = [k \in Account |-> <<>>]
    /\ held = 0
    /\ byIp = [i \in Ip |-> 0]
    /\ stage = [s \in Stream |-> "none"]
    /\ node = [s \in Stream |-> None]
    /\ voucher = {}
    /\ closed = {}
    /\ clients = {}
    /\ relaying = TRUE
    /\ cap = CapBase
    /\ slipped = {}

WakeNext ==
    \/ \E s \in Stream : FriendSubscribes(s) \/ StrangerAsks(s) \/ Proved(s)
                            \/ NotProved(s) \/ Ends(s)
    \/ SwitchedOff \/ RoleLost \/ SwitchedOn \/ AdaptCap

WakeSpec == WakeInit /\ [][WakeNext]_wakeVars

-----------------------------------------------------------------------------
\* Every variable holds a value of its kind.
WakeTypeOK ==
    /\ slots \in [Account -> Seq(Stream)]
    /\ held \in Nat /\ byIp \in [Ip -> Nat]
    /\ stage \in [Stream -> {"none", "proof", "open", "dead"}]
    /\ node \in [Stream -> Node \cup {None}]
    /\ voucher \subseteq Stream /\ closed \subseteq Stream /\ slipped \subseteq Stream
    /\ clients \subseteq Account
    /\ relaying \in BOOLEAN
    /\ cap \in CapBase .. CapMax

\* A stream that still runs
Live(s) == stage[s] = "open" /\ s \notin closed

\* The announce of a client lives exactly as long as its key holds a stream:
\* neither a superseded stream, nor one node of an account that leaves while
\* another stays, withdraws it, and the last one does.
AnnounceLives ==
    /\ \A k \in clients : slots[k] # <<>>
    /\ \A s \in voucher : Live(s) => KeyOf(s) \in clients

\* The streams that hold a slot.
Occupied == UNION {StreamsOf(k) : k \in Account}

\* A stream that runs can be reached - it holds a slot, so a wake finds it -
\* and the counts the limits rest on are those of the slots, through every
\* supersession, yield and late goodbye.
RegistryExact ==
    /\ \A s \in Stream : Live(s) => HoldsItsSlot(s)
    /\ held = Cardinality(Occupied)
    /\ \A i \in Ip : byIp[i] = Cardinality({s \in Occupied : node[s].ip = i})

\* With the switch off no voucher holds a stream that runs, but one whose
\* proof was under way as it went off: that one lasts to the next turn of
\* the cap loop.
OffEnds ==
    ~relaying => \A s \in voucher \ slipped : ~Live(s)
=============================================================================
