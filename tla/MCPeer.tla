------------------------------- MODULE MCPeer -------------------------------
(***************************************************************************)
(* What a node holds for those who come to it, on a small instance for     *)
(* TLC: for a peer the admission gate, the identity registry and the wake  *)
(* streams of its relay; for its owner the streams of the tabs that would  *)
(* play, and the switch between outputs.  The parts share no state here; a *)
(* behaviour is one of the part it starts in.                              *)
(***************************************************************************)
EXTENDS WakeStreams, TLC

CONSTANTS
    Client, Honest, Nonce, Check, Entry, FirstRows, Quorum,
    Key, Cert, Call, MaxRows,
    Media, Tab, Channel, LateEnds, MaxEpoch, MaxInbox, MaxPosts, MaxAnswers, MaxEdits, MaxFaults,
    Output, Lendable, Rendered, Request, Slots, MaxAttach

VARIABLES
    part,
    row, quote, late, seen, check, paid, blamed, settled, regiven, voters,
    identity, bans, call, clock, crossed, overtaken,
    queue, out, grace, chans, el, posts, answers, edits, faults,
    inst, active, chosen, latest, lastSlot, carried, listen, stale, turn, req, hold, stood, excused

Gate     == INSTANCE AdmissionGateProofs
Identity == INSTANCE IdentityRegistryProofs
Browser  == INSTANCE BrowserOutputProofs
Switch   == INSTANCE OutputSwitch

ASSUME PeerAssumption ==
    /\ Gate!GateAssumption /\ Identity!RegistryAssumption /\ WakeAssumption
    /\ Browser!BrowserAssumption /\ Switch!SwitchAssumption

gateVars     == <<row, quote, late, seen, check, paid, blamed, settled, regiven, voters>>
identityVars == <<identity, bans, call, clock, crossed, overtaken>>
browserVars  == <<queue, out, grace, chans, el, posts, answers, edits, faults>>
switchVars   == <<inst, active, chosen, latest, lastSlot, carried, listen, stale, turn, req,
                  hold, stood, excused>>

vars == <<part, gateVars, identityVars, wakeVars, browserVars, switchVars>>

\* A part that is not looked at has no state.
Init ==
    /\ part \in {"gate", "identity", "wake", "browser", "switch"}
    /\ IF part = "gate"
         THEN Gate!GateInit
         ELSE /\ row = None /\ quote = None /\ late = None /\ seen = None /\ check = None
              /\ paid = None /\ blamed = None /\ settled = None /\ regiven = None
              /\ voters = None
    /\ IF part = "identity"
         THEN Identity!IdentityInit
         ELSE /\ identity = None /\ bans = None /\ call = None /\ clock = None
              /\ crossed = None /\ overtaken = None
    /\ IF part = "wake"
         THEN WakeInit
         ELSE /\ slots = None /\ held = None /\ byIp = None /\ stage = None
              /\ node = None /\ voucher = None /\ closed = None /\ clients = None
              /\ relaying = None /\ cap = None /\ slipped = None
    /\ IF part = "browser"
         THEN Browser!BrowserInit /\ faults = 0 /\ \A i \in 1..Len(queue) : queue[i].way = "open"
         ELSE /\ queue = None /\ out = None /\ grace = None /\ chans = None /\ el = None
              /\ posts = None /\ answers = None /\ edits = None /\ faults = None
    /\ IF part = "switch"
         THEN Switch!SwitchInit
         ELSE /\ inst = None /\ active = None /\ chosen = None /\ latest = None
              /\ lastSlot = None /\ carried = None /\ listen = None /\ stale = None
              /\ turn = None /\ req = None /\ hold = None /\ stood = None
              /\ excused = None

Next ==
    \/ /\ part = "gate"
       /\ Gate!GateNext
       /\ UNCHANGED <<part, identityVars, wakeVars, browserVars, switchVars>>
    \/ /\ part = "identity"
       /\ Identity!IdentityNext
       /\ UNCHANGED <<part, gateVars, wakeVars, browserVars, switchVars>>
    \/ /\ part = "wake"
       /\ WakeNext
       /\ UNCHANGED <<part, gateVars, identityVars, browserVars, switchVars>>
    \/ /\ part = "browser"
       /\ Browser!BrowserNext
       /\ UNCHANGED <<part, gateVars, identityVars, wakeVars, switchVars>>
    \/ /\ part = "switch"
       /\ Switch!SwitchNext
       /\ UNCHANGED <<part, gateVars, identityVars, wakeVars, browserVars>>

Spec == Init /\ [][Next]_vars

-----------------------------------------------------------------------------
(* The properties, stated and explained in the components' modules, in the  *)
(* behaviours of their part                                                *)

In(which) == part = which

\* Every variable of the five holds a value of its kind.
PeerTypeOK ==
    /\ In("gate") => Gate!GateTypeOK
    /\ In("identity") => Identity!IdentityTypeOK
    /\ In("wake") => WakeTypeOK
    /\ In("browser") => Browser!BrowserTypeOK
    /\ In("switch") => Switch!SwitchTypeOK

\* A quote admits once (gate_service.check_payment).
PaidOnce == In("gate") => Gate!PaidOnce

\* A client that solves what it is asked is never blamed (gate_pool).
HonestIsNeverBlamed == In("gate") => Gate!HonestIsNeverBlamed

\* An answer the server knows is spent on one packet (gate_pool).
GoldIsSpentOnce == In("gate") => Gate!GoldIsSpentOnce

\* The votes of a claim are of distinct others (gate_pool.silver_vote).
VotesAreOfOthers == In("gate") => Gate!VotesAreOfOthers

\* A banned key stays failed (identity_registry).
BansStick == In("identity") => Identity!BansStick

\* A key that succeeds a banned one is banned (identity_registry._succeed).
RebirthKeepsTheBan == In("identity") => Identity!RebirthKeepsTheBan

\* A key is as old as what it succeeds (identity_registry._succeed).
RebirthKeepsTheAge == In("identity") => Identity!RebirthKeepsTheAge

\* A mailbox is not lost to an old certificate (identity_registry.observe).
MailboxIsKept == [][In("identity") => Identity!KeepsTheMailbox]_identityVars

\* A client is announced as long as it holds a stream (handle_wake_stream).
AnnounceLivesWithItsStreams == In("wake") => AnnounceLives

\* A stream that runs can be reached, and the counts are true (wake_registry).
RegistryIsExact == In("wake") => RegistryExact

\* A relay switched off holds no client's stream (close_relay_clients).
OffEndsTheSlots == In("wake") => OffEnds

\* Of two tabs one is told to let go (browser_backend.attach_tab).
OneRenderer == In("browser") => Browser!OneRenderer

\* HQPlayer lent to a job is the job's alone (manager.hold).
LentIsLeftAlone == [][In("switch") => Switch!LeavesTheLentAlone]_switchVars

\* The new output stands where the old one did, and the listen goes on there
\* (manager.activate, tracker.carry_listen).
SwitchGoesOn == [][In("switch") => Switch!GoesOn]_switchVars

-----------------------------------------------------------------------------
(* The instance *)

CONSTANTS a, old, new, box, k1, k2, hqp, dap

\* a claim of a's that is wrong, with a seed beside it; one that is right,
\* alone; or an empty pool
Lent(class, origin, right, source, keys) ==
    [class |-> class, origin |-> origin, right |-> right, source |-> source, keys |-> keys,
     votes |-> 0, lease |-> None, retired |-> FALSE]

Starts ==
    {[e \in Entry |-> CASE e = 1 /\ claim # "none"  -> Lent("silver", "claim", claim = "right", a, {a})
                        [] e = 2 /\ claim = "wrong" -> Lent("gold", "seed", TRUE, None, {})
                        [] OTHER                    -> Lent("none", "none", TRUE, None, {})] :
     claim \in {"right", "wrong", "none"}}

\* a key of proof of work that moves to a mailbox, and the key that succeeds
\* it there, which holds a certificate of proof of work too
Issued(key, method, mail, predecessor, anchor) ==
    [key |-> key, method |-> method, mail |-> mail,
     predecessor |-> predecessor, anchor |-> anchor]

Certs == {Issued(old, "pow", None, None, 1), Issued(old, "email", box, None, 1),
          Issued(new, "email", box, old, 1), Issued(new, "pow", None, None, 2)}

\* three nodes of a stranger's account, two of them behind one address, and
\* a friend behind it too
Nodes == {[key |-> k1, name |-> 1, ip |-> 1], [key |-> k1, name |-> 2, ip |-> 2],
          [key |-> k1, name |-> 3, ip |-> 1], [key |-> k2, name |-> 1, ip |-> 1]}

\* the parts never meet, so one set of model values stands for the quotes of
\* one, the requests of two more and tabs, and one for payments and streams:
\* fewer permutations of a state to look at
Symmetry == Permutations(Nonce) \cup Permutations(Check)
=============================================================================
