# Sautium in TLA+

Sautium is a music player and library server: a Python backend (`src/backend`)
that owns a play queue and drives one of several outputs, a desktop node
(`src/desktop`) that keeps a peer-to-peer network of certified peers, and a web
UI. This directory holds TLA+ models of the parts whose correctness depends on
how threads, crashes and late answers fall between each other, the TLC
configurations that check them, and TLAPS proofs.

- [Inventory](#inventory)
- [Modules, and the code they stand for](#modules-and-the-code-they-stand-for)
- [Runs](#runs)
- [Fairness](#fairness)
- [Proofs](#proofs)
- [Disagreements found](#disagreements-found)
- [Not modelled](#not-modelled)
- [Plan](#plan)

## Inventory

Everything below runs in one backend process unless it says otherwise: request
threads of the web server (synchronous routes run on a thread pool), background
threads the routes leave behind, and the status thread of the attached output.

### Canonical queue - `playback/queue.py`, `playback/manager.py`, `routers/player.py`

State: the list of `QueueItem` objects, a version (every commit), a generation
(every replacement), the active output, the queue lock `_mutate_lock`.
Operations: replace, append ("play next" or at the end), remove, reorder, clear
for radio, switch of the output. Each mutation mirrors itself to the output and
commits after, under the queue lock; the routes read the queue, the generation
and the latest status without it. A route that brings many items places the
first and leaves a *filler* thread that rolls the rest in, one lock acquisition
an item.

Hard: a filler outlives its queue; anchors and plans are read before the lock;
an append the link dropped is offered again, perhaps to another output.
Correct when: no item lands in a queue it was not asked into, no object stands
in two slots, a block keeps its order, an edit does what the person saw or
nothing, every filler ends.

### Radio - `routers/player.py`

State: `radio_mode`, `_radio_refilling`, `_radio_played` (module globals without a
lock), `_radio_start_lock`. Operations: start, stop, the fill thread, the status
observer that starts a refill near the end of the queue, the replace that ends
the mode. The observer runs on whatever thread brings a tick: an output's poller,
or, with the browser output, each request thread that posts one. Hard: the guard is tested and set by one thread and cleared by
another. Correct when: one fill at a time, no track twice in a station, the
guard always comes down.

### Listening sessions - `playback/sessions.py`

State: rows of `listening_sessions` in PostgreSQL (at most one with `ended_at`
NULL, by a unique index, `migrations/001_initial.sql:1621`), the stored queue in the settings.
Operations: rotation (under the queue lock, between the output's answer and the
commit), the end-of-queue close (status thread, no queue lock), the AI's title,
the debounced persist of the queue, the restore after a restart.
Hard: two transactions on one open row, database and memory that part in a
crash or a failed commit. Correct when: a session is archived once, with the
slots of its own queue, under its own name, and the open one is the queue's.

### Play tracking - `playback/tracker.py`

State: the open listen `_play_session`, `_carried`; `listening_history` rows; what
Last.fm was sent. One operation, `track_play_event`, fed each status tick, and
`carry_listen` at an output switch. Hard: one function without a lock that
saves and then drops; what is a pause, a reload, an attach, a correction of the clock or a new
play is told by fields of a tick. Correct when: a play is one listen, a listen
is one row and at most one scrobble.

### Output switching - `playback/manager.py`

State: `_active` under `_active_lock`, `_outputs` (changes that are over), `_hold`,
`_last_slot`, the spot to resume at. Operations: `activate`, the play
gate, the hold that lends an output to a benchmark, the renderer scan. Hard: ticks of an old output, a failed
attach rolled back, a hold in the middle of a switch. Correct when: only the
active output is heard, and the listen and the spot survive.

### Browser output - `playback/browser_backend.py`, `static/player.js`

State: the renderer tab and its SSE channel, an epoch per load, the index it
plays, a play intent parked until a tab claims the output, a grace timer.
Operations: attach and detach of a tab, events of its audio element, transport
commands. Hard: events of an older load, a tab that advances by itself, a
channel that is dead and not yet known to be. Correct when: what is said to
play is what the newest tab plays, and a parked intent is played once.

### HQPlayer, DLNA and local outputs

An HQPlayer instance on a TCP link whose commands are answered late or not at
all (`hqp_backend.py`, `hqp_link.py`, `hqp_load.py`), UPnP renderers over
asyncio (`dlna_backend.py`), an engine thread on a sound device
(`local/engine.py`). State: a mirror of the queue as the player holds it. Hard:
everything a remote player can do meanwhile. Correct when: the mirror and the
queue name the same slot.

### Admission gate - `desktop/p2p/gate_service.py`, `gate_pool.py`

State: rows of `p2p_gate_pool` (gold, whose answer the server knows, and silver,
a client's claim), each leased into at most one quote; signed quotes; `_seen`, the nonces
presented. Operations: a quote leases rows, a payment is verified and settled
row by row, claims are voted on and audited, leases nobody answered and rows
over the cap are swept. Hard: a payment is a coroutine and a row of
transactions, with other quotes and payments between any two of them. Correct
when: a quote admits once, an answer is spent once, nobody is blamed for
another's lie.

### Identity registry - `desktop/p2p/identity_registry.py`

State: rows of `p2p_identities` and `p2p_node_bans`. Operations: a certificate is
observed (insert, evict, upsert, succession of the keys it replaces), a proof
of work is judged over an await, one at a time, evidence bans. Hard: every statement
commits by itself, and what was read may have changed at the write. Correct
when: a banned identity stays out under any key, age follows the person, a
mailbox is not lost to an old certificate.

### Wake streams - `desktop/p2p/wake_registry.py`, `sync_server.py`

State: the streams each key holds, counts per address and in all, the keys the
relay announces, the switch, the cap. Operations: subscribe (a stranger proves
itself over an await), supersede, yield, end, switch off. Hard: the `finally` of
a stream that was superseded runs after its successor registered. Correct when:
what runs can be reached, the limits count what is there, an announce lives as
long as its streams.

### Chat - `desktop/p2p/p2p_manager.py`, `sync_server.py`, `chat_service.py`

State: the outbox rows of the sender, who pushes (a pass of the loop, and an
immediate push per friend), the forwards the relay waits on, the streams of
the friend's nodes, their rows. Operations: write, push directly, forward, drain, receive, acknowledge,
time out, pull the history. Hard: receipts for one sealing that come while another waits, an
answer that is late, a notice that comes while a push is under way, any of three processes
restarting, an exception that ends a loop. Correct when: what counts as
delivered is stored, what is noticed is looked at, what was written arrives.

### The rest

Sync walk and server, slices, chat invites, DHT and discovery; library scan and canon;
enrichment, analysis, search, similarity; assistant and providers; backup,
restore, merge; launcher, web UI. `PROJECT.json` lists each with its files.

### How they meet

A route calls the manager, which holds the queue lock, calls the output, has
`sessions.py` rotate, and commits the queue. The output's thread calls
`_on_backend_status`, which ends in the tracker, the end-of-queue close and the
observers, radio's among them. The fill threads of radio and of the routes
append through the same lock, guarded by the generation.

Between nodes: what a stranger asks of a node passes the admission gate, whose
evidence of a lie bans in the registry; its certificate passes the registry, which a
stranger's wake stream awaits; chat rides the wake streams. Backend and desktop
node share the database and its notices.

## Modules, and the code they stand for

| module | stands for |
|---|---|
| `CanonicalQueue` | the queue's operations, as operators on sequences |
| `PlaybackQueue` | the routes and fillers that mutate it through the queue lock |
| `QueuePromise` | what the queue promises whoever brings it something (abstract) |
| `RadioMode` | a station's start, fills, refills and end |
| `ListeningSessions` | session rows, transactions, persistence, crashes |
| `ListenTracker` | ticks to listens, history rows and scrobbles |
| `OutputSwitch` | which output plays: the picker, the play gate, the hold, the status threads |
| `BrowserOutput` | the browser output, its streams, and the tab that plays |
| `AdmissionGate` | quotes, payments and the pool, commit by commit |
| `IdentityRegistry` | certificates, admission, bans and succession, commit by commit |
| `WakeStreams` | the registry of wake streams, their handler, the relay switch |
| `RelayedChat` | a message's way from outbox to receipt, directly or by relay |
| `PlaybackQueueProofs` | lemmas on the operators of `CanonicalQueue`; theorems of `PlaybackQueue`, the refinement among them |
| `ListeningSessionsProofs`, `ListenTrackerProofs` | theorems of these two |
| `AdmissionGateProofs`, `IdentityRegistryProofs`, `BrowserOutputProofs` | theorems of these three, each from an invariant of its own |
| `MCPeer` | `AdmissionGate`, `IdentityRegistry`, `WakeStreams`, `BrowserOutput`, `OutputSwitch`, side by side |
| `MCUnattended` | `RelayedChat`, `BrowserOutput` and `RadioMode`, side by side |
| `MCPeerProofs` | theorems of `OutputSwitch` and `WakeStreams`, and all five parts' for the node that has them |
| `MCUnattendedProofs` | theorems of `RelayedChat` and `RadioMode`, and the types of all three parts |
| other `MC...` | values of the constants for TLC |

In `MCPeer` and `MCUnattended` the components share no state, so
their product would show nothing a part does not: a behaviour is one of the
part it starts in (`part`), with the others at rest (in `MCPeer` without a
state), and one run covers them all.

`PROJECT.json` maps each definition to its lines.

### PlaybackQueue

One `Route` is a request thread with the filler it spawns: they follow each
other and never run together on the same items. A mutation is two steps, since
what matters is what others can do in between: *Begin* (the lock is taken, the
output is asked) and *Commit*, *Abandon* or *Refuse* (the output's answer, the
lock let go). `pc` names where the route stands. What people ask for (`Kinds`)
are the five ways in which the code takes a generation for its filler, plus
removal and reorder: `play` (returned by `replace_queue`, under the lock),
`playlist` and `add` (read after the lock was let go), `stream` (read before),
`radio` (returned by the clear).

`Anchor`: a "play next" goes behind what the latest status names. That status
may be any number of mutations old, so it is any place of the queue or none.
`DropFill` is an offer the link dropped or the player gave up on, offered again
at most `Tries` times, to whatever output is attached by then.

Abstracted: the content of a slot, and how the output holds it; which of a
replacement's items the output took is any nonempty head of them.

### RadioMode

The queue changes in one step here, since `PlaybackQueue` has the mutation's
own. What is kept apart is each access to the three globals: a start *clears*,
*forgets* the played set, *sets* the guard, *turns on* the mode, *spawns* the
fill; the observer *tests* (`Tick`), sets the guard (`HoldGuard`) and then spawns
(`Refill`); a fill checks, appends, notes and leaves entry by entry. Which
tracks are similar is any choice of unplayed ones.

`Speaker` are the threads that deliver ticks, each with an observer of its own
(`manager.py:1006-1008`). One is what the poller of an output gives. The browser output's
ticks come on the request threads that post them (finding 5), and after a switch an old
poller may deliver one more (`manager.py:861`): then two can pass the test of
`player.py:3842` before either sets the guard at 3849, and one start has two fills, which may
add a track twice. With two speakers and `MaxStarts` 1 TLC finds `OneFillAtATime` violated in a
few steps, against `player.py:3695` ("one fill thread at a time"). What `unattended` checks
and the proofs show of a station is therefore for one such thread, and says so (`OneThread`).

### ListeningSessions

Time stands still only within a transaction step. `Select` is `SELECT ... FOR
UPDATE` under READ COMMITTED: a free row is locked with what is in it, a held
one is waited for (`Wait`), and after the wait the row is read again (`Woken`):
gone from the condition `ended_at IS NULL`, it is no row at all, even if the
other transaction has opened a new one. A queue is the set of its tracks, as
that is what a card is made of; `made` is a history variable, the play that
made the queue. `Faults` names what may go wrong: a rotation that rolls back, an
HQPlayer that is refused a clear after the archive (`cut`), a crash with the
restore of the stored queue. `adrift` marks that such a fault has
left the open row and the queue apart, until the next rotation. `Lists(p)` is
what an album names in `album_tracks`, which may be nothing, and `NamedAfter(p)`
what a card is titled after: an album or seed that is NULL (deleted since, or
never set) falls back on the row's own title, as the code does.

### ListenTracker

`track_play_event` is one function, but a tick that ends or replaces a listen
writes to the database between its judgement and its last assignment. A
`Speaker` is a thread that delivers ticks; its steps are the judgement (`Keep`,
`End`, `Pass`, `Change`, `GoOn`, one for each way through the function), `Save`,
`Drop`, `Open` and `Count`. The outputs are the environment: `Begin`, `RunOn`,
`Turn`, `Correct`, `Stop`, `Foreign`, `Switch`. Positions are the four the code tells apart (under
5 s, under 30 s, past 30 s, past half or 240 s). A tick carries the play it is
of only as history, for `OneListenPerPlay`. The Scrobbling switch is read for
each report and may be on or off each time (unreadable counts as off).

Three things are taken as they are. A length is known from the first tick on
(the code takes the first length a tick brings). A switch falls between two
ticks: `activate` does not wait for an old poller that is past the sender check,
which can clear `_carried` again; `OutputSwitch` has that tick. And a
tick that says "loading" with no slot ends the listen, although the docstring
says a tick without identity must never close one (`tracker.py:259-261`); the
history variable `cut` names the plays this happens to, and `OneListenPerPlay` says that nothing else
cuts one in two.

### QueuePromise

The abstract queue: `queue`, and what each route still `owed` it, in order. A
replacement or a station is one step that calls off what was owed to the old
queue; the next item owed is rolled in, in its order, or cannot be had; a person
takes one slot away or reorders. No lock, output, generation or filler appears.
`PlaybackQueue!KeepsThePromise` is that specification under `owed <- Owed`: the
rest of a filler's plan, while its generation is the queue's and from the commit of its first item on. `queue_edits`
checks it as a `PROPERTY`, so every commit of every route is one step of
the promise and everything else a stutter.

### OutputSwitch

`inst` is the backends attached so far: what each plays, whether it answers,
where it stands; `active` the one heard, `chosen` the output that is persisted, `latest` and
`lastSlot` the manager's status, `carried` and `listen` the tracker's. A
request's `pc` says where in `activate` it is: `Off` lets the old output go,
`On` carries the listen and names the new one, `Start` or `StartFails`, `ResumeAt`,
`Leave`. Between those steps the status threads speak (`Say`) and presses
that took an output earlier reach it (`Command`). `PickAnother` is the picker,
`AttachAgain` the press, the re-pick and the scan that meet a lost output,
`Hold`, `EndJob` the benchmark's loan of HQPlayer. `SayStale` is the word of
an output let go meanwhile, past the check of `manager.py:861`.

A hold that raises as it lets HQPlayer go takes its loan back and fails
(`manager.py:183-186`); that is left out, as detaching raises nothing the model has.

There is one lock (`turn`), because every caller of `activate` in the model
holds the queue lock and the ensure lock first. A request that waits at it has kept
nothing it looked at before, so waiting is no state.

`stood` is history, where the output last said it stands, and `SwitchGoesOn`
says that the next one stands there and that its first words end no listen.
Two races of the code break that; the history variable `excused` names them and
the property exempts them, each by name:
`stray`, a word of the old output between the reading of the spot and the
carrying of the listen, or late; `unsaid`, a second change before the new output has said where it
stands, whose spot is then in no status yet (HQPlayer's first poll, the
engine's thread; `settings.py:2263`). Without either exemption TLC finds a
counterexample. Left out: seconds, the attach at boot, the detach at shutdown, an HQPlayer
chosen at another address, the words said while connecting, and an HQPlayer that answers again by itself.

### BrowserOutput

`out` is the backend's fields, `chans` the SSE streams with what waits on them,
`el` each tab's renderer as `player.js` keeps it, `posts` and `answers` the
events and their answers under way, in no order. Each method of the backend is
one step. That is an abstraction: the lock of `browser_backend.py` covers only whose the tab and
the channel are (`attach_tab`, 134-140; `detach_tab`) and the pushes; the priming (141-171),
`on_client_event` and `_advance` (212-304) hold none, so an event may be written after a takeover that
came behind its test of the tab. `OneRenderer` and `ReconnectedInTime` are about what is
under the lock; a slot written late is what `SlotHeals` says the next `timeupdate` puts right. `Load`,
`Ident`, `QueueTail` and `QueueChanged` follow the code's names. A tab goes on by itself from its list
(`Ended`), tells the server (`advanced`), and the server follows
(`Resynced`) or goes past the tail (`Advance`).

Left out: seconds (only whether a primed slot stands at 0, a choice), volume,
covers, blobs, status words, the spot and the handover, "play on". Media in the
queue are distinct, so that `queue_changed`'s search for the nearest equal one
has one answer. `slot_ready` follows the substitution in one step. `MaxFaults`
counts what is not normal: a dropped stream, a lost event or answer, a closed
page, a media error, a restart of the server. The tab's list is a set, each
entry with its slot, as the order of the list is that of the slots and all the tab does
with it is to look for the nearest entry, the next one, and the one that
plays.

### AdmissionGate

`row` is the pool, `quote` each nonce with its packet, `check` each payment
under way. A payment goes `Present`, `ReadLease`, `Prefilter`, `Verify`,
`Sample`, then entry by entry `Record` and one of `Retire`, `Audit`, `Vote`, and ends in `Pass`
or `Fail`: one action per commit or await. A packet is the set of its entries
and one `Fresh` task for all the new ones; an answer is right or wrong, two
wrong ones agree or not (`Disputed`). A client that answers some wrong may also send the
wrong number of answers, which fails at `Prefilter`. Verification checks a sample, so it may miss a wrong answer.
`Sweep` and `Evict` run before the lease of some quotes, as every fiftieth does.

History: `paid` (how often a nonce was answered "ok"), `blamed`, `settled` and
`voters` per entry, and `regiven`: entries a quote got hold of between the commit
of `Record`, which ends the lease, and that of `Retire`. That race is in the code
(`gate_service.py`, two pool calls, two transactions); `GoldIsSpentOnce` says
that nothing else spends an answer twice.

### IdentityRegistry

A `call` is one request: `Arrive` (the ban list), `Look` (the row as
read), `Insert` and `Evict` or `Upsert`, `_succeed` in its three commits (`Link`
reads whom the key succeeds, `Carry` takes over the oldest first sighting, `Point` marks
them succeeded), `Inherit` (the ban), `Judge`, and for a proof `TakeTurn`, `Prove`, `MarkVerified` or
`MarkFailed`. Each commit is a step but for `Ban`, whose two (the row's `UPDATE` and the list's `INSERT`,
`identity_registry.py:368-375`) are one; the cap on the list (376-382) is left out, so a ban
lasts. `clock` orders first sightings. History: `kin` and `owed` of a
call (whom it succeeds, who of them had failed when it began; a key that
moves to another mailbox meanwhile, or grows older by a succession of its own, is none of these any more), `crossed`
(keys with two requests under way at once) and `overtaken` (keys banned while a
request of theirs was past the ban list). The last two name races the code has -
a certificate of proof of work read before and written after an upgrade takes the mailbox
away again, and `mark_verified` writes over a ban - and the properties say
that nothing else does it. The row keeps the mailbox a key verified last, so a
key that verified two is linked to its kin of the second only, although the
module's text says the token "links every key that ever verified that mailbox"
(`identity_registry.py:36-37`); the properties follow the row.

### WakeStreams

`slots`, `held` and `byIp` are the registry's dictionaries, `clients` is
`_relay_clients`, `stage` the handler of each stream. A handler whose
headers fail to go out dies before its `try` and keeps its slot (`dead`). `slipped`
marks a stream admitted after a proof during which the switch went off: it
lasts to the next turn of the cap loop, and `OffEndsTheSlots` exempts it. A slot that such a proof
lets in past the cap is in the model too, and no property bounds it.

### RelayedChat

`Pusher` is the pass and the immediate push, which share no lock: the check
that nobody else pushes is before an await (`PassWakes`, `Look`). A message stored is noticed
(`Write`) or, with no `LISTEN` connection just then, is not (`WriteUnheard`). `forward` and
`pending` are the relay's futures and `_pending_acks`. A sealing is the message
encrypted once more; a receipt is for one sealing. One relay, one friend, who
has several nodes, some of which do not have the sender as a friend
(`Accepting`). A row is stored once: the look (`chat_service.py:926`) and the insert are one step, as
`ON CONFLICT` leaves a row that came in between alone. The direct path may always fail. The 60 s poll is taken when everything sent
has arrived or is lost; a 10 s timeout with a receipt still on its way counts as
a fault. Messages are numbered in the order they were written, which is the order
of `get_pending_messages` (`ORDER BY m.timestamp`), so a batch is a set and what goes
next is its least (`First`). A sealing is a number too, and a new one is the least not
in use: which one it is cannot be told apart.

*What the pass owes.* The body of `_sync_chat_histories` has no `except`
(`p2p_manager.py:2979-3043`), its task is created once (495) and nothing looks after it. An exception
in it - a connection to the database that cannot be made again (`chat_service.py:188`), a page of
history that does not import (`chat_service.py:730-732`) - is the end of the retries, for every friend, until
the node is started again, although `P2P_NETWORK.md:251-252` says "undelivered messages are
kept and retried every minute". `PassRaises` is that step, `alive` tells whether it was taken, and
`EventuallyDelivered` is owed while the pass lives: without its `\/ ~alive` TLC refutes it. An exception in the
immediate push is caught, and leaves the message to the pass (`PushRaises`).

*History.* A page of the thread, asked for by a node (`Export`) or by the sender
(`Import`), brings messages as well. `Export` marks what it carries before the page is sent
(`sync_server.py:1447-1463`); a page that is lost leaves messages marked and not stored, and `exported`
names them for `DeliveredIsStored` to exempt. The asker's cursor has not moved, so its next pull
brings them. A page that arrives is marked and stored in one step. Left out: the cursor, paging, and the second dedup by time and text of
`import_history`, which is for messages older than uuids.

## Runs

| run | expects | what it shows |
|---|---|---|
| `queue_edits` | pass | `TypeOK`, `SlotsAreDistinct`, `SlotsMeantForThisQueue`, `RunGoesForward`, `EditsDoWhatWasSeen`; `KeepsThePromise`, the refinement |
| `queue_add_overtaken` | violation | `SlotsMeantForThisQueue` with `add` (finding 1) |
| `queue_fillers` | pass | `SlotsAreDistinct`, `RunGoesForward` with "play next" and a swap of outputs; `FillersEnd` under fairness |
| `radio_restart` | violation | `NeverRepeats` when a station is started over (finding 2) |
| `sessions_history` | pass | `ArchivedOnce`, `CardsFitTheirOrigin`, `OpenSessionIsTheQueues` through rollbacks, cuts and crashes |
| `sessions_overtaken` | violation | `SnapshotIsOfItsQueue` (finding 3) |
| `sessions_titles` | violation | `MixKeepsItsName` (finding 4) |
| `listens` | pass | `OneRowPerListen`, `OneListenPerPlay`, `ScrobbledOnce` with one status thread |
| `listens_two_threads` | violation | `NoListenTwice` with two (finding 5) |
| `peer` | pass | gate: `PaidOnce`, `HonestIsNeverBlamed`, `GoldIsSpentOnce`, `VotesAreOfOthers`; identity: `BansStick`, `RebirthKeepsTheBan`, `RebirthKeepsTheAge`, `MailboxIsKept`; wake: `AnnounceLivesWithItsStreams`, `RegistryIsExact`, `OffEndsTheSlots`; two tabs: `OneRenderer`; outputs: `LentIsLeftAlone`, `SwitchGoesOn` |
| `unattended` | pass | chat: `DeliveredIsStored`, `NothingOverlooked`, `EventuallyDelivered`; a tab: `SlotHeals`; a station: `OneFillAtATime`, `NeverRepeats`, `GuardIsReleased` |
| `browser_reconnect` | violation | `ReconnectedInTime` (finding 6) |

Bounds, and why they are enough:

- *Queue.* Two routes, since each property is about one actor overtaken by
  another, and three items: a block of two (`Batch`) and one to come in
  between, two of them the same track so that a removal can hit the wrong slot
  of the right track. `MaxGen` 2: a queue, the next, and a filler of the first
  that meets the second.
  `queue_fillers` has two outputs and one generation, since its subject is what
  happens to a run while its queue stays; `Tries` is the code's 4, cut to 2:
  offered again, and given up.
- *Radio.* Three tracks and batches of two, so that two fills can pick the same
  track; one more fill thread than the guard allows; `MaxGen` 3. In `unattended`
  `MaxStarts` is 1 and one thread ticks, as a second start, and a second such thread, is what breaks
`OneFillAtATime` and `NeverRepeats`; `radio_restart` has one such thread as well, so that its
counterexample is the start's.
- *Sessions.* One route, because routes take turns at the queue lock from
  before the rotation to after the commit, plus the status thread, which does
  not; two sessions, for the archived one and the open one (three where a name
  has to travel through a second play); four plays, one of each origin.
- *Listens.* A whole track, one that ends before 30 s and an excerpt; two plays
  and two listens, since every property but the scrobble relates one listen to
  the next. Deadlock is not checked: with the plays and listens used up a tick
  that would open one more waits for ever.
- *Peer.* Gate: three clients, one of them honest, so that a liar, one who
  agrees with it and one who pays for neither meet; two quotes, two payments at
  one time, two entries, which at the start hold a wrong claim and a seed, a right claim alone,
  or nothing; `Quorum` 1 of the code's 3, so that a claim is promoted
  by one false vote. Identity: a key that moves from proof of work to a mailbox and one that
  succeeds it, two requests, two rows. Wake: three nodes of one
  account and a friend, two addresses, three streams, each limit at 2 or 3 and
  the cap between 1 and 2, so that every limit is reached. Two tabs with a
  stream each, one load and one fault. Outputs: HQPlayer, a renderer, and one that is
  always there; two requests; two slots; an output and two attaches after it, so that a failed attach is followed by another. Deadlock
  is not checked: quotes, rows, loads and attaches of the instance are used up.
- *Unattended.* Chat: two messages, two nodes, a stream that holds one
  envelope (the code's 100), four sealings under way and two faults, so that a
  late receipt can meet a second forward. They are spread over two starts (`ChatStarts`): two messages to one node
  with one fault, and one message to two nodes with both. A tab: two media, one load, one stream at a time (two in
  `browser_reconnect`, where the older one ends late), and one edit or one fault, never both, as `SlotHeals` is
  about what either leaves behind. Deadlock is not checked: with everything delivered, or
  the starts and generations of a station used up, nothing is left to do.

`peer` uses symmetry of quotes and of payments; the same model values stand for
requests, threads, tabs and streams of the other parts, which never meet. `queue_edits` and the two violation runs of queue and radio use symmetry of the routes, or of the
tracks and fill threads: nothing orders them, and no liveness is checked there.

## Fairness

Only liveness needs it, and nobody is ever made to press anything.

- `FillersEnd`: a thread that holds the queue lock goes on (weak fairness of
  `Leave`: the output answers or times out, and the commit is local), and one that wants it gets it in the end
  (strong fairness of `Enter`: Python's `RLock` is not first come, first served,
  but no thread holds it for ever or takes it back in a tight loop).
- `GuardIsReleased`: the threads of a fill, a start and the observer run on. A
  stream that is waited for comes or fails, as `proxy.wait_ready` has a timeout.
- `EventuallyDelivered`: the handlers of sender, relay and nodes run on
  (weak fairness of each), the pass does while its task has not ended by an exception (`alive`), a forward without a receipt times out, and a lost
  subscription is taken up again (`Reopen`). The direct path is never
  assumed to work; faults come to an end.
- `SlotHeals`: what a tab posts arrives unless lost (`Events`), and an element
  that plays goes on firing `timeupdate`, which the browser does. Nothing makes
  a person press a button or a stream open.

## Proofs

Each theorem holds for every value of the constants: any routes, items, plays,
tracks, keys, certificates, nodes, messages, outputs, payments at a time, and any bounds.
Every type invariant, safety invariant and action property of a passing run is stated by
one, the refinement among them; their inductive invariants were checked by TLC before
they were proved.

**Queue** (`PlaybackQueueProofs`, on lemmas about the operators of
`CanonicalQueue`: the slots of a part, of a concatenation, an insertion, a
removal, a clear).

- `TypeCorrect`, from `Sound`: type correctness with what the queue lock
  guarantees between the two steps of a mutation. A route stands in one exactly
  while it holds the lock (`LockDiscipline`), so what its first step checked
  still holds at its second: a generation is left to number the new queue
  (`RoomToNumber`), the place to be removed exists (`PlaceKept`), the queue is
  the sheet the new order was made of (`SheetKept`), and whoever brings items
  still has some (`WorkLeft`). Without them a commit would index outside its sequence.
- `MeantForThisQueue`, from `AllMeant`: a filler's generation is the queue's or
  a past one, and while it is the queue's, what it has left was asked into this
  queue (`GuardsHold`); the step that numbers a new queue makes every other
  filler's generation past (`NewNumberRetires`). Hypothesis `NumberedInTime`:
  nobody asks for a kind whose generation is read after the lock was let go
  (`playlist`, `add`); it is the border between what holds and finding 1.
- `NoItemTwice` (`SlotsAreDistinct`), from `AllApart`: what routes have yet to
  bring is in no queue and in nobody else's plan, however often it is offered.
- `EditsAsSeen`: every commit is the edit the person asked for.
- `ImplementsThePromise`: `PlaybackQueue` implements `QueuePromise`. The initial
  states map, and each step maps to a step of the promise or to none; it needs
  that no filler's generation is ahead of the queue's.
- `RunsGoForward`, from `InOrder`: what a run placed stands before its cursor.
  Hypothesis `NoStationUnderAnAdd`: `radio` and `add` do not both occur. A station's
  clear keeps the current slot, and an add that numbers itself after it goes on
  in a queue that lost its cursor: finding 1 once more.

**Listening sessions** (`ListeningSessionsProofs`, `SessionsAreSound`). The
invariant says who holds what: a route at work holds the queue lock, so one at
most is about to rotate; a transaction that selected the open row holds it until
it is over (`RowIsHeld`), so what it archives is still open, and once
(`SessionsArchiveOnce`). `RoutesRow` is the step after a wait: a route that
finds no row knows that none is open. `OfTheQueue` ties the open row to
the play that made the queue (`OpenSessionFollows`), and `CardsFit` rests on
the snapshot alone. From `SessionsAssumption` and `RowAssumption`: `None` is no
play, title or row.

**Play tracking** (`ListenTrackerProofs`, `TrackerIsSound`). What the thread
read of the listen and the output is still so when it writes, while the output
plays on: a listen to be saved is the open one and has no row (`RowsOf`); one
that ends is not of a play that can still be heard (`EndsWell`); the tick that
opens one is of a play that has none (`BearsWell`). In between, a
play that can be heard has its listen open (`OpenIfHeard`), on its
track (`SameTrack`), and no further than the output stands (`NoLater`) - which is
why a play from the top is told from a correction. Hypothesis `OneThread`: at
most one thread delivers ticks, as with every output but the browser's; with
two, finding 5 breaks it.

**Gate** (`AdmissionGateProofs`). `GateSound`: a nonce is checked by one payment
at a time and burned for good once paid; what the server knows is right and only
a liar's claim is wrong, so who answers truly is never blamed. `Lent` goes on from it: an
entry is lent to one quote and has yet to be settled by one payment at most, of
a client that never had it - except the entries of `regiven`. `GateAssumption`: the pool the node
starts on holds rows as they are minted (an answer of the server's own is right,
no honest client claimed a wrong one), lent to nobody.

**Identity** (`IdentityRegistryProofs`). `RegistrySound` says what a request may
still count on of what it read: that its row is as read (`ReadStands`), that whom
it is to succeed it will find (`KinIsFound`), that the ban and the age it owes arrive
by the time its key is judged (`BanIsCarried`, `AgeIsCarried`), along chains of
any length - each but for the keys of `crossed` and `overtaken`.
`RegistryAssumption`: a certificate names a mailbox exactly if it was verified by
mail (`birth_cert.py:83-93`), and its dates are numbers.

**Wake streams** (`MCPeerProofs`). `WakeSound`: a slot is held by a stream of
a node of its key, one for each node; the counts are the slots'; and what is
announced holds one. `WakeAssumption`: a key holds a stream at least, and
`CapBase <= CapMax`.

**Output switching** (`MCPeerProofs`, `SwitchSound`). `LentIsLeftAlone` rests on
`LentIsOnes`: what is lent is attached to nothing and is one job's, and a request
that was about to command it has met the hold or the lock. `SwitchGoesOn` needs to know
of each request where in `activate` it stands (`Carries`): the spot it read is still the
last one named, or nowhere (`StandsAtLast`); a spot that was said is in the latest
status, or with the change (`SpotIsKept`, which is why a second change before the
new output has spoken is `unsaid`); and an output that inherited the listen
stands where the listen is, or will be told to (`HeirListens`). `excused` is in the
invariant as it is in the property: each part that a race breaks says from which of
the two on it is void. `SwitchAssumption`: there is a slot, what can be lent is an output, and `None` is no request.

**Browser output** (`BrowserOutputProofs`). Two invariants. `BrowserSound`: a tab has one
stream that is not over (`OneStream`), the output holds the open stream of its tab
(`ReconnectedInTime`), and every other tab whose stream is open has the word to let go
on it (`OneRenderer`). The two go together: a takeover tells the stream the output
holds, which is its tab's only because of the former. No play, edit, event
or expired grace changes whose the output is (`KeepsTab`), and what is pushed takes
nothing off a stream (`PushedIs`). Hypothesis `~LateEnds`: the end of a tab's
stream is noticed before its next one opens; without it finding 6 breaks
`ReconnectedInTime`, and a takeover then finds no stream to tell.

`BrowserTyped` needs no such hypothesis. Its type invariant says more than kinds: the
media of a queue stand in distinct slots, a load names the epoch it is of, a stream
that is open has a tab. To be kept it needs that a tab that plays has been
given a load (`FromALoad`), and that an `ended` on its way is of an epoch that has a next one
(`Answerable`). `BrowserAssumption`: `None` is no stream, media or number, and the media are finitely many.

**Chat** (`MCUnattendedProofs`, `ChatSound`). That a message is delivered only once stored
is a chain: a node posts a receipt for what it stored (`ReceiptIsTrue`); the relay hands it to the forward
that waits on that message (`PendingIsOfMessage`); so a forward with a receipt is of a stored message
(`AckedIsHeld`); a pusher waits on one forward at a time, for a sealing of its own (`OneWaits`),
and takes a receipt only of that sealing. No row is ever deleted (`Grows`), so what held when
the receipt was written holds when it is read, whoever restarted meanwhile; a page of history
brings what it marks, or it is exempt (`PageEffect`). `NothingOverlooked`
needs each way a push can go on to keep the word it was given (`GoesOn`, `StillToLook`): at the end of
a batch, refused, answered, or caught. Assumed: messages and sealings are numbers and
`None` is none of either.

**Station** (`MCUnattendedProofs`, `StationSound`). The guard is not a lock: `OneFill` says
that while a fill runs the guard is up, no observer has anything due and the start is
through, so the one who clears it is the one it is up for. `Fresh`: what
the station added is in the played set, except the one entry that is being noted, and no batch holds
a noted track. Hypotheses: `MaxStarts <= 1`, as with a second start finding 2 breaks both, and `OneThread`, that at most one
thread delivers ticks, as two pass the test before either sets the guard. `RadioIsTyped`
is for any number of starts and threads, with `Filled`: a fill that adds or notes an entry has one.

`MCPeerProofs` carries the five parts of `peer` to the node: a behaviour that starts in a
part is one of the part and stays there, so every theorem of a part is one of the
node's; `MCUnattendedProofs` does it for the three parts of `unattended`. `PeerTypeCorrect` and
`UnattendedTypeCorrect` say that in either all variables keep their types. The assumptions of the parts are there one
`ASSUME` each (`PeerAssumption`, `UnattendedAssumption`), which TLC evaluates in `peer` and `unattended`; those of the queue,
sessions, tracker and radio are evaluated in the runs of theirs. The hypotheses that
are about what happens rather than about the constants' kinds (`NumberedInTime`,
`NoStationUnderAnAdd`, `OneThread`, `~LateEnds`, `MaxStarts <= 1`) stand in the theorems, each is met by a run, and
each is the border of a finding.

Only model-checked: liveness, which rests on fairness and so on `ENABLED`, out of this
prover's reach (`FillersEnd`, `GuardIsReleased`, `EventuallyDelivered`, `SlotHeals`); and
the statements that the six violation runs refute, as far as they are not theorems under the hypotheses above
(`SnapshotIsOfItsQueue`, `MixKeepsItsName`).

What the proofs changed in the models. Attempts that failed showed that `Says` of
`OutputSwitch` had two `CASE` arms that both applied to a lost output, so that TLA+ leaves open
which is meant (TLC takes the first, which is the code's), and that
a station needs a generation to be started in (`MaxGen` is not 0). The batch of the chat and the list of
the tab became sets, as nothing depends on more than their least or nearest element. No run
has another number of states for it.

## Disagreements found

1. `queue_add_overtaken` - an add reads its filler's generation after the
   append let the lock go (`player.py:2064`, `_play_segments` alike at 3221); a
   replace in between receives the rest of the old add.
2. `radio_restart` - the exit of a fill clears the guard whoever set it
   (`player.py:3830`): a station started over can get two fills and a track twice.
3. `sessions_overtaken` - the end-of-queue close reads the slots and then
   archives whatever row is open by then (`manager.py:1002`).
4. `sessions_titles` - `title`, the name a new session is to keep, is assigned
   over by the archived card (`sessions.py:198`).
5. `listens_two_threads` - the tracker saves, then drops, relying on one status
   thread (`tracker.py:252`), which the browser output does not have.
6. `browser_reconnect` - the end of a tab's stream lets go of the output whenever
   the tab is the output's (`browser_backend.py:177`), so an older stream noticed late takes
   away the channel of the one the same tab has opened since.

Each is a run with the statement the code makes of itself as its property. Two more are in the
models but have no run: the pass of the chat that an exception ends for good (under `RelayedChat`), and the two threads
that tick and extend one station twice (under `RadioMode`), which is finding 5's cause at another place. Races the
code has and a property exempts by name are told with their modules: `adrift`, `excused`,
`regiven`, `crossed`, `overtaken`, `slipped`, `exported`; so are a slot past the cap and the slot of a handler that died, which
counts as held (`WakeStreams`).

## Not modelled

- Within the modelled parts: preview retirement and re-binding of files, play
  intents and the restore of the queue at boot (`PlaybackQueue`; the restore is
  in `ListeningSessions`), artist lines, covers and sessions rebuilt from
  imported listens (`ListeningSessions`), the columns of a history row and the
  stats derived from them (`ListenTracker`).
- Browser, output switching: see `BrowserOutput` and `OutputSwitch` above.
- Gate: the rate limit and the free quotes, the idle mint of seeds, the
  30-day expiry of rows, the loss of `_seen` at a restart (a quote lives for minutes).
- Identity: contacts, addresses, the cap on bans, the certificates' own checks.
- Wake streams: the other frames on a stream, presence, the DHT announce.
- Chat: more than one relay, the master's mailbox, the paging of the history, key
  rotation, invites.
- HQPlayer, DLNA and local outputs: what they do is bookkeeping against a
  player that is not in this repository; the models take every answer.
- Sync walk and server, slices, DHT, scan and canon, enrichment, backup,
  launcher: no state that several actors contend for but the
  database's rows, which they upsert; they are long rather than intricate.
- Cryptography, SQL ranking, numeric analysis, file and network I/O, the UI.

## Plan

Written and checked: the queue and its promise, radio, sessions, listens, the
switch between outputs, the browser output, gate, identity, wake streams and chat.

Proved: the safety and the types of all of them, with the hypotheses named above, and that the
queue keeps its promise.

Open, and worth a module each:

1. The HQPlayer output's mirror of the queue (`hqp_backend.py`, `hqp_load.py`): a mirror that
   follows commands answered late, against an abstract player; `PlaybackQueue` and
   `ListeningSessions` take every answer of it meanwhile.
2. More than one relay in `RelayedChat`, with the master's mailbox: `AckedIsHeld` and `OneWaits` carry over, `EventuallyDelivered`
   gets a second way to fail.
3. The slots of the sync walk (`sync_walk.py`), if it comes to write rows that others read before it is through.
