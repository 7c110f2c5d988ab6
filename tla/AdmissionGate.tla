---------------------------- MODULE AdmissionGate ----------------------------
(***************************************************************************)
(* The admission gate of a peer node: quotes, the payments that answer     *)
(* them (desktop/p2p/gate_service.py) and the pool of tasks lent into      *)
(* their packets (desktop/p2p/gate_pool.py). A payment is one coroutine    *)
(* whose database work is a row of transactions of their own, so every     *)
(* commit is a step here, and quotes, sweeps and other payments run in     *)
(* between.                                                                *)
(*                                                                         *)
(* A packet is the tasks a quote asks to be solved: fresh ones, which the  *)
(* server can recompute, and pool entries. Whether an answer is right is   *)
(* all that is kept of it.                                                 *)
(***************************************************************************)
EXTENDS Integers, FiniteSets

CONSTANTS
    Client,      \* peers by their keys; their subnets and mail domains are distinct
    Honest,      \* clients that solve what they are asked
    Nonce,       \* quotes
    Check,       \* payments under way at one time
    Entry,       \* 1..N: rows of the pool that are followed, in id order
    FirstRows,   \* what the pool holds at the start: rows of these ids
    Quorum,      \* votes that promote a claim (the code's SILVER_QUORUM, 3)
    None

VARIABLES
    row,         \* the pool: NoRow before an entry is minted, Gone after it is evicted
    quote,       \* each nonce: its client and packet, and how far the quote is
    late,        \* nonces whose deadline has passed
    seen,        \* _seen: nonces presented and not released
    check,       \* each payment under way
    paid,        \* history: how often each nonce was answered "ok"
    blamed,      \* history: clients noted a failure, or named to on_evidence
    settled,     \* history: the nonces each entry was settled for as first-party gold
    regiven,     \* history: entries leased again between two commits of their settlement
    voters       \* history: the clients whose answers agreed with an entry's claim

gateVars == <<row, quote, late, seen, check, paid, blamed, settled, regiven, voters>>

NoRow == [class |-> "none", origin |-> "none", right |-> TRUE, source |-> None, keys |-> {},
          votes |-> 0, lease |-> None, retired |-> FALSE]

\* mint: a new row, whose source never gets it back.
Minted(class, origin, right, source, keys) ==
    [NoRow EXCEPT !.class = class, !.origin = origin, !.right = right,
                  !.source = source, !.keys = keys]

Gone == [NoRow EXCEPT !.retired = TRUE]

Rows == {e \in Entry : row[e].class # "none"}

NoQuote == [at |-> "unasked", client |-> None, packet |-> {}]

Fresh == 0   \* the fresh tasks of a packet, as one

\* at       where the payment stands
\* wrong    the tasks it answers wrongly: Fresh, or entries
\* held     the entries as they were when their lease was read
\* todo     entries whose settlement is to come; half: the one between commits
\* good     the fresh answers that were sampled held
\* audits   probes that were solved by the server
\* lied     a probe showed the client wrong
NoCheck == [at |-> "idle", nonce |-> None, wrong |-> {}, held |-> [e \in Entry |-> NoRow],
            todo |-> {}, half |-> None, good |-> FALSE, audits |-> {}, lied |-> FALSE]

GateInit ==
    /\ row \in FirstRows
    /\ quote = [n \in Nonce |-> NoQuote]
    /\ late = {} /\ seen = {} /\ blamed = {} /\ regiven = {}
    /\ check = [k \in Check |-> NoCheck]
    /\ paid = [n \in Nonce |-> 0]
    /\ settled = [e \in Entry |-> {}]
    /\ voters = [e \in Entry |-> {}]

-----------------------------------------------------------------------------
\* The pool, one committed transaction each.

AnyGold(r) == r.class = "gold"
FirstParty(r) == r.class = "gold" /\ r.origin # "claim"

\* record_recipient: these keys never get it again, and the lease is over.
RecordedAsLessee(r, c) == [r EXCEPT !.lease = c]
Recorded(r, c) == [r EXCEPT !.keys = @ \cup {c}, !.lease = None]

Retired(r) == IF r.retired THEN r ELSE [r EXCEPT !.retired = TRUE, !.lease = None]

\* silver_vote: at the quorum a claim serves as gold, still of a claim's origin.
Voted(r) == [r EXCEPT !.votes = @ + 1,
                      !.class = IF r.votes + 1 >= Quorum THEN "gold" ELSE @]

\* gild: the server's own answer replaces the claim.
Gilded(r) == [r EXCEPT !.right = TRUE, !.class = "gold", !.origin = "audit"]

\* An update of a row that is gone touches nothing.
Update(e, new) == row' = [row EXCEPT ![e] = IF e \in Rows THEN new ELSE @]

\* What may be lent to a client, and how much of it one packet takes.
FreeToAnyone(c) == {e \in Rows : ~row[e].retired /\ row[e].lease = None}
Free(c) == {e \in Rows : ~row[e].retired /\ row[e].lease = None /\ c \notin row[e].keys}

Packets(c) == {p \in SUBSET Free(c) : /\ Cardinality({e \in p : row[e].class = "gold"}) <= 1
                                      /\ Cardinality({e \in p : row[e].class = "silver"}) <= 2}

-----------------------------------------------------------------------------
\* Quotes. Every fiftieth sweeps the pool first, in two commits of its own.

Stage(n, at) == quote' = [quote EXCEPT ![n].at = at]

\* retire_abandoned: leases of quotes nobody answered in time.
Sweep(n) ==
    /\ quote[n].at = "unasked" /\ Stage(n, "evict")
    /\ row' = [e \in Entry |-> IF row[e].lease \in late THEN Retired(row[e]) ELSE row[e]]
    /\ UNCHANGED <<late, seen, check, paid, blamed, settled, regiven, voters>>

\* evict_over_cap: nothing below the cap, else retired rows first.
Evict(n) ==
    LET gone == {e \in Rows : row[e].retired}
    IN  /\ quote[n].at = "evict" /\ Stage(n, "lease")
        /\ \/ UNCHANGED row
           \/ \E e \in IF gone = {} THEN Rows ELSE gone : row' = [row EXCEPT ![e] = Gone]
        /\ UNCHANGED <<late, seen, check, paid, blamed, settled, regiven, voters>>

\* Entries a settlement under way has recorded and has yet to finish.
Between == {check[k].half : k \in Check}

\* lease, and the signed quote: any free rows within the packet's measure,
\* as the pick is random and skips rows another transaction holds.
Quote(n, c) ==
    /\ quote[n].at \in {"unasked", "lease"}
    /\ \E p \in Packets(c) :
         /\ quote' = [quote EXCEPT ![n] = [at |-> "quoted", client |-> c, packet |-> p]]
         /\ row' = [e \in Entry |-> IF e \in p THEN [row[e] EXCEPT !.lease = n] ELSE row[e]]
         /\ regiven' = regiven \cup (p \cap Between)
    /\ UNCHANGED <<late, seen, check, paid, blamed, settled, voters>>

\* The clock passes the quote's deadline.
PassDeadline(n) ==
    /\ quote[n].at = "quoted" /\ n \notin late
    /\ late' = late \cup {n}
    /\ UNCHANGED <<row, quote, seen, check, paid, blamed, settled, regiven, voters>>

-----------------------------------------------------------------------------
\* Payments.

Client_(k) == quote[check[k].nonce].client
Blame(c) == blamed' = blamed \cup {c}

\* _consume_nonce: once presented, a nonce is refused until it is released.
ConsumeLater(n) == UNCHANGED seen
Consume(n) == seen' = seen \cup {n}
Release(n) == seen' = seen \ {n}

Done(k) == check' = [check EXCEPT ![k] = NoCheck]

\* A packet is presented in time, for the first time or after a release; any
\* other presentation changes nothing.
Present(k, n, wrong) ==
    /\ check[k].at = "idle"
    /\ quote[n].at = "quoted" /\ n \notin late /\ n \notin seen
    /\ quote[n].client \in Honest => wrong = {}
    /\ Consume(n)
    /\ check' = [check EXCEPT ![k] = [NoCheck EXCEPT !.at = "presented", !.nonce = n, !.wrong = wrong]]
    /\ UNCHANGED <<row, quote, late, paid, blamed, settled, regiven, voters>>

Leased(n) == {e \in Entry : row[e].lease = n}

\* The lease is read. A packet that is no longer what was quoted is invalid,
\* and its nonce stays burned.
ReadLease(k) ==
    LET n == check[k].nonce
        p == Leased(n)
    IN  /\ check[k].at = "presented"
        /\ IF p # quote[n].packet THEN Done(k)
           ELSE check' = [check EXCEPT ![k] = [@ EXCEPT !.at = "prefilter", !.todo = p,
                            !.held = [e \in Entry |-> IF e \in p THEN row[e] ELSE NoRow]]]
        /\ UNCHANGED <<row, quote, late, seen, paid, blamed, settled, regiven, voters>>

\* The answer agrees with that of the entry; two wrong ones may differ as well.
Agrees(c, e) == (e \in c.wrong) = ~c.held[e].right
BothWrong(c, e) == e \in c.wrong /\ ~c.held[e].right

\* Answers known to the server are compared. A wrong one fails the packet; a
\* client that answers some wrong may send too few, which fails it as well.
Prefilter(k) ==
    LET c == check[k]
        bad == {e \in c.todo : FirstParty(c.held[e]) /\ ~Agrees(c, e)}
    IN  /\ c.at = "prefilter"
        /\ \/ bad = {} /\ check' = [check EXCEPT ![k].at = "verify"] /\ UNCHANGED blamed
           \/ (bad # {} \/ c.wrong # {})
              /\ check' = [check EXCEPT ![k].at = "used"] /\ Blame(Client_(k))
        /\ UNCHANGED <<row, quote, late, seen, paid, settled, regiven, voters>>

\* No headroom, no turn in time, no memory: the nonce is good again.
Busy(k) ==
    /\ check[k].at = "verify"
    /\ Release(check[k].nonce) /\ Done(k)
    /\ UNCHANGED <<row, quote, late, paid, blamed, settled, regiven, voters>>

\* The probes whose answers differ from their claims.
Disputed(c, unlike) ==
    {e \in c.todo : ~FirstParty(c.held[e]) /\ (~Agrees(c, e) \/ e \in unlike)}

\* A sample of the fresh answers is checked: all of them may be right, or the
\* sample may miss the wrong ones. When it holds, a probe that disagrees with
\* its claim is solved by the server.
Verify(k) ==
    LET c == check[k]
    IN  /\ c.at = "verify"
        /\ \E good \in IF Fresh \in c.wrong THEN BOOLEAN ELSE {TRUE},
              unlike \in SUBSET {e \in c.todo : BothWrong(c, e)} :
             check' = [check EXCEPT ![k] = [c EXCEPT !.at = "sample", !.good = good,
                                            !.audits = IF good THEN Disputed(c, unlike) ELSE {}]]
        /\ UNCHANGED <<row, quote, late, seen, paid, blamed, settled, regiven, voters>>

\* A minted row is followed while there is an id for it, or it is not.
Unborn == {e \in Entry : row[e] = NoRow}
Mint(class, origin, right, c) ==
    \/ UNCHANGED row
    \/ \E e \in Unborn : /\ \A d \in Unborn : e <= d
                         /\ row' = [row EXCEPT ![e] = Minted(class, origin, right, c, {c})]

-----------------------------------------------------------------------------
\* Settlement: the sampled tasks are kept with the server's answers, then
\* entry by entry in id order, two commits each.

Sample(k) ==
    LET c == check[k]
    IN  /\ c.at = "sample"
        /\ Mint("gold", IF c.good THEN "sample" ELSE "garbage", TRUE, Client_(k))
        /\ check' = [check EXCEPT ![k].at = "settle"]
        /\ UNCHANGED <<quote, late, seen, paid, blamed, settled, regiven, voters>>

\* What a settlement has to do to an entry it has recorded.
RetiresTheVerified(c, e) == c.at = "settle" /\ FirstParty(c.held[e])
Retires(c, e) == IF c.at = "used" THEN AnyGold(c.held[e]) ELSE FirstParty(c.held[e])

Record(k) ==
    LET c == check[k]
    IN  /\ c.at \in {"used", "settle"} /\ c.half = None
        /\ \E e \in c.todo :
             /\ \A d \in c.todo : e <= d
             /\ Update(e, Recorded(row[e], Client_(k)))
             /\ check' = [check EXCEPT ![k].todo = @ \ {e},
                                       ![k].half = IF Retires(c, e) \/ c.good THEN e ELSE None]
             /\ settled' = [settled EXCEPT ![e] = IF FirstParty(c.held[e]) THEN @ \cup {c.nonce} ELSE @]
        /\ UNCHANGED <<quote, late, seen, paid, blamed, regiven, voters>>

\* Gold is used up.
Retire(k) ==
    LET c == check[k]
        e == c.half
    IN  /\ e # None /\ Retires(c, e)
        /\ Update(e, Retired(row[e]))
        /\ check' = [check EXCEPT ![k].half = None]
        /\ UNCHANGED <<quote, late, seen, paid, blamed, settled, regiven, voters>>

\* The server's own solution of a probe tells who was wrong: the claim's
\* source, or this client.
Audit(k) ==
    LET c == check[k]
        e == c.half
    IN  /\ e # None /\ e \in c.audits
        /\ Update(e, Gilded(row[e]))
        /\ blamed' = IF c.held[e].right THEN blamed ELSE blamed \cup {c.held[e].source}
        /\ check' = [check EXCEPT ![k].half = None, ![k].lied = @ \/ e \in c.wrong]
        /\ UNCHANGED <<quote, late, seen, paid, settled, regiven, voters>>

\* A vote for the claim. On a row evicted meanwhile it fails, and the payment
\* with it.
Vote(k) ==
    LET c == check[k]
        e == c.half
    IN  /\ e # None /\ ~Retires(c, e) /\ e \notin c.audits
        /\ Update(e, Voted(row[e]))
        /\ voters' = [voters EXCEPT ![e] = IF e \in Rows THEN @ \cup {Client_(k)} ELSE @]
        /\ IF e \notin Rows THEN Done(k) ELSE check' = [check EXCEPT ![k].half = None]
        /\ UNCHANGED <<quote, late, seen, paid, blamed, settled, regiven>>

\* The verdict. A packet that passed leaves claims of its unsampled answers.
Pass(k) ==
    LET c == check[k]
    IN  /\ c.at = "settle" /\ c.todo = {} /\ c.half = None /\ c.good /\ ~c.lied
        /\ \E right \in IF Fresh \in c.wrong THEN BOOLEAN ELSE {TRUE} :
             Mint("silver", "claim", right, Client_(k))
        /\ paid' = [paid EXCEPT ![c.nonce] = @ + 1]
        /\ Done(k)
        /\ UNCHANGED <<quote, late, seen, blamed, settled, regiven, voters>>

Fail(k) ==
    LET c == check[k]
    IN  /\ c.at \in {"used", "settle"} /\ c.todo = {} /\ c.half = None
        /\ c.at = "used" \/ ~c.good \/ c.lied
        /\ Blame(Client_(k)) /\ Done(k)
        /\ UNCHANGED <<row, quote, late, seen, paid, settled, regiven, voters>>

GateNext ==
    \/ \E n \in Nonce :
         \/ Sweep(n) \/ Evict(n) \/ PassDeadline(n)
         \/ \E c \in Client : Quote(n, c)
    \/ \E k \in Check :
         \/ \E n \in Nonce : \E wrong \in SUBSET (quote[n].packet \cup {Fresh}) : Present(k, n, wrong)
         \/ ReadLease(k) \/ Prefilter(k) \/ Busy(k) \/ Verify(k)
         \/ Sample(k) \/ Record(k) \/ Retire(k) \/ Audit(k) \/ Vote(k) \/ Pass(k) \/ Fail(k)

GateSpec == GateInit /\ [][GateNext]_gateVars

-----------------------------------------------------------------------------
RowType == [class : {"none", "gold", "silver"},
            origin : {"none", "seed", "sample", "garbage", "claim", "audit"}, right : BOOLEAN,
            source : Client \cup {None}, keys : SUBSET Client, votes : Nat,
            lease : Nonce \cup {None}, retired : BOOLEAN]

CheckType == [at : {"idle", "presented", "prefilter", "verify", "sample", "used", "settle"},
              nonce : Nonce \cup {None}, wrong : SUBSET (Entry \cup {Fresh}), held : [Entry -> RowType],
              todo : SUBSET Entry, half : Entry \cup {None}, good : BOOLEAN,
              audits : SUBSET Entry, lied : BOOLEAN]

\* Every variable holds a value of its kind.
GateTypeOK ==
    /\ row \in [Entry -> RowType]
    /\ quote \in [Nonce -> [at : {"unasked", "evict", "lease", "quoted"},
                            client : Client \cup {None}, packet : SUBSET Entry]]
    /\ late \subseteq Nonce /\ seen \subseteq Nonce
    /\ check \in [Check -> CheckType]
    /\ paid \in [Nonce -> Nat] /\ blamed \subseteq Client /\ regiven \subseteq Entry
    /\ settled \in [Entry -> SUBSET Nonce] /\ voters \in [Entry -> SUBSET Client]

\* A quote admits once, however many copies of its packet are checked at one
\* time and however often the node was busy in between.
PaidOnce == \A n \in Nonce : paid[n] <= 1

\* A client that solves what it is asked is never failed, nor named as a liar
\* for a claim of its own, whatever false claims others agreed on.
HonestIsNeverBlamed == blamed \cap Honest = {}

\* An answer the server knows is spent on one packet - but for an entry that
\* a quote got hold of between the two commits of its settlement.
GoldIsSpentOnce == \A e \in Entry \ regiven : Cardinality(settled[e]) <= 1

\* The votes of a claim are those of as many distinct clients, none of them
\* its source.
VotesAreOfOthers ==
    \A e \in Rows : row[e].votes > 0 =>
        /\ row[e].votes <= Cardinality(voters[e])
        /\ row[e].source \notin voters[e]
=============================================================================
