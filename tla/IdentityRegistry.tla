-------------------------- MODULE IdentityRegistry --------------------------
(***************************************************************************)
(* The registry of certified peers (desktop/p2p/identity_registry.py): the *)
(* requests that show a certificate (observe), the admission that checks a *)
(* proof of work once (IdentityGate.admit), evidence of a lie, and the     *)
(* succession of one key by another. The peer server's connections commit  *)
(* every statement by itself, and a request is a thread or a coroutine of  *)
(* its own, so whatever a call read may have changed when it writes.       *)
(*                                                                         *)
(* A certificate is a record: its key, its method ("pow" or "email"), the  *)
(* mailbox it was verified on, the key it succeeds, and the anchor that is *)
(* the authority's date of issue.                                          *)
(***************************************************************************)
EXTENDS Integers, FiniteSets

CONSTANTS
    Key,      \* public keys of peers
    Cert,     \* certificates the authority issued
    Call,     \* requests under way at one time
    MaxRows,  \* bound: rows inserted in all
    None

VARIABLES
    identity,   \* p2p_identities: a row for each key, or Unknown
    bans,       \* keys in p2p_node_bans
    call,       \* each request under way
    clock,      \* first_seen_at of the next row
    crossed,    \* history: keys of which two requests were under way at one time
    overtaken   \* history: keys banned while a request of theirs was under way

identityVars == <<identity, bans, call, clock, crossed, overtaken>>

Unknown == [method |-> "none", mail |-> None, anchor |-> 0, status |-> "none",
            first |-> 0, succeededBy |-> None]

Known == {k \in Key : identity[k] # Unknown}

\* was     the method of the row as the call read it
\* linked  the rows it succeeds as it read them; age: the oldest first_seen_at of
\*         theirs; outlawed: one of them had failed or was banned
\* kin     history: keys it succeeds that were known when the call began, and
\*         have neither left their mailbox nor grown older since
\* owed    history: keys it succeeds that had failed when the call began, and
\*         have not left their mailbox since
NoCall == [at |-> "idle", cert |-> None, claims |-> FALSE, was |-> "none",
           linked |-> {}, age |-> 0, outlawed |-> FALSE, kin |-> {}, owed |-> {}]

IdentityInit ==
    /\ identity = [k \in Key |-> Unknown]
    /\ bans = {} /\ clock = 1
    /\ call = [r \in Call |-> NoCall]
    /\ crossed = {} /\ overtaken = {}

Busy == {r \in Call : call[r].at # "idle"}
KeyOf(r) == call[r].cert.key
Of(k) == {r \in Busy : KeyOf(r) = k}

Goto(r, at) == call' = [call EXCEPT ![r].at = at]
Over(r)     == call' = [call EXCEPT ![r] = NoCall]

-----------------------------------------------------------------------------
\* The keys a certificate succeeds here: the one it names, and every other
\* that has the same mailbox.
Linked(cert) ==
    {k \in Known \ {cert.key} :
        \/ k = cert.predecessor
        \/ cert.method = "email" /\ identity[k].mail = cert.mail}

OutlawedWhenFirstSucceeded(k) ==
    identity[k].succeededBy = None /\ (identity[k].status = "failed" \/ k \in bans)
Outlawed(k) == identity[k].status = "failed" \/ k \in bans

\* The ban list is asked first; a banned key gets no further. A mailbox needs
\* no proof, so only a certificate of proof of work has one to check.
AnyKey(k) == TRUE
NotBanned(k) == k \notin bans

Arrive(r, cert, claims) ==
    /\ call[r].at = "idle" /\ NotBanned(cert.key)
    /\ claims => cert.method = "pow"
    /\ call' = [call EXCEPT ![r] =
                   [NoCall EXCEPT !.at = "look", !.cert = cert, !.claims = claims,
                      !.kin = Linked(cert),
                      !.owed = {k \in Linked(cert) : identity[k].status = "failed"}]]
    /\ crossed' = IF Of(cert.key) = {} THEN crossed ELSE crossed \cup {cert.key}
    /\ UNCHANGED <<identity, bans, clock, overtaken>>

\* observe reads the row. Another anchor than the known one is an anomaly.
Look(r) ==
    LET known == identity[KeyOf(r)]
    IN  /\ call[r].at = "look"
        /\ IF known # Unknown /\ known.anchor # call[r].cert.anchor
             THEN Over(r)
             ELSE call' = [call EXCEPT ![r].at = "write", ![r].was = known.method]
        /\ UNCHANGED <<identity, bans, clock, crossed, overtaken>>

\* A key met for the first time. If a row came up meanwhile, the insert fails.
Insert(r) ==
    LET cert == call[r].cert
        k    == cert.key
    IN  /\ call[r].at = "write" /\ call[r].was = "none" /\ clock <= MaxRows
        /\ IF k \in Known
             THEN Over(r) /\ UNCHANGED <<identity, clock>>
             ELSE /\ Goto(r, "evict")
                  /\ identity' = [identity EXCEPT ![k] =
                       [Unknown EXCEPT !.method = cert.method, !.mail = cert.mail, !.anchor = cert.anchor,
                          !.status = IF cert.method = "email" THEN "verified" ELSE "unverified",
                          !.first = clock]]
                  /\ clock' = clock + 1
        /\ UNCHANGED <<bans, crossed, overtaken>>

\* Over the cap the unverified that have not been seen longest go.
Evict(r) ==
    /\ call[r].at = "evict" /\ Goto(r, "link")
    /\ \E gone \in SUBSET {k \in Known : identity[k].status = "unverified"} :
         identity' = [k \in Key |-> IF k \in gone THEN Unknown ELSE identity[k]]
    /\ UNCHANGED <<bans, clock, crossed, overtaken>>

\* A superseded certificate of a key that has a mailbox by now.
NeverStale(r) == FALSE
Stale(r) == call[r].was = "email" /\ call[r].cert.method = "pow"

\* A key that left its mailbox is found by those alone whose certificates name it.
WithoutMoved(c, k) ==
    IF k \in c.kin \cup c.owed /\ k # c.cert.predecessor
    THEN [c EXCEPT !.kin = @ \ {k}, !.owed = @ \ {k}] ELSE c

\* A known key: the row takes the certificate over, unless that is stale. A
\* row evicted meanwhile takes nothing.
Upsert(r) ==
    LET cert    == call[r].cert
        k       == cert.key
        upgrade == call[r].was = "pow" /\ cert.method = "email"
        writes  == ~Stale(r) /\ k \in Known
        moves   == writes /\ identity[k].mail \notin {None, cert.mail}
    IN  /\ call[r].at = "write" /\ call[r].was # "none"
        /\ call' = [c \in Call |->
             IF c = r THEN [call[r] EXCEPT !.at = IF Stale(r) THEN "judge" ELSE "link"]
             ELSE IF moves THEN WithoutMoved(call[c], k) ELSE call[c]]
        /\ identity' = IF ~writes THEN identity
                       ELSE [identity EXCEPT
                               ![k].method = cert.method, ![k].mail = cert.mail,
                               ![k].status = IF upgrade /\ @ # "failed" THEN "verified" ELSE @]
        /\ UNCHANGED <<bans, clock, crossed, overtaken>>

\* _ban: the row fails and the key is listed.
Ban(k) ==
    /\ identity' = [identity EXCEPT ![k] = IF k \in Known THEN [@ EXCEPT !.status = "failed"] ELSE @]
    /\ bans' = bans \cup {k}

\* _succeed reads the linked rows, and whether a ban of theirs is to be inherited,
Link(r) ==
    LET linked == Linked(call[r].cert)
    IN  /\ call[r].at = "link"
        /\ \/ linked = {} /\ Goto(r, "judge")
           \/ \E oldest \in linked :
                /\ \A l \in linked : identity[oldest].first <= identity[l].first
                /\ call' = [call EXCEPT ![r] = [@ EXCEPT !.at = "carry", !.linked = linked,
                              !.age = identity[oldest].first,
                              !.outlawed = \E l \in linked : Outlawed(l)]]
        /\ UNCHANGED <<identity, bans, clock, crossed, overtaken>>

\* carries their age over to the key,
CarriedNothing(first, age) == first
Carried(first, age) == IF age < first THEN age ELSE first

Carry(r) ==
    LET k     == KeyOf(r)
        row   == identity[k]
        older == k \in Known /\ call[r].age < row.first
    IN  /\ call[r].at = "carry"
        /\ call' = [c \in Call |->
             IF c = r THEN [call[r] EXCEPT !.at = "point"]
             ELSE IF older THEN [call[c] EXCEPT !.kin = @ \ {k}] ELSE call[c]]
        /\ identity' = [identity EXCEPT ![k] =
             IF k \in Known THEN [row EXCEPT !.first = Carried(row.first, call[r].age), !.succeededBy = None]
             ELSE @]
        /\ UNCHANGED <<bans, clock, crossed, overtaken>>

\* and points them to their holder.
Point(r) ==
    /\ call[r].at = "point"
    /\ call' = [call EXCEPT ![r] = [@ EXCEPT !.at = IF call[r].outlawed THEN "inherit" ELSE "judge",
                                             !.linked = {}, !.age = 0, !.outlawed = FALSE]]
    /\ identity' = [j \in Key |-> IF j \in Known \cap call[r].linked
                                  THEN [identity[j] EXCEPT !.succeededBy = KeyOf(r)]
                                  ELSE identity[j]]
    /\ UNCHANGED <<bans, clock, crossed, overtaken>>

Inherit(r) ==
    LET k == KeyOf(r)
    IN  /\ call[r].at = "inherit" /\ Goto(r, "judge")
        /\ IF k \in bans THEN UNCHANGED <<identity, bans>> ELSE Ban(k)
        /\ overtaken' = IF Of(k) # {r} THEN overtaken \cup {k} ELSE overtaken
        /\ UNCHANGED <<clock, crossed>>

\* The row is read once more. A request that only shows itself is answered by
\* its status; one that claims admission and is not yet verified proves its
\* work, or is sent away.
Judge(r) ==
    LET status == identity[KeyOf(r)].status
    IN  /\ call[r].at = "judge"
        /\ \/ Over(r)
           \/ call[r].claims /\ status = "unverified"
              /\ call' = [call EXCEPT ![r] = [@ EXCEPT !.at = "queue", !.kin = {}, !.owed = {}]]
        /\ UNCHANGED <<identity, bans, clock, crossed, overtaken>>

Proving == \E r \in Call : call[r].at = "prove"

\* One proof at a time; who waits too long, or finds no memory, is told so.
TakeTurn(r) ==
    /\ call[r].at = "queue" /\ ~Proving
    /\ Goto(r, "prove")
    /\ UNCHANGED <<identity, bans, clock, crossed, overtaken>>

Wait20s(r) ==
    /\ call[r].at = "queue" /\ Proving
    /\ Over(r)
    /\ UNCHANGED <<identity, bans, clock, crossed, overtaken>>

\* The turn ends before its outcome is written.
Prove(r) ==
    /\ call[r].at = "prove"
    /\ Over(r) \/ Goto(r, "good") \/ Goto(r, "bad")
    /\ UNCHANGED <<identity, bans, clock, crossed, overtaken>>

\* mark_verified, whatever the row says by now.
MarkVerified(r) ==
    LET k == KeyOf(r)
    IN  /\ call[r].at = "good" /\ Over(r)
        /\ identity' = [identity EXCEPT ![k] = IF k \in Known THEN [@ EXCEPT !.status = "verified"] ELSE @]
        /\ UNCHANGED <<bans, clock, crossed, overtaken>>

MarkFailed(r) ==
    LET k == KeyOf(r)
    IN  /\ call[r].at = "bad" /\ Over(r) /\ Ban(k)
        /\ overtaken' = IF Of(k) # {r} THEN overtaken \cup {k} ELSE overtaken
        /\ UNCHANGED <<clock, crossed>>

\* The admission gate's evidence: a claim of this key was a lie.
Evidence(k) ==
    /\ k \notin bans /\ Ban(k)
    /\ overtaken' = IF Of(k) # {} THEN overtaken \cup {k} ELSE overtaken
    /\ UNCHANGED <<call, clock, crossed>>

IdentityNext ==
    \/ \E r \in Call :
         \/ \E cert \in Cert, claims \in BOOLEAN : Arrive(r, cert, claims)
         \/ Look(r) \/ Insert(r) \/ Evict(r) \/ Upsert(r)
         \/ Link(r) \/ Carry(r) \/ Point(r) \/ Inherit(r) \/ Judge(r)
         \/ TakeTurn(r) \/ Wait20s(r) \/ Prove(r) \/ MarkVerified(r) \/ MarkFailed(r)
    \/ \E k \in Key : Evidence(k)

IdentitySpec == IdentityInit /\ [][IdentityNext]_identityVars

-----------------------------------------------------------------------------
RowType == [method : {"none", "pow", "email"}, mail : {c.mail : c \in Cert} \cup {None},
            anchor : Nat, status : {"none", "unverified", "verified", "failed"},
            first : 0..MaxRows, succeededBy : Key \cup {None}]

Places == {"idle", "look", "write", "evict", "link", "carry", "point", "inherit", "judge",
           "queue", "prove", "good", "bad"}

CallType == [at : Places, cert : Cert \cup {None}, claims : BOOLEAN,
             was : {"none", "pow", "email"}, linked : SUBSET Key, age : 0..MaxRows,
             outlawed : BOOLEAN, kin : SUBSET Key, owed : SUBSET Key]

\* Every variable holds a value of its kind.
IdentityTypeOK ==
    /\ identity \in [Key -> RowType] /\ bans \subseteq Key
    /\ call \in [Call -> CallType]
    /\ clock \in 1..(MaxRows + 1)
    /\ crossed \subseteq Key /\ overtaken \subseteq Key

\* A banned key's row is failed, whatever it shows or proves afterwards - but
\* for a key banned while a request of its own was past the ban list.
BansStick == \A k \in bans \cap Known : identity[k].status = "failed" \/ k \in overtaken

\* A key that succeeds a banned one is banned by the time its status is looked
\* at, whatever the two went through - but for a banned key two of whose requests
\* crossed, which may have lost its mailbox, and one that left it meanwhile.
RebirthKeepsTheBan ==
    \A r \in Call : call[r].at = "judge" /\ ~(call[r].owed \subseteq crossed)
        => KeyOf(r) \in bans \/ Stale(r)

\* It is as old as what it succeeds by then, with the same exceptions, and but
\* for what has grown older meanwhile by a succession of its own.
RebirthKeepsTheAge ==
    \A r \in Call : call[r].at = "judge" /\ KeyOf(r) \in Known \ crossed /\ ~Stale(r)
        => \A k \in Known \cap (call[r].kin \ crossed) : identity[KeyOf(r)].first <= identity[k].first

\* A key that has a mailbox keeps it: an old certificate does not take it back
\* to proof of work - but for a key two of whose requests crossed.
KeepsTheMailbox ==
    \A k \in Key : identity[k].method = "email" =>
        identity'[k].method = "email" \/ k \in crossed
=============================================================================
