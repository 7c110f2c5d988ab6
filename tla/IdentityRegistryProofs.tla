----------------------- MODULE IdentityRegistryProofs -----------------------
(***************************************************************************)
(* Theorems of IdentityRegistry, for any number of keys, certificates,     *)
(* mailboxes and requests at a time.  One invariant, RegistrySound, whose  *)
(* parts say what a request may still count on of what it read before:     *)
(*   RowsSound, CallsSound, ReadStands   what the rows are, and when the   *)
(*                              row read is still the row written;         *)
(*   Shut, OwedStays            what a ban shuts out, and that it stays;   *)
(*   KinIsFound, BanIsCarried, AgeIsCarried   a succession from the moment *)
(*                              the request began to the moment its key is *)
(*                              judged, whatever others do in between.     *)
(***************************************************************************)
EXTENDS IdentityRegistry, TLAPS

-----------------------------------------------------------------------------
\* The constants: None stands for nothing, and a certificate is verified on a
\* mailbox or by proof of work.
RegistryAssumption ==
    /\ None \notin Key \cup Cert
    /\ MaxRows \in Nat
    /\ \A cert \in Cert :
         /\ cert.key \in Key /\ cert.predecessor \in Key \cup {None} /\ cert.anchor \in Nat
         /\ \/ cert.method = "pow" /\ cert.mail = None
            \/ cert.method = "email" /\ cert.mail # None

\* A row has a method, a status and an age; one with a mailbox was verified on
\* it, but for a key two of whose requests crossed; one that failed is banned.
RowsSound ==
    \A k \in Key :
        /\ identity[k] = Unknown \/ identity[k].status # "none"
        /\ identity[k].first < clock
        /\ identity[k].method = "email" <=> identity[k].mail # None
        /\ identity[k].method = "email" /\ identity[k].status = "unverified" => k \in crossed
        /\ identity[k].status = "failed" => k \in bans

\* A request shows a certificate, and two of one key have crossed.
CallsSound ==
    /\ \A r \in Call : IF r \in Busy THEN call[r].cert \in Cert ELSE call[r] = NoCall
    /\ \A q, r \in Busy : q # r /\ KeyOf(q) = KeyOf(r) => KeyOf(r) \in crossed

\* What a request read of its row still stands there when it writes.
ReadStands ==
    \A r \in Call : call[r].at = "write" /\ KeyOf(r) \in Known \ crossed
        => call[r].was = identity[KeyOf(r)].method

\* A banned key has no request past the ban list, but one that banned it itself.
Shut ==
    \A r \in Busy : KeyOf(r) \in bans \ overtaken
        => call[r].at = "judge" /\ identity[KeyOf(r)].status # "unverified"

\* Whom a request is to succeed, it will find.
KinIsFound ==
    \A r \in Call : call[r].at \in {"look", "write", "evict", "link"} =>
        \A j \in (call[r].kin \cup call[r].owed) \ crossed :
            /\ j # KeyOf(r)
            /\ \/ j = call[r].cert.predecessor
               \/ /\ call[r].cert.method = "email" /\ j \in Known
                  /\ identity[j].mail = call[r].cert.mail

\* A failed key stays in the registry, and banned.
OwedStays ==
    \A r \in Call : \A j \in call[r].owed : j \in bans \cap Known /\ identity[j].status # "unverified"

\* A ban it found is inherited before it is judged.
BanIsCarried ==
    \A r \in Call : ~(call[r].owed \subseteq crossed) =>
        /\ call[r].at \in {"carry", "point"} => call[r].outlawed
        /\ call[r].at = "judge" => KeyOf(r) \in bans \/ Stale(r)

\* The age it found is carried over before it is judged.
AgeIsCarried ==
    \A r \in Call :
        /\ call[r].age < clock
        /\ \A j \in Known \cap (call[r].kin \ crossed) :
             /\ call[r].at = "carry" => call[r].age <= identity[j].first
             /\ call[r].at \in {"point", "inherit", "judge"} /\ KeyOf(r) \in Known \ crossed /\ ~Stale(r)
                  => identity[KeyOf(r)].first <= identity[j].first

\* The inductive invariant.
RegistrySound == /\ IdentityTypeOK /\ RowsSound /\ CallsSound /\ ReadStands
                 /\ Shut /\ BansStick /\ KinIsFound /\ OwedStays /\ BanIsCarried /\ AgeIsCarried

-----------------------------------------------------------------------------
\* What one request may do to itself, while the rows keep their mailboxes and ages.
Early == {"look", "write", "evict", "link"}

Advances(q) ==
    /\ call'[q].cert = call[q].cert /\ call'[q].at # "idle" /\ call[q].at # "idle"
    /\ call'[q].age < clock /\ call'[q].owed \subseteq call[q].owed
    /\ KeyOf(q) \in bans' \ overtaken'
         => call'[q].at = "judge" /\ identity'[KeyOf(q)].status # "unverified"
    /\ call'[q].at = "write" /\ KeyOf(q) \in Known \ crossed
         => call'[q].was = identity[KeyOf(q)].method
    /\ call'[q].at \in Early => call[q].at \in Early /\ call'[q].kin \subseteq call[q].kin
    /\ ~(call'[q].owed \subseteq crossed) =>
         /\ call'[q].at \in {"carry", "point"} => call'[q].outlawed
         /\ call'[q].at = "judge" => KeyOf(q) \in bans' \/ Stale(q)'
    /\ \A j \in Known \cap (call'[q].kin \ crossed) :
         /\ call'[q].at = "carry" => call'[q].age <= identity[j].first
         /\ call'[q].at \in {"point", "inherit", "judge"} /\ KeyOf(q) \in Known \ crossed /\ ~Stale(q)'
              => identity[KeyOf(q)].first <= identity[j].first

\* No row and no request.
LEMMA Nothing ==
    /\ NoCall.at = "idle" /\ NoCall.age = 0 /\ NoCall.kin = {} /\ NoCall.owed = {}
    /\ NoCall.linked = {} /\ ~NoCall.outlawed /\ NoCall.was = "none" /\ ~NoCall.claims
    /\ Unknown.status = "none" /\ Unknown.method = "none" /\ Unknown.mail = None /\ Unknown.first = 0
    /\ RegistryAssumption => NoCall \in CallType /\ Unknown \in RowType
BY DEF NoCall, Unknown, CallType, RowType, Places, RegistryAssumption

\* What is known of a request and of the rows.
LEMMA Facts ==
    ASSUME RegistryAssumption, RegistrySound
    PROVE  /\ identity \in [Key -> RowType] /\ call \in [Call -> CallType]
           /\ bans \subseteq Key /\ crossed \subseteq Key /\ overtaken \subseteq Key
           /\ clock \in Nat /\ clock \in 1..(MaxRows + 1) /\ MaxRows \in Nat /\ None \notin Key \cup Cert
           /\ \A k \in Key : k \in Known <=> identity[k].status # "none"
           /\ \A k \in Key : identity[k].first \in Nat
           /\ \A q \in Call : /\ q \in Busy <=> call[q].at # "idle"
                              /\ call[q].at # "idle" =>
                                   /\ call[q].cert \in Cert /\ KeyOf(q) \in Key /\ KeyOf(q) = call[q].cert.key
                                   /\ call[q].cert.method \in {"pow", "email"}
                                   /\ call[q].cert.method = "email" <=> call[q].cert.mail # None
                              /\ call[q].at = "idle" => call[q] = NoCall
                              /\ call[q].kin \subseteq Key /\ call[q].owed \subseteq Key /\ call[q].age \in Nat
<1>1. /\ identity \in [Key -> RowType] /\ call \in [Call -> CallType]
      /\ bans \subseteq Key /\ crossed \subseteq Key /\ overtaken \subseteq Key
      /\ clock \in Nat /\ clock \in 1..(MaxRows + 1) /\ MaxRows \in Nat /\ None \notin Key \cup Cert
  BY DEF RegistrySound, IdentityTypeOK, RegistryAssumption
<1>2. ASSUME NEW k \in Key PROVE (k \in Known <=> identity[k].status # "none") /\ identity[k].first \in Nat
  BY <1>1, Nothing DEF RegistrySound, RowsSound, Known, RowType
<1>3. ASSUME NEW q \in Call
      PROVE  /\ q \in Busy <=> call[q].at # "idle"
             /\ call[q].at # "idle" =>
                  /\ call[q].cert \in Cert /\ KeyOf(q) \in Key /\ KeyOf(q) = call[q].cert.key
                  /\ call[q].cert.method \in {"pow", "email"}
                  /\ call[q].cert.method = "email" <=> call[q].cert.mail # None
             /\ call[q].at = "idle" => call[q] = NoCall
             /\ call[q].kin \subseteq Key /\ call[q].owed \subseteq Key /\ call[q].age \in Nat
  <2>1. q \in Busy <=> call[q].at # "idle"
    BY DEF Busy
  <2>2. (call[q].at # "idle" => call[q].cert \in Cert) /\ (call[q].at = "idle" => call[q] = NoCall)
    BY <2>1 DEF RegistrySound, CallsSound
  <2>3. call[q].kin \subseteq Key /\ call[q].owed \subseteq Key /\ call[q].age \in Nat
    BY <1>1 DEF CallType
  <2> QED BY <2>1, <2>2, <2>3 DEF RegistryAssumption, KeyOf
<1> QED BY <1>1, <1>2, <1>3

\* Requests that go on or end, and bans, leave the invariant as it is.
LEMMA RowsStay ==
    ASSUME RegistryAssumption, RegistrySound, UNCHANGED <<clock, crossed>>,
           bans \subseteq bans', bans' \subseteq Key, overtaken \subseteq overtaken', overtaken' \subseteq Key,
           identity' \in [Key -> RowType], call' \in [Call -> CallType],
           \A j \in Key :
             /\ identity'[j].method = identity[j].method /\ identity'[j].mail = identity[j].mail
             /\ identity'[j].first = identity[j].first
             /\ j \notin Known => identity'[j] = Unknown
             /\ j \in Known => identity'[j].status # "none"
             /\ \/ identity'[j].status = identity[j].status
                \/ identity'[j].status = "verified" /\ (j \in bans' => j \in overtaken')
                \/ identity'[j].status = "failed" /\ j \in bans',
           \A j \in bans' \ bans : j \in Known => identity'[j].status = "failed",
           \A j \in bans' \ bans : \A q \in Call : call'[q] = call[q] /\ q \in Busy /\ KeyOf(q) = j => j \in overtaken',
           \A q \in Call : call'[q] = call[q] \/ call'[q] = NoCall \/ Advances(q)
    PROVE  RegistrySound'
<1>0. Known' = Known
  BY Facts, Nothing DEF Known
<1>1. IdentityTypeOK'
  BY Facts DEF IdentityTypeOK
<1>2. RowsSound'
  BY Facts, Nothing DEF RegistrySound, RowsSound, Known
<1>3. ASSUME NEW q \in Call, call'[q].at # "idle"
      PROVE  /\ call'[q].cert = call[q].cert /\ call[q].at # "idle" /\ KeyOf(q)' = KeyOf(q)
             /\ call'[q] = call[q] \/ Advances(q)
  <2>1. call'[q] = call[q] \/ Advances(q)
    BY <1>3, Nothing
  <2> QED BY <1>3, <2>1 DEF Advances, KeyOf
<1>4. CallsSound'
  BY <1>3, Facts, Nothing DEF RegistrySound, CallsSound, Busy, Advances
<1>5. ReadStands'
  <2> SUFFICES ASSUME NEW q \in Call, call'[q].at = "write", KeyOf(q)' \in Known' \ crossed'
               PROVE  call'[q].was = identity'[KeyOf(q)'].method
    BY DEF ReadStands
  <2>1. /\ KeyOf(q)' = KeyOf(q) /\ call[q].at # "idle" /\ KeyOf(q) \in Known \ crossed
        /\ call'[q] = call[q] \/ Advances(q)
    BY <1>0, <1>3
  <2>2. call'[q].was = identity[KeyOf(q)].method
    BY <2>1 DEF RegistrySound, ReadStands, Advances
  <2> QED BY <2>1, <2>2, Facts
<1>6. Shut'
  BY <1>3, Facts DEF RegistrySound, Shut, Busy, Advances
<1>7. BansStick'
  BY <1>0, Facts DEF RegistrySound, BansStick
<1>8. KinIsFound'
  <2> SUFFICES ASSUME NEW q \in Call, call'[q].at \in Early,
                      NEW j \in (call'[q].kin \cup call'[q].owed) \ crossed
               PROVE  /\ j # KeyOf(q)'
                      /\ \/ j = call'[q].cert.predecessor
                         \/ /\ call'[q].cert.method = "email" /\ j \in Known'
                            /\ identity'[j].mail = call'[q].cert.mail
    BY DEF KinIsFound, Early
  <2>1. /\ KeyOf(q)' = KeyOf(q) /\ call[q].at # "idle" /\ call'[q].cert = call[q].cert
        /\ call'[q] = call[q] \/ Advances(q)
    BY <1>3 DEF Early
  <2>2. call[q].at \in Early /\ j \in (call[q].kin \cup call[q].owed) \ crossed
    BY <2>1 DEF Advances
  <2>3. j \in Key
    BY <2>2, Facts
  <2>4. /\ j # KeyOf(q)
        /\ \/ j = call[q].cert.predecessor
           \/ call[q].cert.method = "email" /\ j \in Known /\ identity[j].mail = call[q].cert.mail
    BY <2>2 DEF RegistrySound, KinIsFound, Early
  <2> QED BY <2>1, <2>3, <2>4, <1>0
<1>9. OwedStays'
  BY <1>0, <1>3, Facts, Nothing DEF RegistrySound, OwedStays, Advances
<1>10. BanIsCarried'
  BY <1>3, Nothing DEF RegistrySound, BanIsCarried, Advances, Stale
<1>11. AgeIsCarried'
  <2> SUFFICES ASSUME NEW q \in Call
               PROVE  /\ call'[q].age < clock
                      /\ \A j \in Known \cap (call'[q].kin \ crossed) :
                           /\ call'[q].at = "carry" => call'[q].age <= identity'[j].first
                           /\ call'[q].at \in {"point", "inherit", "judge"} /\ KeyOf(q)' \in Known \ crossed
                              /\ ~Stale(q)' => identity'[KeyOf(q)'].first <= identity'[j].first
    BY <1>0 DEF AgeIsCarried
  <2>1. CASE call'[q].at = "idle"
    <3>1. call'[q] = NoCall \/ call'[q] = call[q]
      BY <2>1 DEF Advances
    <3>2. call'[q] = NoCall
      BY <3>1, <2>1, Facts
    <3> QED BY <3>2, Nothing, Facts
  <2>2. CASE call'[q].at # "idle"
    <3>1. KeyOf(q)' = KeyOf(q) /\ KeyOf(q) \in Key /\ (call'[q] = call[q] \/ Advances(q))
      BY <2>2, <1>3, Facts
    <3>2. call'[q].kin \subseteq Key /\ Known \subseteq Key
      BY <3>1, Facts DEF CallType, Known
    <3>3. /\ call'[q].age < clock
          /\ \A j \in Known \cap (call'[q].kin \ crossed) :
               /\ call'[q].at = "carry" => call'[q].age <= identity[j].first
               /\ call'[q].at \in {"point", "inherit", "judge"} /\ KeyOf(q) \in Known \ crossed
                  /\ ~Stale(q)' => identity[KeyOf(q)].first <= identity[j].first
      <4>1. CASE call'[q] = call[q]
        <5>1. Stale(q)' <=> Stale(q)
          BY <4>1 DEF Stale
        <5> QED BY <4>1, <5>1 DEF RegistrySound, AgeIsCarried
      <4>2. CASE Advances(q)
        BY <4>2 DEF Advances
      <4> QED BY <3>1, <4>1, <4>2
    <3> QED BY <3>1, <3>2, <3>3
  <2> QED BY <2>1, <2>2
<1> QED BY <1>1, <1>2, <1>4, <1>5, <1>6, <1>7, <1>8, <1>9, <1>10, <1>11 DEF RegistrySound

\* A request that goes on by itself.
LEMMA GoesOn ==
    ASSUME RegistryAssumption, RegistrySound, NEW r \in Call, NEW c \in CallType,
           UNCHANGED <<identity, bans, clock, crossed, overtaken>>,
           call' = [call EXCEPT ![r] = c], c = NoCall \/ Advances(r)
    PROVE  RegistrySound'
<1>1. call' \in [Call -> CallType] /\ call'[r] = c /\ \A q \in Call : q # r => call'[q] = call[q]
  BY Facts
<1>2. \A j \in Key : /\ j \notin Known => identity[j] = Unknown
                     /\ j \in Known => identity[j].status # "none"
  BY Facts DEF Known
<1>3. \A q \in Call : call'[q] = call[q] \/ call'[q] = NoCall \/ Advances(q)
  BY <1>1
<1>4. identity' = identity /\ bans' = bans /\ overtaken' = overtaken /\ clock' = clock /\ crossed' = crossed
  OBVIOUS
<1> QED BY <1>1, <1>2, <1>3, <1>4, Facts, RowsStay

\* A request that ends.
LEMMA Ends ==
    ASSUME RegistryAssumption, RegistrySound, NEW r \in Call,
           UNCHANGED <<identity, bans, clock, crossed, overtaken>>, Over(r)
    PROVE  RegistrySound'
BY GoesOn, Nothing DEF Over

\* What it reads of its row is what it will find when it writes, unless requests cross.
LEMMA LookStep ==
    ASSUME RegistryAssumption, RegistrySound, NEW r \in Call, Look(r)
    PROVE  RegistrySound'
<1>1. CASE Over(r)
  BY <1>1, Ends DEF Look
<1>2. CASE ~Over(r)
  <2> DEFINE c == [call[r] EXCEPT !.at = "write", !.was = identity[KeyOf(r)].method]
  <2>1. /\ call[r].at = "look" /\ call' = [call EXCEPT ![r] = c]
        /\ UNCHANGED <<identity, bans, clock, crossed, overtaken>>
    <3>1. call' = [call EXCEPT ![r].at = "write", ![r].was = identity[KeyOf(r)].method]
      BY <1>2 DEF Look
    <3>2. [call EXCEPT ![r].at = "write", ![r].was = identity[KeyOf(r)].method] = [call EXCEPT ![r] = c]
      BY Facts DEF CallType
    <3> QED BY <3>1, <3>2 DEF Look
  <2>2. KeyOf(r) \in Key /\ call[r] \in CallType /\ call[r].at # "idle"
    BY <2>1, Facts
  <2>3. c \in CallType /\ c.at = "write" /\ c.was = identity[KeyOf(r)].method
        /\ c.cert = call[r].cert /\ c.age = call[r].age /\ c.owed = call[r].owed /\ c.kin = call[r].kin
    <3>1. identity[KeyOf(r)].method \in {"none", "pow", "email"}
      BY <2>2, Facts DEF RowType
    <3> QED BY <2>2, <3>1 DEF CallType, Places
  <2>4. call'[r] = c
    BY <2>1, Facts
  <2> HIDE DEF c
  <2>5. KeyOf(r) \notin bans \ overtaken
    BY <2>1, <2>2, Facts DEF RegistrySound, Shut
  <2>6. call[r].age < clock
    BY DEF RegistrySound, AgeIsCarried
  <2>7. Advances(r)
    BY <2>1, <2>3, <2>4, <2>5, <2>6 DEF Advances, Early
  <2> QED BY <2>1, <2>3, <2>7, GoesOn
<1> QED BY <1>1, <1>2

\* What is left of Advances for a request that goes on elsewhere than to a judgement.
LEMMA GoesElsewhere ==
    ASSUME RegistryAssumption, RegistrySound, NEW r \in Call, call[r].at \notin {"idle", "judge"},
           UNCHANGED <<identity, bans, clock, crossed, overtaken>>,
           call'[r].cert = call[r].cert, call'[r].age < clock, call'[r].owed \subseteq call[r].owed,
           call'[r].at \notin {"idle", "write", "carry", "point", "inherit", "judge"} \cup Early
    PROVE  Advances(r)
<1>1. KeyOf(r) \notin bans \ overtaken
  BY Facts DEF RegistrySound, Shut
<1> QED BY <1>1 DEF Advances

\* A proof of work waits, runs and ends without a word to the registry.
LEMMA ProofStep ==
    ASSUME RegistryAssumption, RegistrySound, NEW r \in Call, TakeTurn(r) \/ Wait20s(r) \/ Prove(r)
    PROVE  RegistrySound'
<1>0. UNCHANGED <<identity, bans, clock, crossed, overtaken>> /\ call[r].at \in {"queue", "prove"}
  BY DEF TakeTurn, Wait20s, Prove
<1>1. CASE Over(r)
  BY <1>0, <1>1, Ends
<1>2. ASSUME NEW to \in {"prove", "good", "bad"}, Goto(r, to) PROVE RegistrySound'
  <2> DEFINE c == [call[r] EXCEPT !.at = to]
  <2>1. call' = [call EXCEPT ![r] = c]
    BY <1>2 DEF Goto
  <2>2. c \in CallType /\ c.at = to /\ c.cert = call[r].cert /\ c.age = call[r].age /\ c.owed = call[r].owed
    BY Facts DEF CallType, Places
  <2>3. call'[r] = c
    BY <2>1, Facts
  <2> HIDE DEF c
  <2>4. call[r].age < clock
    BY DEF RegistrySound, AgeIsCarried
  <2>5. Advances(r)
    <3>1. call'[r].cert = call[r].cert /\ call'[r].age < clock /\ call'[r].owed \subseteq call[r].owed
      BY <2>2, <2>3, <2>4
    <3>2. call'[r].at \notin {"idle", "write", "carry", "point", "inherit", "judge"} \cup Early
      BY <2>2, <2>3 DEF Early
    <3> QED BY <1>0, <3>1, <3>2, GoesElsewhere
  <2> QED BY <1>0, <2>1, <2>2, <2>5, GoesOn
<1> QED BY <1>1, <1>2 DEF TakeTurn, Wait20s, Prove

\* A verdict ends the request, or it goes on to prove its work, its succession behind it.
LEMMA JudgeStep ==
    ASSUME RegistryAssumption, RegistrySound, NEW r \in Call, Judge(r)
    PROVE  RegistrySound'
<1>0. UNCHANGED <<identity, bans, clock, crossed, overtaken>> /\ call[r].at = "judge"
  BY DEF Judge
<1>1. CASE Over(r)
  BY <1>0, <1>1, Ends
<1>2. CASE ~Over(r)
  <2> DEFINE c == [call[r] EXCEPT !.at = "queue", !.kin = {}, !.owed = {}]
  <2>1. call' = [call EXCEPT ![r] = c] /\ identity[KeyOf(r)].status = "unverified"
    BY <1>2 DEF Judge
  <2>2. c \in CallType /\ c.at = "queue" /\ c.cert = call[r].cert /\ c.age = call[r].age
        /\ c.owed = {} /\ c.kin = {}
    <3>1. call[r] \in CallType /\ {} \in SUBSET Key
      BY Facts
    <3> QED BY <3>1 DEF CallType, Places
  <2>3. call'[r] = c
    BY <2>1, Facts
  <2> HIDE DEF c
  <2>4. KeyOf(r) \notin bans \ overtaken
    BY <1>0, <2>1, Facts DEF RegistrySound, Shut
  <2>5. call[r].age < clock
    BY DEF RegistrySound, AgeIsCarried
  <2>6. Advances(r)
    BY <1>0, <2>2, <2>3, <2>4, <2>5 DEF Advances, Early
  <2> QED BY <1>0, <2>1, <2>2, <2>6, GoesOn
<1> QED BY <1>1, <1>2

\* The rows a request reads hold all it is to succeed.
LEMMA LinkStep ==
    ASSUME RegistryAssumption, RegistrySound, NEW r \in Call, Link(r)
    PROVE  RegistrySound'
<1> DEFINE linked == Linked(call[r].cert)
<1>0. /\ UNCHANGED <<identity, bans, clock, crossed, overtaken>> /\ call[r].at = "link"
      /\ KeyOf(r) \in Key /\ call[r] \in CallType /\ call[r].cert.key = KeyOf(r)
  BY Facts DEF Link
<1>1. ASSUME NEW j \in Known, j \in (call[r].kin \cup call[r].owed) \ crossed PROVE j \in linked
  <2>1. j # KeyOf(r)
        /\ (j = call[r].cert.predecessor
            \/ (call[r].cert.method = "email" /\ identity[j].mail = call[r].cert.mail))
    BY <1>0, <1>1 DEF RegistrySound, KinIsFound
  <2> QED BY <1>0, <2>1 DEF Linked
<1>2. KeyOf(r) \notin bans \ overtaken
  BY <1>0, Facts DEF RegistrySound, Shut
<1>3. linked \subseteq Known /\ linked \subseteq Key
  BY DEF Linked, Known
<1>4. call[r].age < clock
  BY DEF RegistrySound, AgeIsCarried
<1>5. call[r].owed \subseteq Known /\ call[r].owed \subseteq bans
  BY DEF RegistrySound, OwedStays
<1> HIDE DEF linked
<1>6. CASE linked = {} /\ Goto(r, "judge")
  <2> DEFINE c == [call[r] EXCEPT !.at = "judge"]
  <2>1. call' = [call EXCEPT ![r] = c]
    BY <1>6 DEF Goto
  <2>2. c \in CallType /\ c.at = "judge" /\ c.cert = call[r].cert /\ c.age = call[r].age
        /\ c.owed = call[r].owed /\ c.kin = call[r].kin
    BY Facts DEF CallType, Places
  <2>3. call'[r] = c
    BY <2>1, Facts
  <2> HIDE DEF c
  <2>4. call[r].owed \subseteq crossed /\ \A j \in Known : j \notin call[r].kin \ crossed
    BY <1>1, <1>5, <1>6
  <2>5. Advances(r)
    BY <1>0, <1>2, <1>4, <2>2, <2>3, <2>4 DEF Advances, Early
  <2> QED BY <1>0, <2>1, <2>2, <2>5, GoesOn
<1>7. CASE \E oldest \in linked :
             /\ \A l \in linked : identity[oldest].first <= identity[l].first
             /\ call' = [call EXCEPT ![r] = [@ EXCEPT !.at = "carry", !.linked = linked,
                           !.age = identity[oldest].first, !.outlawed = \E l \in linked : Outlawed(l)]]
  <2>1. PICK oldest \in linked :
             /\ \A l \in linked : identity[oldest].first <= identity[l].first
             /\ call' = [call EXCEPT ![r] = [@ EXCEPT !.at = "carry", !.linked = linked,
                           !.age = identity[oldest].first, !.outlawed = \E l \in linked : Outlawed(l)]]
    BY <1>7
  <2> DEFINE age == identity[oldest].first
             out == \E l \in linked : Outlawed(l)
  <2>2. age \in 0..MaxRows /\ age < clock
    BY <1>3, Facts DEF RegistrySound, RowsSound, RowType
  <2>3. out \in BOOLEAN
    OBVIOUS
  <2>4. ~(call[r].owed \subseteq crossed) => out
    BY <1>1, <1>5 DEF Outlawed
  <2>5. \A j \in Known \cap (call[r].kin \ crossed) : age <= identity[j].first
    BY <1>1, <2>1
  <2> HIDE DEF age, out
  <2> DEFINE c == [call[r] EXCEPT !.at = "carry", !.linked = linked, !.age = age, !.outlawed = out]
  <2>6. call' = [call EXCEPT ![r] = c]
    BY <2>1 DEF age, out
  <2>7. c \in CallType /\ c.at = "carry" /\ c.cert = call[r].cert /\ c.age = age /\ c.outlawed = out
        /\ c.owed = call[r].owed /\ c.kin = call[r].kin
    BY <1>0, <1>3, <2>2, <2>3 DEF CallType, Places
  <2>8. call'[r] = c
    BY <2>6, Facts
  <2> HIDE DEF c
  <2>9. Advances(r)
    BY <1>0, <1>2, <2>2, <2>4, <2>5, <2>7, <2>8 DEF Advances, Early
  <2> QED BY <1>0, <2>6, <2>7, <2>9, GoesOn
<1> QED BY <1>6, <1>7 DEF Link, linked

\* A failing insert ends the request, and a new row is one its key alone has asked for.
LEMMA InsertStep ==
    ASSUME RegistryAssumption, RegistrySound, NEW r \in Call, Insert(r)
    PROVE  RegistrySound'
<1> DEFINE k == KeyOf(r)
           cert == call[r].cert
           row == [Unknown EXCEPT !.method = cert.method, !.mail = cert.mail, !.anchor = cert.anchor,
                     !.status = IF cert.method = "email" THEN "verified" ELSE "unverified", !.first = clock]
           c == [call[r] EXCEPT !.at = "evict"]
<1>1. CASE k \in Known
  BY <1>1, Ends DEF Insert, KeyOf
<1>2. CASE k \notin Known
  <2>1. /\ call[r].at = "write" /\ call[r].was = "none" /\ clock <= MaxRows
        /\ call' = [call EXCEPT ![r] = c] /\ identity' = [identity EXCEPT ![k] = row]
        /\ clock' = clock + 1 /\ UNCHANGED <<bans, crossed, overtaken>>
    BY <1>2 DEF Insert, Goto, KeyOf
  <2>2. /\ k \in Key /\ cert \in Cert /\ cert.method \in {"pow", "email"}
        /\ cert.method = "email" <=> cert.mail # None
        /\ cert.mail \in {x.mail : x \in Cert} /\ cert.anchor \in Nat /\ clock \in Nat /\ clock \in 0..MaxRows
    BY <2>1, Facts DEF RegistryAssumption
  <2>3. k \notin bans \ overtaken
    BY <2>1, <2>2, Facts DEF RegistrySound, Shut
  <2>4. row \in RowType /\ row.method = cert.method /\ row.mail = cert.mail /\ row.first = clock
        /\ row.status = (IF cert.method = "email" THEN "verified" ELSE "unverified")
    BY <2>2, Nothing DEF RowType, Unknown
  <2>5. c \in CallType /\ c.at = "evict" /\ c.cert = cert /\ c.age = call[r].age /\ c.was = call[r].was
        /\ c.owed = call[r].owed /\ c.kin = call[r].kin
    BY Facts DEF CallType, Places
  <2> HIDE DEF row, c
  <2>6. call' \in [Call -> CallType] /\ call'[r] = c /\ \A q \in Call : q # r => call'[q] = call[q]
    BY <2>1, <2>5, Facts
  <2>7. identity' \in [Key -> RowType] /\ identity'[k] = row /\ \A j \in Key : j # k => identity'[j] = identity[j]
    BY <2>1, <2>2, <2>4, Facts
  <2>8. row # Unknown /\ row.status # "none" /\ row.status # "failed"
    BY <2>4, Nothing
  <2>9. Known' = Known \cup {k}
    BY <2>2, <2>7, <2>8 DEF Known
  <2>10. \A q \in Call : /\ call'[q].cert = call[q].cert /\ call'[q].age = call[q].age
                         /\ call'[q].owed = call[q].owed /\ call'[q].kin = call[q].kin
                         /\ call'[q].at = "idle" <=> call[q].at = "idle"
                         /\ KeyOf(q)' = KeyOf(q)
    BY <2>1, <2>5, <2>6 DEF KeyOf
  <2>11. IdentityTypeOK'
    BY <2>1, <2>2, <2>6, <2>7, Facts DEF IdentityTypeOK
  <2>12. RowsSound'
    <3> SUFFICES ASSUME NEW j \in Key
                 PROVE  /\ identity'[j] = Unknown \/ identity'[j].status # "none"
                        /\ identity'[j].first < clock'
                        /\ identity'[j].method = "email" <=> identity'[j].mail # None
                        /\ identity'[j].method = "email" /\ identity'[j].status = "unverified" => j \in crossed'
                        /\ identity'[j].status = "failed" => j \in bans'
      BY DEF RowsSound
    <3>1. CASE j = k
      BY <2>1, <2>2, <2>4, <2>7, <2>8, <3>1
    <3>2. CASE j # k
      BY <2>1, <2>2, <2>7, <3>2, Facts DEF RegistrySound, RowsSound
    <3> QED BY <3>1, <3>2
  <2>13. CallsSound'
    BY <2>1, <2>6, <2>10, Facts DEF RegistrySound, CallsSound, Busy
  <2>14. ReadStands'
    <3> SUFFICES ASSUME NEW q \in Call, call'[q].at = "write", KeyOf(q)' \in Known' \ crossed'
                 PROVE  call'[q].was = identity'[KeyOf(q)'].method
      BY DEF ReadStands
    <3>1. q # r /\ call'[q] = call[q] /\ KeyOf(q)' = KeyOf(q) /\ KeyOf(q) \notin crossed
      BY <2>1, <2>5, <2>6, <2>10
    <3>2. KeyOf(q) # k
      BY <2>1, <3>1, Facts DEF RegistrySound, CallsSound
    <3> QED BY <2>1, <2>7, <2>9, <3>1, <3>2, Facts DEF RegistrySound, ReadStands
  <2>15. Shut'
    BY <2>1, <2>3, <2>5, <2>6, <2>7, <2>10, Facts DEF RegistrySound, Shut, Busy
  <2>16. BansStick'
    <3>1. \A j \in bans \cap Known' : j # k => j \in Known
      BY <2>9
    <3> QED BY <2>1, <2>3, <2>7, <3>1, Facts DEF RegistrySound, BansStick
  <2>17. KinIsFound'
    <3> SUFFICES ASSUME NEW q \in Call, call'[q].at \in Early,
                        NEW j \in (call'[q].kin \cup call'[q].owed) \ crossed
                 PROVE  /\ j # KeyOf(q)'
                        /\ \/ j = call'[q].cert.predecessor
                           \/ /\ call'[q].cert.method = "email" /\ j \in Known'
                              /\ identity'[j].mail = call'[q].cert.mail
      BY <2>1 DEF KinIsFound, Early
    <3>1. call[q].at \in Early /\ j \in Key
      BY <2>1, <2>6, <2>10, Facts DEF Early
    <3>2. /\ j # KeyOf(q)
          /\ \/ j = call[q].cert.predecessor
             \/ call[q].cert.method = "email" /\ j \in Known /\ identity[j].mail = call[q].cert.mail
      BY <2>10, <3>1 DEF RegistrySound, KinIsFound, Early
    <3> QED BY <1>2, <2>7, <2>9, <2>10, <3>1, <3>2
  <2>18. OwedStays'
    <3> SUFFICES ASSUME NEW q \in Call, NEW j \in call'[q].owed
                 PROVE  j \in bans' \cap Known' /\ identity'[j].status # "unverified"
      BY DEF OwedStays
    <3>1. j \in bans \cap Known /\ identity[j].status # "unverified" /\ j \in Key
      BY <2>10, Facts DEF RegistrySound, OwedStays
    <3> QED BY <1>2, <2>1, <2>7, <2>9, <3>1
  <2>19. BanIsCarried'
    <3> SUFFICES ASSUME NEW q \in Call, ~(call'[q].owed \subseteq crossed)
                 PROVE  /\ call'[q].at \in {"carry", "point"} => call'[q].outlawed
                        /\ call'[q].at = "judge" => KeyOf(q)' \in bans' \/ Stale(q)'
      BY <2>1 DEF BanIsCarried
    <3>1. CASE q = r
      BY <2>5, <2>6, <3>1
    <3>2. CASE q # r
      <4>1. call'[q] = call[q] /\ KeyOf(q)' = KeyOf(q) /\ (Stale(q)' <=> Stale(q))
        BY <2>6, <2>10, <3>2 DEF Stale
      <4> QED BY <2>1, <4>1 DEF RegistrySound, BanIsCarried
    <3> QED BY <3>1, <3>2
  <2>20. AgeIsCarried'
    <3> SUFFICES ASSUME NEW q \in Call
                 PROVE  /\ call'[q].age < clock'
                        /\ \A j \in Known' \cap (call'[q].kin \ crossed') :
                             /\ call'[q].at = "carry" => call'[q].age <= identity'[j].first
                             /\ call'[q].at \in {"point", "inherit", "judge"} /\ KeyOf(q)' \in Known' \ crossed'
                                /\ ~Stale(q)' => identity'[KeyOf(q)'].first <= identity'[j].first
      BY DEF AgeIsCarried
    <3>1. call'[q].age < clock'
      BY <2>1, <2>2, <2>10, Facts DEF RegistrySound, AgeIsCarried
    <3>2. ASSUME NEW j \in Known' \cap (call'[q].kin \ crossed'), call'[q].at = "carry"
          PROVE  call'[q].age <= identity'[j].first
      <4>1. q # r /\ call'[q] = call[q] /\ j \in Key /\ j \in call[q].kin \ crossed /\ call[q].age < clock
            /\ call[q].age \in Nat
        BY <2>1, <2>5, <2>6, <2>10, <3>2, Facts DEF RegistrySound, AgeIsCarried
      <4>2. CASE j = k
        BY <2>2, <2>4, <2>7, <4>1, <4>2
      <4>3. CASE j # k
        BY <2>7, <2>9, <3>2, <4>1, <4>3 DEF RegistrySound, AgeIsCarried
      <4> QED BY <4>2, <4>3
    <3>3. ASSUME NEW j \in Known' \cap (call'[q].kin \ crossed'), call'[q].at \in {"point", "inherit", "judge"},
                 KeyOf(q)' \in Known' \ crossed', ~Stale(q)'
          PROVE  identity'[KeyOf(q)'].first <= identity'[j].first
      <4>1. q # r /\ call'[q] = call[q] /\ j \in Key /\ j \in call[q].kin \ crossed /\ ~Stale(q) /\ KeyOf(q)' = KeyOf(q)
            /\ KeyOf(q) \in Key /\ KeyOf(q) \notin crossed
        BY <2>1, <2>5, <2>6, <2>10, <3>3, Facts DEF Stale
      <4>2. KeyOf(q) # k
        BY <2>1, <3>3, <4>1, Facts DEF RegistrySound, CallsSound
      <4>3. KeyOf(q) \in Known /\ identity'[KeyOf(q)] = identity[KeyOf(q)]
        BY <2>7, <2>9, <3>3, <4>1, <4>2
      <4>4. CASE j = k
        BY <2>2, <2>4, <2>7, <4>1, <4>3, <4>4, Facts DEF RegistrySound, RowsSound
      <4>5. CASE j # k
        BY <2>7, <2>9, <3>3, <4>1, <4>3, <4>5 DEF RegistrySound, AgeIsCarried
      <4> QED BY <4>4, <4>5
    <3> QED BY <3>1, <3>2, <3>3
  <2> QED BY <2>11, <2>12, <2>13, <2>14, <2>15, <2>16, <2>17, <2>18, <2>19, <2>20 DEF RegistrySound
<1> QED BY <1>1, <1>2

\* The row of a banned key fails, and nothing else of the rows changes.
LEMMA BanRows ==
    ASSUME RegistryAssumption, RegistrySound, NEW k \in Key, Ban(k)
    PROVE  /\ bans' = bans \cup {k} /\ identity' \in [Key -> RowType]
           /\ \A j \in Key :
                /\ identity'[j].method = identity[j].method /\ identity'[j].mail = identity[j].mail
                /\ identity'[j].first = identity[j].first
                /\ j \notin Known => identity'[j] = Unknown
                /\ j \in Known => identity'[j].status # "none"
                /\ \/ identity'[j].status = identity[j].status
                   \/ identity'[j].status = "failed" /\ j \in bans'
           /\ k \in Known => identity'[k].status = "failed"
<1> DEFINE row == IF k \in Known THEN [identity[k] EXCEPT !.status = "failed"] ELSE identity[k]
<1>1. bans' = bans \cup {k} /\ identity' = [identity EXCEPT ![k] = row]
  BY DEF Ban
<1>2. row \in RowType /\ row.method = identity[k].method /\ row.mail = identity[k].mail /\ row.first = identity[k].first
      /\ (k \notin Known => row = Unknown /\ row.status = identity[k].status) /\ (k \in Known => row.status = "failed")
  BY Facts DEF RowType, Known
<1> HIDE DEF row
<1>3. identity' \in [Key -> RowType] /\ identity'[k] = row /\ \A j \in Key : j # k => identity'[j] = identity[j]
  BY <1>1, <1>2, Facts
<1>4. \A j \in Key : (j \notin Known => identity[j] = Unknown) /\ (j \in Known => identity[j].status # "none")
  BY Facts DEF Known
<1> QED BY <1>1, <1>2, <1>3, <1>4

\* The rows that point to their holder keep all else.
LEMMA PointStep ==
    ASSUME RegistryAssumption, RegistrySound, NEW r \in Call, Point(r)
    PROVE  RegistrySound'
<1> DEFINE to == IF call[r].outlawed THEN "inherit" ELSE "judge"
           c == [call[r] EXCEPT !.at = to, !.linked = {}, !.age = 0, !.outlawed = FALSE]
<1>1. /\ call[r].at = "point" /\ call' = [call EXCEPT ![r] = c] /\ UNCHANGED <<bans, clock, crossed, overtaken>>
      /\ identity' = [j \in Key |-> IF j \in Known \cap call[r].linked
                                    THEN [identity[j] EXCEPT !.succeededBy = KeyOf(r)] ELSE identity[j]]
  BY DEF Point
<1>2. KeyOf(r) \in Key /\ call[r] \in CallType
  BY <1>1, Facts
<1>3. c \in CallType /\ c.at = to /\ c.cert = call[r].cert /\ c.age = 0
      /\ c.owed = call[r].owed /\ c.kin = call[r].kin /\ c.was = call[r].was
  <2>1. {} \in SUBSET Key /\ 0 \in 0..MaxRows
    BY Facts
  <2> QED BY <1>2, <2>1 DEF CallType, Places
<1>4. call' \in [Call -> CallType] /\ call'[r] = c /\ \A q \in Call : q # r => call'[q] = call[q]
  BY <1>1, <1>3, Facts
<1> HIDE DEF c
<1>5. ASSUME NEW j \in Key
      PROVE  /\ identity'[j] \in RowType
             /\ identity'[j].method = identity[j].method /\ identity'[j].mail = identity[j].mail
             /\ identity'[j].first = identity[j].first /\ identity'[j].status = identity[j].status
             /\ j \notin Known => identity'[j] = Unknown
             /\ j \in Known => identity'[j].status # "none"
  BY <1>1, <1>2, Facts DEF RowType, Known
<1>6. identity' \in [Key -> RowType]
  BY <1>1, <1>5
<1>7. KeyOf(r) \notin bans \ overtaken
  BY <1>1, <1>2, Facts DEF RegistrySound, Shut
<1>8. call'[r].at \in {"inherit", "judge"} /\ call'[r].cert = call[r].cert /\ (Stale(r)' <=> Stale(r))
      /\ (call'[r].at = "judge" => ~call[r].outlawed)
  BY <1>3, <1>4 DEF Stale
<1>9. Advances(r)
  <2>1. call'[r].age < clock /\ call'[r].owed = call[r].owed /\ call'[r].kin = call[r].kin
    BY <1>3, <1>4, Facts
  <2>2. ~(call'[r].owed \subseteq crossed) /\ call'[r].at = "judge" => KeyOf(r) \in bans'
    BY <1>1, <1>8, <2>1 DEF RegistrySound, BanIsCarried
  <2>3. \A j \in Known \cap (call'[r].kin \ crossed) :
           KeyOf(r) \in Known \ crossed /\ ~Stale(r)' => identity[KeyOf(r)].first <= identity[j].first
    BY <1>1, <1>8, <2>1 DEF RegistrySound, AgeIsCarried
  <2> QED BY <1>1, <1>7, <1>8, <2>1, <2>2, <2>3 DEF Advances, Early
<1> QED
  <2>1. \A q \in Call : call'[q] = call[q] \/ call'[q] = NoCall \/ Advances(q)
    BY <1>4, <1>9
  <2> QED BY <1>1, <1>4, <1>5, <1>6, <2>1, Facts, RowsStay

\* A key that is verified late may be one that was banned meanwhile.
LEMMA MarkVerifiedStep ==
    ASSUME RegistryAssumption, RegistrySound, NEW r \in Call, MarkVerified(r)
    PROVE  RegistrySound'
<1> DEFINE k == KeyOf(r)
           row == IF k \in Known THEN [identity[k] EXCEPT !.status = "verified"] ELSE identity[k]
<1>1. /\ call[r].at = "good" /\ call' = [call EXCEPT ![r] = NoCall] /\ UNCHANGED <<bans, clock, crossed, overtaken>>
      /\ identity' = [identity EXCEPT ![k] = row]
  BY DEF MarkVerified, Over
<1>2. k \in Key /\ k \notin bans \ overtaken
  BY <1>1, Facts DEF RegistrySound, Shut
<1>3. row \in RowType /\ row.method = identity[k].method /\ row.mail = identity[k].mail /\ row.first = identity[k].first
      /\ (k \notin Known => row = Unknown /\ row.status = identity[k].status)
      /\ (k \in Known => row.status = "verified")
  BY <1>2, Facts DEF RowType, Known
<1> HIDE DEF row
<1>4. identity' \in [Key -> RowType] /\ identity'[k] = row /\ \A j \in Key : j # k => identity'[j] = identity[j]
  BY <1>1, <1>2, <1>3, Facts
<1>5. \A j \in Key : (j \notin Known => identity[j] = Unknown) /\ (j \in Known => identity[j].status # "none")
  BY Facts DEF Known
<1>6. call' \in [Call -> CallType] /\ \A q \in Call : call'[q] = call[q] \/ call'[q] = NoCall
  BY <1>1, Facts, Nothing
<1>7. \A j \in Key :
         /\ identity'[j].method = identity[j].method /\ identity'[j].mail = identity[j].mail
         /\ identity'[j].first = identity[j].first
         /\ j \notin Known => identity'[j] = Unknown
         /\ j \in Known => identity'[j].status # "none"
         /\ \/ identity'[j].status = identity[j].status
            \/ identity'[j].status = "verified" /\ (j \in bans' => j \in overtaken')
  BY <1>1, <1>2, <1>3, <1>4, <1>5
<1> QED BY <1>1, <1>4, <1>6, <1>7, Facts, RowsStay

\* A ban leaves the invariant as it is, if requests of the key under way are noted.
LEMMA BanStep ==
    ASSUME RegistryAssumption, RegistrySound, NEW k \in Key, Ban(k),
           overtaken \subseteq overtaken', overtaken' \subseteq Key, UNCHANGED <<clock, crossed>>,
           call' \in [Call -> CallType],
           \A q \in Call : call'[q] = call[q] \/ call'[q] = NoCall \/ Advances(q),
           \A q \in Call : call'[q] = call[q] /\ q \in Busy /\ KeyOf(q) = k /\ k \notin bans => k \in overtaken'
    PROVE  RegistrySound'
<1>1. /\ bans' = bans \cup {k} /\ identity' \in [Key -> RowType]
      /\ \A j \in Key :
           /\ identity'[j].method = identity[j].method /\ identity'[j].mail = identity[j].mail
           /\ identity'[j].first = identity[j].first
           /\ j \notin Known => identity'[j] = Unknown
           /\ j \in Known => identity'[j].status # "none"
           /\ \/ identity'[j].status = identity[j].status
              \/ identity'[j].status = "failed" /\ j \in bans'
      /\ k \in Known => identity'[k].status = "failed"
  BY BanRows
<1>2. bans \subseteq bans' /\ bans' \subseteq Key /\ \A j \in bans' \ bans : j = k /\ k \notin bans
  BY <1>1, Facts
<1> QED BY <1>1, <1>2, RowsStay

\* The admission gate's evidence bans a key.
LEMMA EvidenceStep ==
    ASSUME RegistryAssumption, RegistrySound, NEW k \in Key, Evidence(k)
    PROVE  RegistrySound'
<1>1. /\ Ban(k) /\ UNCHANGED <<call, clock, crossed>>
      /\ overtaken' = IF Of(k) # {} THEN overtaken \cup {k} ELSE overtaken
  BY DEF Evidence
<1>2. \A q \in Call : q \in Busy /\ KeyOf(q) = k => k \in overtaken'
  BY <1>1 DEF Of
<1>3. overtaken \subseteq overtaken' /\ overtaken' \subseteq Key /\ call' \in [Call -> CallType]
  BY <1>1, Facts
<1> QED BY <1>1, <1>2, <1>3, BanStep

\* A proof that fails bans its key.
LEMMA MarkFailedStep ==
    ASSUME RegistryAssumption, RegistrySound, NEW r \in Call, MarkFailed(r)
    PROVE  RegistrySound'
<1> DEFINE k == KeyOf(r)
<1>1. /\ Ban(k) /\ UNCHANGED <<clock, crossed>> /\ call[r].at = "bad" /\ call' = [call EXCEPT ![r] = NoCall]
      /\ overtaken' = IF Of(k) # {r} THEN overtaken \cup {k} ELSE overtaken
  BY DEF MarkFailed, Over
<1>2. k \in Key
  BY <1>1, Facts
<1>3. call' \in [Call -> CallType] /\ call'[r] = NoCall /\ \A q \in Call : q # r => call'[q] = call[q]
  BY <1>1, Facts, Nothing
<1>4. call[r] # NoCall
  BY <1>1, Nothing
<1>5. \A q \in Call : call'[q] = call[q] /\ q \in Busy /\ KeyOf(q) = k /\ k \notin bans => k \in overtaken'
  BY <1>1, <1>3, <1>4 DEF Of
<1>6. overtaken \subseteq overtaken' /\ overtaken' \subseteq Key
  BY <1>1, <1>2, Facts
<1>7. \A q \in Call : call'[q] = call[q] \/ call'[q] = NoCall \/ Advances(q)
  BY <1>3
<1> QED BY <1>1, <1>2, <1>3, <1>5, <1>6, <1>7, BanStep

\* A key inherits the ban of one it succeeds.
LEMMA InheritStep ==
    ASSUME RegistryAssumption, RegistrySound, NEW r \in Call, Inherit(r)
    PROVE  RegistrySound'
<1> DEFINE k == KeyOf(r)
           c == [call[r] EXCEPT !.at = "judge"]
<1>1. /\ UNCHANGED <<clock, crossed>> /\ call[r].at = "inherit" /\ call' = [call EXCEPT ![r] = c]
      /\ overtaken' = IF Of(k) # {r} THEN overtaken \cup {k} ELSE overtaken
      /\ IF k \in bans THEN UNCHANGED <<identity, bans>> ELSE Ban(k)
  BY DEF Inherit, Goto
<1>2. k \in Key /\ call[r] \in CallType
  BY <1>1, Facts
<1>3. c \in CallType /\ c.at = "judge" /\ c.cert = call[r].cert /\ c.age = call[r].age
      /\ c.owed = call[r].owed /\ c.kin = call[r].kin /\ c.was = call[r].was
  BY <1>2 DEF CallType, Places
<1>4. call' \in [Call -> CallType] /\ call'[r] = c /\ \A q \in Call : q # r => call'[q] = call[q]
  BY <1>1, <1>3, Facts
<1>5. c # call[r]
  BY <1>1, <1>3
<1> HIDE DEF c
<1>6. \A q \in Call : call'[q] = call[q] /\ q \in Busy /\ KeyOf(q) = k /\ k \notin bans => k \in overtaken'
  BY <1>1, <1>4, <1>5 DEF Of
<1>7. overtaken \subseteq overtaken' /\ overtaken' \subseteq Key
  BY <1>1, <1>2, Facts
<1>8. k \in bans' /\ (k \in bans => k \in overtaken)
  BY <1>1, <1>2, Facts DEF RegistrySound, Shut, Ban
<1>9. k \in bans' \ overtaken' => identity'[k].status # "unverified"
  <2>1. CASE k \in bans
    BY <1>7, <1>8, <2>1
  <2>2. CASE k \notin bans
    <3>1. Ban(k)
      BY <1>1, <2>2
    <3>2. (k \notin Known => identity'[k] = Unknown) /\ (k \in Known => identity'[k].status = "failed")
      BY <1>2, <3>1, BanRows
    <3> QED BY <3>2, Nothing
  <2> QED BY <2>1, <2>2
<1>10. Stale(r)' <=> Stale(r)
  BY <1>3, <1>4 DEF Stale
<1>11. Advances(r)
  <2>1. call[r].age < clock /\ \A j \in Known \cap (call[r].kin \ crossed) :
           k \in Known \ crossed /\ ~Stale(r) => identity[k].first <= identity[j].first
    BY <1>1 DEF RegistrySound, AgeIsCarried
  <2> QED BY <1>1, <1>3, <1>4, <1>8, <1>9, <1>10, <2>1 DEF Advances, Early
<1>12. \A q \in Call : call'[q] = call[q] \/ call'[q] = NoCall \/ Advances(q)
  BY <1>4, <1>11
<1>13. CASE k \in bans
  <2>1. identity' = identity /\ bans' = bans
    BY <1>1, <1>13
  <2>2. \A j \in Key : (j \notin Known => identity[j] = Unknown) /\ (j \in Known => identity[j].status # "none")
    BY Facts DEF Known
  <2> QED BY <1>1, <1>4, <1>7, <1>12, <2>1, <2>2, Facts, RowsStay
<1>14. CASE k \notin bans
  BY <1>1, <1>2, <1>4, <1>6, <1>7, <1>12, <1>14, BanStep
<1> QED BY <1>13, <1>14

\* A request that begins knows whom it succeeds; two of one key have crossed.
LEMMA ArriveStep ==
    ASSUME RegistryAssumption, RegistrySound, NEW r \in Call, NEW cert \in Cert, NEW claims \in BOOLEAN,
           Arrive(r, cert, claims)
    PROVE  RegistrySound'
<1> DEFINE kin == Linked(cert)
           owed == {k \in Linked(cert) : identity[k].status = "failed"}
           c == [NoCall EXCEPT !.at = "look", !.cert = cert, !.claims = claims, !.kin = kin, !.owed = owed]
<1>1. /\ call[r].at = "idle" /\ cert.key \notin bans /\ call' = [call EXCEPT ![r] = c]
      /\ crossed' = IF Of(cert.key) = {} THEN crossed ELSE crossed \cup {cert.key}
      /\ UNCHANGED <<identity, bans, clock, overtaken>>
  BY DEF Arrive, NotBanned
<1>2. cert.key \in Key /\ crossed \subseteq crossed' /\ crossed' \subseteq Key
  BY <1>1, Facts DEF RegistryAssumption
<1>3. kin \subseteq Known \ {cert.key} /\ kin \subseteq Key
      /\ \A j \in kin : j = cert.predecessor \/ (cert.method = "email" /\ identity[j].mail = cert.mail)
  BY DEF Linked, Known
<1>4. owed \subseteq kin /\ \A j \in owed : identity[j].status = "failed"
  OBVIOUS
<1> HIDE DEF kin, owed
<1>5. c \in CallType /\ c.at = "look" /\ c.cert = cert /\ c.kin = kin /\ c.owed = owed /\ c.age = 0
  <2>1. NoCall \in CallType /\ kin \in SUBSET Key /\ owed \in SUBSET Key
    BY <1>3, <1>4, Nothing
  <2> QED BY <2>1, Nothing DEF CallType, Places
<1>6. call' \in [Call -> CallType] /\ call'[r] = c /\ \A q \in Call : q # r => call'[q] = call[q]
  BY <1>1, <1>5, Facts
<1> HIDE DEF c
<1>7. KeyOf(r)' = cert.key /\ \A q \in Call : q # r => KeyOf(q)' = KeyOf(q) /\ (Stale(q)' <=> Stale(q))
  BY <1>5, <1>6 DEF KeyOf, Stale
<1>8. Known' = Known
  BY <1>1 DEF Known
<1>9. IdentityTypeOK'
  BY <1>1, <1>2, <1>6, Facts DEF IdentityTypeOK
<1>10. RowsSound'
  BY <1>1, <1>2 DEF RegistrySound, RowsSound
<1>11. CallsSound'
  <2>1. \A q \in Call : IF call'[q].at # "idle" THEN call'[q].cert \in Cert ELSE call'[q] = NoCall
    BY <1>5, <1>6, Facts
  <2>2. ASSUME NEW p \in Busy', NEW q \in Busy', q # p, KeyOf(q)' = KeyOf(p)' PROVE KeyOf(p)' \in crossed'
    <3>1. ASSUME NEW x \in Call, x # r, call'[x].at # "idle", KeyOf(x)' = cert.key PROVE cert.key \in crossed'
      <4>1. x \in Of(cert.key)
        BY <1>6, <1>7, <3>1 DEF Of, Busy
      <4> QED BY <1>1, <4>1
    <3>2. CASE p = r \/ q = r
      BY <1>7, <2>2, <3>1, <3>2 DEF Busy
    <3>3. CASE p # r /\ q # r
      BY <1>2, <1>6, <1>7, <2>2, <3>3 DEF Busy, RegistrySound, CallsSound
    <3> QED BY <3>2, <3>3
  <2> QED BY <2>1, <2>2 DEF CallsSound, Busy
<1>12. ReadStands'
  BY <1>1, <1>2, <1>5, <1>6, <1>7, <1>8 DEF RegistrySound, ReadStands
<1>13. Shut'
  <2> SUFFICES ASSUME NEW q \in Busy', KeyOf(q)' \in bans \ overtaken
               PROVE  call'[q].at = "judge" /\ identity[KeyOf(q)'].status # "unverified"
    BY <1>1 DEF Shut
  <2>1. q # r /\ q \in Busy /\ call'[q] = call[q] /\ KeyOf(q)' = KeyOf(q)
    BY <1>1, <1>6, <1>7 DEF Busy
  <2> QED BY <2>1 DEF RegistrySound, Shut
<1>14. BansStick'
  BY <1>1, <1>8 DEF RegistrySound, BansStick
<1>15. KinIsFound'
  <2> SUFFICES ASSUME NEW q \in Call, call'[q].at \in Early,
                      NEW j \in (call'[q].kin \cup call'[q].owed) \ crossed'
               PROVE  /\ j # KeyOf(q)'
                      /\ \/ j = call'[q].cert.predecessor
                         \/ /\ call'[q].cert.method = "email" /\ j \in Known
                            /\ identity[j].mail = call'[q].cert.mail
    BY <1>1, <1>8 DEF KinIsFound, Early
  <2>1. CASE q = r
    BY <1>3, <1>4, <1>5, <1>6, <1>7, <2>1
  <2>2. CASE q # r
    BY <1>2, <1>6, <1>7, <2>2 DEF RegistrySound, KinIsFound, Early
  <2> QED BY <2>1, <2>2
<1>16. OwedStays'
  <2> SUFFICES ASSUME NEW q \in Call, NEW j \in call'[q].owed
               PROVE  j \in bans \cap Known /\ identity[j].status # "unverified"
    BY <1>1, <1>8 DEF OwedStays
  <2>1. CASE q = r
    BY <1>3, <1>4, <1>5, <1>6, <2>1 DEF RegistrySound, RowsSound
  <2>2. CASE q # r
    BY <1>6, <2>2 DEF RegistrySound, OwedStays
  <2> QED BY <2>1, <2>2
<1>17. BanIsCarried'
  BY <1>1, <1>2, <1>5, <1>6, <1>7 DEF RegistrySound, BanIsCarried
<1>18. AgeIsCarried'
  BY <1>1, <1>2, <1>5, <1>6, <1>7, <1>8, Facts DEF RegistrySound, AgeIsCarried
<1> QED BY <1>9, <1>10, <1>11, <1>12, <1>13, <1>14, <1>15, <1>16, <1>17, <1>18 DEF RegistrySound

\* What is evicted has no mailbox and no ban, but for keys that crossed.
LEMMA EvictStep ==
    ASSUME RegistryAssumption, RegistrySound, NEW r \in Call, Evict(r)
    PROVE  RegistrySound'
<1> DEFINE c == [call[r] EXCEPT !.at = "link"]
<1>1. /\ call[r].at = "evict" /\ call' = [call EXCEPT ![r] = c] /\ UNCHANGED <<bans, clock, crossed, overtaken>>
  BY DEF Evict, Goto
<1>2. PICK gone \in SUBSET {k \in Known : identity[k].status = "unverified"} :
         identity' = [k \in Key |-> IF k \in gone THEN Unknown ELSE identity[k]]
  BY DEF Evict
<1>3. call[r] \in CallType /\ KeyOf(r) \in Key
  BY <1>1, Facts
<1>4. c \in CallType /\ c.at = "link" /\ c.cert = call[r].cert /\ c.age = call[r].age
      /\ c.owed = call[r].owed /\ c.kin = call[r].kin
  BY <1>3 DEF CallType, Places
<1>5. call' \in [Call -> CallType] /\ call'[r] = c /\ \A q \in Call : q # r => call'[q] = call[q]
  BY <1>1, <1>4, Facts
<1> HIDE DEF c
<1>6. identity' \in [Key -> RowType] /\ (\A j \in Key \ gone : identity'[j] = identity[j])
      /\ \A j \in gone : identity'[j] = Unknown /\ identity[j].status = "unverified"
  BY <1>2, Facts, Nothing DEF Known
<1>7. Known' = Known \ gone /\ gone \subseteq Known /\ Known \subseteq Key
  BY <1>2, <1>6 DEF Known
<1>8. \A q \in Call : /\ call'[q].cert = call[q].cert /\ call'[q].age = call[q].age
                      /\ call'[q].owed = call[q].owed /\ call'[q].kin = call[q].kin
                      /\ call'[q].at = "idle" <=> call[q].at = "idle"
                      /\ call'[q].at \in Early <=> call[q].at \in Early
                      /\ KeyOf(q)' = KeyOf(q)
  BY <1>1, <1>4, <1>5 DEF KeyOf, Early
<1>9. IdentityTypeOK'
  BY <1>1, <1>5, <1>6, Facts DEF IdentityTypeOK
<1>10. RowsSound'
  <2> SUFFICES ASSUME NEW j \in Key
               PROVE  /\ identity'[j] = Unknown \/ identity'[j].status # "none"
                      /\ identity'[j].first < clock
                      /\ identity'[j].method = "email" <=> identity'[j].mail # None
                      /\ identity'[j].method = "email" /\ identity'[j].status = "unverified" => j \in crossed
                      /\ identity'[j].status = "failed" => j \in bans
    BY <1>1 DEF RowsSound
  <2>1. CASE j \in gone
    BY <1>6, <2>1, Nothing, Facts
  <2>2. CASE j \notin gone
    BY <1>6, <2>2 DEF RegistrySound, RowsSound
  <2> QED BY <2>1, <2>2
<1>11. CallsSound'
  BY <1>1, <1>5, <1>8, Facts DEF RegistrySound, CallsSound, Busy
<1>12. ReadStands'
  <2> SUFFICES ASSUME NEW q \in Call, call'[q].at = "write", KeyOf(q)' \in Known' \ crossed
               PROVE  call'[q].was = identity'[KeyOf(q)'].method
    BY <1>1 DEF ReadStands
  <2>1. call'[q] = call[q] /\ KeyOf(q)' = KeyOf(q)
    BY <1>4, <1>5, <1>8
  <2>2. KeyOf(q) \in Known \ crossed /\ KeyOf(q) \in Key \ gone
    BY <1>7, <2>1
  <2> QED BY <1>6, <2>1, <2>2 DEF RegistrySound, ReadStands
<1>13. Shut'
  <2> SUFFICES ASSUME NEW q \in Call, call'[q].at # "idle", KeyOf(q)' \in bans \ overtaken
               PROVE  call'[q].at = "judge" /\ identity'[KeyOf(q)'].status # "unverified"
    BY <1>1 DEF Shut, Busy
  <2>1. q \in Busy /\ KeyOf(q)' = KeyOf(q) /\ KeyOf(q) \in Key
    BY <1>8, Facts
  <2>2. call[q].at = "judge" /\ identity[KeyOf(q)].status # "unverified"
    BY <2>1 DEF RegistrySound, Shut
  <2> QED BY <1>1, <1>5, <1>6, <2>1, <2>2
<1>14. BansStick'
  BY <1>1, <1>6, <1>7 DEF RegistrySound, BansStick
<1>15. KinIsFound'
  <2> SUFFICES ASSUME NEW q \in Call, call'[q].at \in Early,
                      NEW j \in (call'[q].kin \cup call'[q].owed) \ crossed
               PROVE  /\ j # KeyOf(q)'
                      /\ \/ j = call'[q].cert.predecessor
                         \/ /\ call'[q].cert.method = "email" /\ j \in Known'
                            /\ identity'[j].mail = call'[q].cert.mail
    BY <1>1 DEF KinIsFound, Early
  <2>1. call[q].at \in Early /\ call[q].at # "idle" /\ j \in (call[q].kin \cup call[q].owed) \ crossed
    BY <1>8 DEF Early
  <2>2. /\ j # KeyOf(q)
        /\ \/ j = call[q].cert.predecessor
           \/ call[q].cert.method = "email" /\ j \in Known /\ identity[j].mail = call[q].cert.mail
    BY <2>1 DEF RegistrySound, KinIsFound, Early
  <2>3. ASSUME call[q].cert.method = "email", j \in Known, identity[j].mail = call[q].cert.mail
        PROVE  j \notin gone
    <3>1. j \in Key /\ identity[j].mail # None
      BY <1>7, <2>1, <2>3, Facts
    <3> QED BY <1>6, <2>1, <3>1 DEF RegistrySound, RowsSound
  <2> QED BY <1>6, <1>7, <1>8, <2>2, <2>3
<1>16. OwedStays'
  BY <1>1, <1>6, <1>7, <1>8 DEF RegistrySound, OwedStays
<1>17. BanIsCarried'
  <2> SUFFICES ASSUME NEW q \in Call, ~(call'[q].owed \subseteq crossed)
               PROVE  /\ call'[q].at \in {"carry", "point"} => call'[q].outlawed
                      /\ call'[q].at = "judge" => KeyOf(q)' \in bans \/ Stale(q)'
    BY <1>1 DEF BanIsCarried
  <2>1. CASE q = r
    BY <1>4, <1>5, <2>1
  <2>2. CASE q # r
    BY <1>5, <1>8, <2>2 DEF RegistrySound, BanIsCarried, Stale
  <2> QED BY <2>1, <2>2
<1>18. AgeIsCarried'
  <2> SUFFICES ASSUME NEW q \in Call
               PROVE  /\ call'[q].age < clock
                      /\ \A j \in Known' \cap (call'[q].kin \ crossed) :
                           /\ call'[q].at = "carry" => call'[q].age <= identity'[j].first
                           /\ call'[q].at \in {"point", "inherit", "judge"} /\ KeyOf(q)' \in Known' \ crossed
                              /\ ~Stale(q)' => identity'[KeyOf(q)'].first <= identity'[j].first
    BY <1>1 DEF AgeIsCarried
  <2>1. call'[q].age < clock
    BY <1>8 DEF RegistrySound, AgeIsCarried
  <2>2. CASE q = r
    BY <1>4, <1>5, <2>1, <2>2
  <2>3. CASE q # r
    <3>1. call'[q] = call[q] /\ KeyOf(q)' = KeyOf(q) /\ (Stale(q)' <=> Stale(q))
      BY <1>5, <1>8, <2>3 DEF Stale
    <3>2. \A j \in Known' : j \in Known /\ identity'[j] = identity[j]
      BY <1>6, <1>7
    <3> QED BY <2>1, <3>1, <3>2 DEF RegistrySound, AgeIsCarried
  <2> QED BY <2>2, <2>3
<1> QED BY <1>9, <1>10, <1>11, <1>12, <1>13, <1>14, <1>15, <1>16, <1>17, <1>18 DEF RegistrySound

\* A row that takes a certificate over has its mailbox from then on; requests that were
\* to find its key in another one do so no more.
LEMMA UpsertStep ==
    ASSUME RegistryAssumption, RegistrySound, NEW r \in Call, Upsert(r)
    PROVE  RegistrySound'
<1> DEFINE k == KeyOf(r)
           cert == call[r].cert
           upgrade == call[r].was = "pow" /\ cert.method = "email"
           writes == ~Stale(r) /\ k \in Known
           moves == writes /\ identity[k].mail \notin {None, cert.mail}
           prior == identity[k]
           row == [prior EXCEPT !.method = cert.method, !.mail = cert.mail,
                     !.status = IF upgrade /\ @ # "failed" THEN "verified" ELSE @]
           to == IF Stale(r) THEN "judge" ELSE "link"
           c == [call[r] EXCEPT !.at = to]
<1>1. /\ call[r].at = "write" /\ call[r].was # "none" /\ UNCHANGED <<bans, clock, crossed, overtaken>>
      /\ call' = [q \in Call |-> IF q = r THEN c ELSE IF moves THEN WithoutMoved(call[q], k) ELSE call[q]]
      /\ identity' = IF writes THEN [identity EXCEPT ![k] = row] ELSE identity
  <2>1. identity' = IF ~writes THEN identity
                    ELSE [identity EXCEPT ![k].method = cert.method, ![k].mail = cert.mail,
                            ![k].status = IF upgrade /\ @ # "failed" THEN "verified" ELSE @]
    BY DEF Upsert, KeyOf
  <2>2. writes => [identity EXCEPT ![k].method = cert.method, ![k].mail = cert.mail,
                      ![k].status = IF upgrade /\ @ # "failed" THEN "verified" ELSE @]
                  = [identity EXCEPT ![k] = row]
    BY Facts DEF Known, RowType
  <2> QED BY <2>1, <2>2 DEF Upsert, KeyOf
<1>2. /\ k \in Key /\ k = cert.key /\ cert \in Cert /\ cert.method \in {"pow", "email"} /\ call[r] \in CallType
      /\ cert.method = "email" <=> cert.mail # None
      /\ cert.mail \in {x.mail : x \in Cert} /\ prior \in RowType
      /\ k \in Known <=> prior.status # "none"
  BY <1>1, Facts
<1>3. k \notin bans \ overtaken
  BY <1>1, <1>2, Facts DEF RegistrySound, Shut
<1>4. /\ row \in RowType /\ row.method = cert.method /\ row.mail = cert.mail /\ row.first = prior.first
      /\ row.status = prior.status \/ (prior.status # "failed" /\ row.status = "verified")
      /\ upgrade => row.status # "unverified"
  BY <1>2 DEF RowType
<1>5. c \in CallType /\ c.at = to /\ c.cert = cert /\ c.age = call[r].age /\ c.was = call[r].was
      /\ c.owed = call[r].owed /\ c.kin = call[r].kin
  BY <1>2 DEF CallType, Places
<1> HIDE DEF row, c
<1>6. ASSUME NEW q \in Call
      PROVE  /\ call'[q] \in CallType /\ call'[q].cert = call[q].cert /\ call'[q].age = call[q].age
             /\ call'[q].was = call[q].was /\ call'[q].outlawed = call[q].outlawed
             /\ call'[q].owed \subseteq call[q].owed /\ call'[q].kin \subseteq call[q].kin
             /\ q # r => call'[q].at = call[q].at
             /\ q # r /\ moves /\ k # call[q].cert.predecessor => k \notin call'[q].kin \cup call'[q].owed
             /\ call[q].at = "idle" => call'[q] = call[q]
  <2>1. CASE q = r
    <3>1. call'[q] = c /\ c.outlawed = call[r].outlawed
      BY <1>1, <1>2, <2>1 DEF c, CallType
    <3> QED BY <1>1, <1>5, <2>1, <3>1
  <2>2. CASE q # r
    <3>1. call[q] \in CallType /\ call'[q] = (IF moves THEN WithoutMoved(call[q], k) ELSE call[q])
      BY <1>1, <2>2, Facts
    <3>2. call[q].at = "idle" => call[q].kin = {} /\ call[q].owed = {}
      BY Facts, Nothing
    <3>3. CASE moves /\ k \in call[q].kin \cup call[q].owed /\ k # call[q].cert.predecessor
      <4>1. call'[q] = [call[q] EXCEPT !.kin = @ \ {k}, !.owed = @ \ {k}]
        BY <3>1, <3>3 DEF WithoutMoved
      <4> DEFINE kin == call[q].kin \ {k}
                 owed == call[q].owed \ {k}
      <4>2. /\ kin \in SUBSET Key /\ owed \in SUBSET Key /\ kin \subseteq call[q].kin /\ owed \subseteq call[q].owed
            /\ k \notin kin \cup owed
        BY Facts
      <4>3. call'[q] = [call[q] EXCEPT !.kin = kin, !.owed = owed]
        BY <4>1
      <4> HIDE DEF kin, owed
      <4>4. /\ call'[q] \in CallType /\ call'[q].cert = call[q].cert /\ call'[q].age = call[q].age
            /\ call'[q].was = call[q].was /\ call'[q].outlawed = call[q].outlawed /\ call'[q].at = call[q].at
            /\ call'[q].owed = owed /\ call'[q].kin = kin
        BY <3>1, <4>2, <4>3 DEF CallType
      <4>5. call[q].at # "idle"
        BY <3>2, <3>3
      <4> QED BY <2>2, <4>2, <4>4, <4>5
    <3>4. CASE ~(moves /\ k \in call[q].kin \cup call[q].owed /\ k # call[q].cert.predecessor)
      <4>1. call'[q] = call[q]
        BY <3>1, <3>4 DEF WithoutMoved
      <4> QED BY <2>2, <3>1, <3>4, <4>1
    <3> QED BY <3>3, <3>4
  <2> QED BY <2>1, <2>2
<1>7. \A q \in Call : /\ KeyOf(q)' = KeyOf(q) /\ (Stale(q)' <=> Stale(q))
                      /\ call'[q].at = "idle" <=> call[q].at = "idle"
                      /\ call'[q].at \in Early => call[q].at \in Early
  BY <1>1, <1>5, <1>6 DEF KeyOf, Stale, Early
<1>8. call'[r].at = to /\ call' \in [Call -> CallType]
  BY <1>1, <1>5, <1>6
<1>9. identity' \in [Key -> RowType] /\ (\A j \in Key : j # k \/ ~writes => identity'[j] = identity[j])
      /\ (writes => identity'[k] = row)
  BY <1>1, <1>2, <1>4, Facts
<1>10. \A j \in Key : /\ identity'[j].first = identity[j].first
                      /\ identity'[j].status = "none" <=> identity[j].status = "none"
                      /\ identity'[j].status = "failed" <=> identity[j].status = "failed"
                      /\ identity[j].status # "unverified" => identity'[j].status # "unverified"
  BY <1>2, <1>4, <1>9
<1>11. Known' = Known
  <2>1. \A j \in Key : identity'[j] # Unknown <=> identity[j] # Unknown
    <3>1. writes => row # Unknown
      BY <1>2, <1>4, Nothing
    <3> QED BY <1>2, <1>9, <1>10, <3>1, Facts DEF Known
  <2> QED BY <2>1 DEF Known
<1> HIDE DEF moves, writes, upgrade, to
<1>12. IdentityTypeOK'
  BY <1>1, <1>8, <1>9, Facts DEF IdentityTypeOK
<1>13. RowsSound'
  <2> SUFFICES ASSUME NEW j \in Key
               PROVE  /\ identity'[j] = Unknown \/ identity'[j].status # "none"
                      /\ identity'[j].first < clock
                      /\ identity'[j].method = "email" <=> identity'[j].mail # None
                      /\ identity'[j].method = "email" /\ identity'[j].status = "unverified" => j \in crossed
                      /\ identity'[j].status = "failed" => j \in bans
    BY <1>1 DEF RowsSound
  <2>1. CASE j # k \/ ~writes
    BY <1>9, <2>1 DEF RegistrySound, RowsSound
  <2>2. CASE j = k /\ writes
    <3>1. identity'[j] = row /\ k \in Known /\ ~Stale(r)
      BY <1>9, <2>2 DEF writes
    <3>2. identity'[j].status # "none" /\ identity'[j].first < clock /\ (identity'[j].status = "failed" => j \in bans)
      BY <1>2, <1>10, <2>2, <3>1, Facts DEF RegistrySound, RowsSound
    <3>3. identity'[j].method = "email" <=> identity'[j].mail # None
      BY <1>2, <1>4, <3>1
    <3>4. ASSUME cert.method = "email", row.status = "unverified", k \notin crossed PROVE FALSE
      <4>1. call[r].was = prior.method
        BY <1>1, <3>1, <3>4 DEF RegistrySound, ReadStands
      <4>2. prior.method # "pow" /\ prior.method # "none"
        BY <1>1, <1>4, <3>4, <4>1 DEF upgrade
      <4>3. prior.method = "email"
        BY <1>2, <4>2 DEF RowType
      <4>4. prior.status = "unverified"
        BY <1>4, <3>4
      <4> QED BY <1>2, <3>4, <4>3, <4>4 DEF RegistrySound, RowsSound
    <3> QED BY <1>4, <2>2, <3>1, <3>2, <3>3, <3>4
  <2> QED BY <2>1, <2>2
<1>14. CallsSound'
  <2>1. \A q \in Call : IF call'[q].at # "idle" THEN call'[q].cert \in Cert ELSE call'[q] = NoCall
    BY <1>6, <1>7, Facts
  <2> QED BY <1>1, <1>7, <2>1 DEF RegistrySound, CallsSound, Busy
<1>15. ReadStands'
  <2> SUFFICES ASSUME NEW q \in Call, call'[q].at = "write", KeyOf(q)' \in Known' \ crossed
               PROVE  call'[q].was = identity'[KeyOf(q)'].method
    BY <1>1 DEF ReadStands
  <2>1. q # r /\ call[q].at = "write" /\ call'[q].was = call[q].was /\ KeyOf(q)' = KeyOf(q) /\ KeyOf(q) \in Known \ crossed
    BY <1>6, <1>7, <1>8, <1>11 DEF to
  <2>2. KeyOf(q) # k /\ KeyOf(q) \in Key
    BY <1>1, <2>1, Facts DEF RegistrySound, CallsSound
  <2> QED BY <1>9, <2>1, <2>2 DEF RegistrySound, ReadStands
<1>16. Shut'
  <2> SUFFICES ASSUME NEW q \in Call, call'[q].at # "idle", KeyOf(q)' \in bans \ overtaken
               PROVE  call'[q].at = "judge" /\ identity'[KeyOf(q)'].status # "unverified"
    BY <1>1 DEF Shut, Busy
  <2>1. q \in Busy /\ KeyOf(q)' = KeyOf(q) /\ KeyOf(q) \in Key /\ q # r
    BY <1>3, <1>7, Facts
  <2>2. call[q].at = "judge" /\ identity[KeyOf(q)].status # "unverified"
    BY <2>1 DEF RegistrySound, Shut
  <2> QED BY <1>6, <1>10, <2>1, <2>2
<1>17. BansStick'
  BY <1>1, <1>10, <1>11, Facts DEF RegistrySound, BansStick
<1>18. KinIsFound'
  <2> SUFFICES ASSUME NEW q \in Call, call'[q].at \in Early,
                      NEW j \in (call'[q].kin \cup call'[q].owed) \ crossed
               PROVE  /\ j # KeyOf(q)'
                      /\ \/ j = call'[q].cert.predecessor
                         \/ /\ call'[q].cert.method = "email" /\ j \in Known'
                            /\ identity'[j].mail = call'[q].cert.mail
    BY <1>1 DEF KinIsFound, Early
  <2>1. /\ call[q].at \in Early /\ call[q].at # "idle" /\ j \in (call[q].kin \cup call[q].owed) \ crossed
        /\ call'[q].cert = call[q].cert /\ KeyOf(q)' = KeyOf(q) /\ j \in Key
    BY <1>6, <1>7, Facts DEF Early
  <2>2. /\ j # KeyOf(q)
        /\ \/ j = call[q].cert.predecessor
           \/ call[q].cert.method = "email" /\ j \in Known /\ identity[j].mail = call[q].cert.mail
    BY <2>1 DEF RegistrySound, KinIsFound, Early
  <2>3. ASSUME call[q].cert.method = "email", j \in Known, identity[j].mail = call[q].cert.mail,
               j # call[q].cert.predecessor
        PROVE  identity'[j].mail = call[q].cert.mail
    <3>1. CASE j # k \/ ~writes
      BY <1>9, <2>1, <2>3, <3>1
    <3>2. CASE j = k /\ writes
      <4>1. q # r
        BY <2>2, <3>2
      <4>2. ~moves
        BY <1>6, <2>3, <3>2, <4>1
      <4>3. identity[k].mail # None
        BY <2>1, <2>3, <3>2, Facts
      <4>4. identity[k].mail = cert.mail
        BY <3>2, <4>2, <4>3 DEF moves
      <4> QED BY <1>4, <1>9, <2>3, <3>2, <4>4
    <3> QED BY <3>1, <3>2
  <2> QED BY <1>11, <2>1, <2>2, <2>3
<1>19. OwedStays'
  <2> SUFFICES ASSUME NEW q \in Call, NEW j \in call'[q].owed
               PROVE  j \in bans \cap Known' /\ identity'[j].status # "unverified"
    BY <1>1 DEF OwedStays
  <2>1. j \in bans \cap Known /\ identity[j].status # "unverified" /\ j \in Key
    BY <1>6, Facts DEF RegistrySound, OwedStays
  <2> QED BY <1>10, <1>11, <2>1
<1>20. BanIsCarried'
  <2> SUFFICES ASSUME NEW q \in Call, ~(call'[q].owed \subseteq crossed)
               PROVE  /\ call'[q].at \in {"carry", "point"} => call'[q].outlawed
                      /\ call'[q].at = "judge" => KeyOf(q)' \in bans \/ Stale(q)'
    BY <1>1 DEF BanIsCarried
  <2>1. ~(call[q].owed \subseteq crossed)
    BY <1>6
  <2>2. CASE q = r
    BY <1>7, <1>8, <2>2 DEF to
  <2>3. CASE q # r
    BY <1>6, <1>7, <2>1, <2>3 DEF RegistrySound, BanIsCarried
  <2> QED BY <2>2, <2>3
<1>21. AgeIsCarried'
  <2> SUFFICES ASSUME NEW q \in Call
               PROVE  /\ call'[q].age < clock
                      /\ \A j \in Known \cap (call'[q].kin \ crossed) :
                           /\ call'[q].at = "carry" => call'[q].age <= identity'[j].first
                           /\ call'[q].at \in {"point", "inherit", "judge"} /\ KeyOf(q) \in Known \ crossed
                              /\ ~Stale(q) => identity'[KeyOf(q)].first <= identity'[j].first
    BY <1>1, <1>7, <1>11 DEF AgeIsCarried
  <2>1. call'[q].age < clock
    BY <1>6 DEF RegistrySound, AgeIsCarried
  <2>2. CASE q = r
    BY <1>8, <2>1, <2>2 DEF to
  <2>3. CASE q # r
    <3>1. call'[q].at = call[q].at /\ call'[q].kin \subseteq call[q].kin /\ call'[q].age = call[q].age
      BY <1>6, <2>3
    <3>2. Known \subseteq Key
      BY DEF Known
    <3> QED BY <1>10, <2>1, <3>1, <3>2 DEF RegistrySound, AgeIsCarried
  <2> QED BY <2>2, <2>3
<1> QED BY <1>12, <1>13, <1>14, <1>15, <1>16, <1>17, <1>18, <1>19, <1>20, <1>21 DEF RegistrySound

\* A row that becomes as old as what it succeeds stays no younger than what it
\* already succeeds; who is to become as old as its key once was is released.
LEMMA CarryStep ==
    ASSUME RegistryAssumption, RegistrySound, NEW r \in Call, Carry(r)
    PROVE  RegistrySound'
<1> DEFINE k == KeyOf(r)
           prior == identity[k]
           age == call[r].age
           older == k \in Known /\ age < prior.first
           row == IF k \in Known THEN [prior EXCEPT !.first = Carried(prior.first, age), !.succeededBy = None] ELSE prior
           c == [call[r] EXCEPT !.at = "point"]
<1>1. /\ call[r].at = "carry" /\ UNCHANGED <<bans, clock, crossed, overtaken>>
      /\ call' = [q \in Call |-> IF q = r THEN c ELSE IF older THEN [call[q] EXCEPT !.kin = @ \ {k}] ELSE call[q]]
      /\ identity' = [identity EXCEPT ![k] = row]
  <2>1. call[r].at = "carry" /\ UNCHANGED <<bans, clock, crossed, overtaken>>
    BY DEF Carry
  <2>2. call' = [q \in Call |-> IF q = r THEN c ELSE IF older THEN [call[q] EXCEPT !.kin = @ \ {k}] ELSE call[q]]
    BY DEF Carry
  <2>3. identity' = [identity EXCEPT ![k] = row]
    BY DEF Carry
  <2> QED BY <2>1, <2>2, <2>3
<1>2. /\ k \in Key /\ call[r] \in CallType /\ prior \in RowType /\ prior.first \in Nat /\ age \in Nat
      /\ k \in Known <=> prior.status # "none"
  BY <1>1, Facts
<1>3. k \notin bans \ overtaken
  BY <1>1, <1>2, Facts DEF RegistrySound, Shut
<1>4. /\ row \in RowType /\ row.method = prior.method /\ row.mail = prior.mail /\ row.status = prior.status
      /\ row.first \in Nat /\ row.first <= prior.first
      /\ ~older => row.first = prior.first
      /\ k \in Known => row.first <= age
      /\ k \notin Known => row = prior
  <2>1. CASE k \notin Known
    BY <1>2, <2>1
  <2>2. CASE k \in Known
    <3> DEFINE first == IF age < prior.first THEN age ELSE prior.first
    <3>1. first \in 0..MaxRows /\ first \in Nat /\ first <= prior.first /\ first <= age /\ None \in Key \cup {None}
          /\ (~older => first = prior.first)
      BY <1>2, <2>2 DEF RowType, CallType
    <3>2. row = [prior EXCEPT !.first = first, !.succeededBy = None]
      BY <2>2 DEF Carried
    <3> HIDE DEF first, row
    <3>3. row \in RowType /\ row.method = prior.method /\ row.mail = prior.mail /\ row.status = prior.status
          /\ row.first = first
      BY <1>2, <3>1, <3>2 DEF RowType
    <3> QED BY <2>2, <3>1, <3>3
  <2> QED BY <2>1, <2>2
<1>5. c \in CallType /\ c.at = "point" /\ c.cert = call[r].cert /\ c.age = age /\ c.was = call[r].was
      /\ c.outlawed = call[r].outlawed /\ c.owed = call[r].owed /\ c.kin = call[r].kin
  BY <1>2 DEF CallType, Places
<1> HIDE DEF row, c
<1>6. ASSUME NEW q \in Call
      PROVE  /\ call'[q] \in CallType /\ call'[q].cert = call[q].cert /\ call'[q].age = call[q].age
             /\ call'[q].was = call[q].was /\ call'[q].outlawed = call[q].outlawed
             /\ call'[q].owed = call[q].owed /\ call'[q].kin \subseteq call[q].kin
             /\ q # r => call'[q].at = call[q].at
             /\ q # r /\ older => k \notin call'[q].kin
             /\ call[q].at = "idle" => call'[q] = call[q]
  <2>1. CASE q = r
    BY <1>1, <1>5, <2>1
  <2>2. CASE q # r
    <3>1. call[q] \in CallType /\ call'[q] = (IF older THEN [call[q] EXCEPT !.kin = @ \ {k}] ELSE call[q])
      BY <1>1, <2>2, Facts
    <3>2. CASE older
      <4> DEFINE kin == call[q].kin \ {k}
      <4>1. kin \in SUBSET Key /\ kin \subseteq call[q].kin /\ k \notin kin
        BY Facts
      <4>2. call'[q] = [call[q] EXCEPT !.kin = kin]
        BY <3>1, <3>2
      <4>3. call[q].at = "idle" => kin = call[q].kin
        BY Facts, Nothing
      <4> HIDE DEF kin
      <4>4. /\ call'[q] \in CallType /\ call'[q].cert = call[q].cert /\ call'[q].age = call[q].age
            /\ call'[q].was = call[q].was /\ call'[q].outlawed = call[q].outlawed /\ call'[q].at = call[q].at
            /\ call'[q].owed = call[q].owed /\ call'[q].kin = kin
            /\ kin = call[q].kin => call'[q] = call[q]
        BY <3>1, <4>1, <4>2 DEF CallType
      <4> QED BY <2>2, <4>1, <4>3, <4>4
    <3>3. CASE ~older
      BY <2>2, <3>1, <3>3
    <3> QED BY <3>2, <3>3
  <2> QED BY <2>1, <2>2
<1>7. \A q \in Call : /\ KeyOf(q)' = KeyOf(q) /\ (Stale(q)' <=> Stale(q))
                      /\ call'[q].at = "idle" <=> call[q].at = "idle"
                      /\ call'[q].at \in Early => call[q].at \in Early
  BY <1>1, <1>5, <1>6 DEF KeyOf, Stale, Early
<1>8. call'[r] = c /\ call' \in [Call -> CallType]
  BY <1>1, <1>6
<1>9. identity' \in [Key -> RowType] /\ identity'[k] = row /\ \A j \in Key : j # k => identity'[j] = identity[j]
  BY <1>1, <1>2, <1>4, Facts
<1>10. \A j \in Key : /\ identity'[j].method = identity[j].method /\ identity'[j].mail = identity[j].mail
                      /\ identity'[j].status = identity[j].status
                      /\ identity'[j].first \in Nat /\ identity'[j].first <= identity[j].first
                      /\ j # k \/ ~older => identity'[j].first = identity[j].first
  BY <1>2, <1>4, <1>9, Facts
<1>11. Known' = Known
  <2>1. k \in Known => row # Unknown
    BY <1>2, <1>4, Nothing
  <2>2. \A j \in Key : identity'[j] # Unknown <=> identity[j] # Unknown
    BY <1>2, <1>4, <1>9, <2>1, Facts DEF Known
  <2> QED BY <2>2 DEF Known
<1> HIDE DEF older
<1>12. IdentityTypeOK'
  BY <1>1, <1>8, <1>9, Facts DEF IdentityTypeOK
<1>13. RowsSound'
  <2>1. \A j \in Key : identity'[j] = Unknown \/ identity'[j].status # "none"
    BY <1>10, <1>11, Facts DEF Known
  <2>2. \A j \in Key : identity'[j].first < clock
    BY <1>10, Facts DEF RegistrySound, RowsSound
  <2> QED BY <1>1, <1>10, <2>1, <2>2 DEF RegistrySound, RowsSound
<1>14. CallsSound'
  <2>1. \A q \in Call : IF call'[q].at # "idle" THEN call'[q].cert \in Cert ELSE call'[q] = NoCall
    BY <1>6, <1>7, Facts
  <2> QED BY <1>1, <1>7, <2>1 DEF RegistrySound, CallsSound, Busy
<1>15. ReadStands'
  <2> SUFFICES ASSUME NEW q \in Call, call'[q].at = "write", KeyOf(q)' \in Known' \ crossed
               PROVE  call'[q].was = identity'[KeyOf(q)'].method
    BY <1>1 DEF ReadStands
  <2>1. q # r /\ call[q].at = "write" /\ call'[q].was = call[q].was /\ KeyOf(q)' = KeyOf(q)
        /\ KeyOf(q) \in Known \ crossed /\ KeyOf(q) \in Key
    BY <1>5, <1>6, <1>7, <1>8, <1>11, Facts
  <2> QED BY <1>10, <2>1 DEF RegistrySound, ReadStands
<1>16. Shut'
  <2> SUFFICES ASSUME NEW q \in Call, call'[q].at # "idle", KeyOf(q)' \in bans \ overtaken
               PROVE  call'[q].at = "judge" /\ identity'[KeyOf(q)'].status # "unverified"
    BY <1>1 DEF Shut, Busy
  <2>1. q \in Busy /\ KeyOf(q)' = KeyOf(q) /\ KeyOf(q) \in Key /\ q # r
    BY <1>3, <1>7, Facts
  <2>2. call[q].at = "judge" /\ identity[KeyOf(q)].status # "unverified"
    BY <2>1 DEF RegistrySound, Shut
  <2> QED BY <1>6, <1>10, <2>1, <2>2
<1>17. BansStick'
  BY <1>1, <1>10, <1>11, Facts DEF RegistrySound, BansStick
<1>18. KinIsFound'
  <2> SUFFICES ASSUME NEW q \in Call, call'[q].at \in Early,
                      NEW j \in (call'[q].kin \cup call'[q].owed) \ crossed
               PROVE  /\ j # KeyOf(q)'
                      /\ \/ j = call'[q].cert.predecessor
                         \/ /\ call'[q].cert.method = "email" /\ j \in Known'
                            /\ identity'[j].mail = call'[q].cert.mail
    BY <1>1 DEF KinIsFound, Early
  <2>1. /\ call[q].at \in Early /\ j \in (call[q].kin \cup call[q].owed) \ crossed
        /\ call'[q].cert = call[q].cert /\ KeyOf(q)' = KeyOf(q) /\ j \in Key
    BY <1>6, <1>7, Facts DEF Early
  <2>2. /\ j # KeyOf(q)
        /\ \/ j = call[q].cert.predecessor
           \/ call[q].cert.method = "email" /\ j \in Known /\ identity[j].mail = call[q].cert.mail
    BY <2>1 DEF RegistrySound, KinIsFound, Early
  <2> QED BY <1>10, <1>11, <2>1, <2>2
<1>19. OwedStays'
  <2> SUFFICES ASSUME NEW q \in Call, NEW j \in call'[q].owed
               PROVE  j \in bans \cap Known' /\ identity'[j].status # "unverified"
    BY <1>1 DEF OwedStays
  <2>1. j \in bans \cap Known /\ identity[j].status # "unverified" /\ j \in Key
    BY <1>6, Facts DEF RegistrySound, OwedStays
  <2> QED BY <1>10, <1>11, <2>1
<1>20. BanIsCarried'
  <2> SUFFICES ASSUME NEW q \in Call, ~(call'[q].owed \subseteq crossed)
               PROVE  /\ call'[q].at \in {"carry", "point"} => call'[q].outlawed
                      /\ call'[q].at = "judge" => KeyOf(q)' \in bans' \/ Stale(q)'
    BY <1>1 DEF BanIsCarried
  <2>1. ~(call[q].owed \subseteq crossed) /\ call'[q].outlawed = call[q].outlawed
    BY <1>6
  <2>2. CASE q = r
    BY <1>1, <1>5, <1>8, <2>1, <2>2 DEF RegistrySound, BanIsCarried
  <2>3. CASE q # r
    BY <1>1, <1>6, <1>7, <2>1, <2>3 DEF RegistrySound, BanIsCarried
  <2> QED BY <2>2, <2>3
<1>21. AgeIsCarried'
  <2> SUFFICES ASSUME NEW q \in Call
               PROVE  /\ call'[q].age < clock
                      /\ \A j \in Known \cap (call'[q].kin \ crossed) :
                           /\ call'[q].at = "carry" => call'[q].age <= identity'[j].first
                           /\ call'[q].at \in {"point", "inherit", "judge"} /\ KeyOf(q) \in Known \ crossed
                              /\ ~Stale(q) => identity'[KeyOf(q)].first <= identity'[j].first
    BY <1>1, <1>7, <1>11 DEF AgeIsCarried
  <2>1. call'[q].age < clock
    BY <1>6 DEF RegistrySound, AgeIsCarried
  <2>2. CASE q = r
    <3> SUFFICES ASSUME NEW j \in Known \cap (call[r].kin \ crossed), k \in Known
                 PROVE  identity'[k].first <= identity'[j].first
      BY <1>5, <1>8, <2>1, <2>2
    <3>1. age <= identity[j].first /\ j \in Key
      BY <1>1 DEF RegistrySound, AgeIsCarried, Known
    <3>2. CASE j = k
      BY <1>4, <1>9, <3>2
    <3>3. CASE j # k
      BY <1>2, <1>4, <1>9, <3>1, <3>3, Facts
    <3> QED BY <3>2, <3>3
  <2>3. CASE q # r
    <3>1. call'[q].at = call[q].at /\ call'[q].kin \subseteq call[q].kin /\ call'[q].age = call[q].age
          /\ (older => k \notin call'[q].kin)
      BY <1>6, <2>3
    <3>2. \A j \in Known \cap call'[q].kin : j \in Key /\ identity'[j].first = identity[j].first
      BY <1>10, <3>1 DEF Known
    <3>3. KeyOf(q) \in Known => KeyOf(q) \in Key /\ identity'[KeyOf(q)].first <= identity[KeyOf(q)].first
                                /\ identity'[KeyOf(q)].first \in Nat
      BY <1>10 DEF Known
    <3>4. \A j \in Key : identity[j].first \in Nat
      BY Facts
    <3>5. ASSUME NEW j \in Known \cap (call'[q].kin \ crossed), call'[q].at = "carry"
          PROVE  call'[q].age <= identity'[j].first
      BY <3>1, <3>2, <3>5 DEF RegistrySound, AgeIsCarried
    <3>6. ASSUME NEW j \in Known \cap (call'[q].kin \ crossed), call'[q].at \in {"point", "inherit", "judge"},
                 KeyOf(q) \in Known \ crossed, ~Stale(q)
          PROVE  identity'[KeyOf(q)].first <= identity'[j].first
      <4>1. identity[KeyOf(q)].first <= identity[j].first
        BY <3>1, <3>6 DEF RegistrySound, AgeIsCarried
      <4> QED BY <3>2, <3>3, <3>4, <3>6, <4>1
    <3> QED BY <2>1, <3>5, <3>6
  <2> QED BY <2>2, <2>3
<1> QED BY <1>12, <1>13, <1>14, <1>15, <1>16, <1>17, <1>18, <1>19, <1>20, <1>21 DEF RegistrySound

-----------------------------------------------------------------------------
\* An empty registry is sound.
LEMMA RegistryInitSound == ASSUME RegistryAssumption, IdentityInit PROVE RegistrySound
<1>1. /\ identity = [k \in Key |-> Unknown] /\ bans = {} /\ clock = 1
      /\ call = [r \in Call |-> NoCall] /\ crossed = {} /\ overtaken = {}
  BY DEF IdentityInit
<1>2. /\ \A r \in Call : call[r] = NoCall /\ call[r].at = "idle" /\ call[r].kin = {} /\ call[r].owed = {}
                         /\ call[r].age = 0
      /\ \A k \in Key : identity[k] = Unknown
      /\ Known = {} /\ Busy = {}
  BY <1>1, Nothing DEF Known, Busy
<1>3. IdentityTypeOK
  BY <1>1, Nothing DEF IdentityTypeOK, RegistryAssumption
<1>4. RowsSound /\ CallsSound
  BY <1>1, <1>2, Nothing DEF RowsSound, CallsSound
<1>5. ReadStands /\ Shut /\ BansStick
  BY <1>1, <1>2 DEF ReadStands, Shut, BansStick
<1>6. KinIsFound /\ OwedStays /\ BanIsCarried /\ AgeIsCarried
  BY <1>1, <1>2 DEF KinIsFound, OwedStays, BanIsCarried, AgeIsCarried
<1> QED BY <1>3, <1>4, <1>5, <1>6 DEF RegistrySound

\* Every step keeps the registry sound.
LEMMA RegistryStepSound ==
    ASSUME RegistryAssumption, RegistrySound, [IdentityNext]_identityVars
    PROVE  RegistrySound'
<1>1. ASSUME NEW r \in Call, NEW cert \in Cert, NEW claims \in BOOLEAN, Arrive(r, cert, claims)
      PROVE  RegistrySound'
  BY <1>1, ArriveStep
<1>2. ASSUME NEW r \in Call, Look(r) \/ Insert(r) \/ Evict(r) \/ Upsert(r) PROVE RegistrySound'
  BY <1>2, LookStep, InsertStep, EvictStep, UpsertStep
<1>3. ASSUME NEW r \in Call, Link(r) \/ Carry(r) \/ Point(r) \/ Inherit(r) \/ Judge(r) PROVE RegistrySound'
  BY <1>3, LinkStep, CarryStep, PointStep, InheritStep, JudgeStep
<1>4. ASSUME NEW r \in Call, TakeTurn(r) \/ Wait20s(r) \/ Prove(r) \/ MarkVerified(r) \/ MarkFailed(r)
      PROVE  RegistrySound'
  BY <1>4, ProofStep, MarkVerifiedStep, MarkFailedStep
<1>5. ASSUME NEW k \in Key, Evidence(k) PROVE RegistrySound'
  BY <1>5, EvidenceStep
<1>6. CASE UNCHANGED identityVars
  <2>1. /\ identity' = identity /\ bans' = bans /\ call' = call /\ clock' = clock
        /\ crossed' = crossed /\ overtaken' = overtaken
    BY <1>6 DEF identityVars
  <2>2. \A j \in Key : (j \notin Known => identity[j] = Unknown) /\ (j \in Known => identity[j].status # "none")
    BY Facts DEF Known
  <2> QED BY <2>1, <2>2, Facts, RowsStay
<1> QED BY <1>1, <1>2, <1>3, <1>4, <1>5, <1>6 DEF IdentityNext

\* The invariant holds in every state.
THEOREM RegistryIsSound == ASSUME RegistryAssumption PROVE IdentitySpec => []RegistrySound
BY RegistryInitSound, RegistryStepSound, PTL DEF IdentitySpec

\* Every variable holds a value of its kind.
THEOREM IdentityTypeCorrect == ASSUME RegistryAssumption PROVE IdentitySpec => []IdentityTypeOK
<1>1. RegistrySound => IdentityTypeOK
  BY DEF RegistrySound
<1> QED BY <1>1, RegistryIsSound, PTL

\* A banned key's row stays failed, but for one banned under a request of its own
\* (is_banned against mark_verified).
THEOREM BannedStayBanned == ASSUME RegistryAssumption PROVE IdentitySpec => []BansStick
<1>1. RegistrySound => BansStick
  BY DEF RegistrySound
<1> QED BY <1>1, RegistryIsSound, PTL

\* A key that succeeds a banned one is banned by the time its status is looked at
\* (_succeed), however many keys, mailboxes and requests there are.
THEOREM BansPassOn == ASSUME RegistryAssumption PROVE IdentitySpec => []RebirthKeepsTheBan
<1>1. RegistrySound => RebirthKeepsTheBan
  BY DEF RegistrySound, BanIsCarried, RebirthKeepsTheBan
<1> QED BY <1>1, RegistryIsSound, PTL

\* It is as old by then as what it succeeds (_succeed).
THEOREM AgePassesOn == ASSUME RegistryAssumption PROVE IdentitySpec => []RebirthKeepsTheAge
<1>1. RegistrySound => RebirthKeepsTheAge
  <2> SUFFICES ASSUME RegistrySound, NEW r \in Call, call[r].at = "judge",
                      KeyOf(r) \in Known \ crossed, ~Stale(r),
                      NEW k \in Known \cap (call[r].kin \ crossed)
               PROVE  identity[KeyOf(r)].first <= identity[k].first
    BY DEF RebirthKeepsTheAge
  <2> QED BY DEF RegistrySound, AgeIsCarried
<1> QED BY <1>1, RegistryIsSound, PTL

\* No step takes a mailbox from a key, but from one two of whose requests crossed.
LEMMA MailboxStep ==
    ASSUME RegistryAssumption, RegistrySound, [IdentityNext]_identityVars
    PROVE  KeepsTheMailbox
<1> SUFFICES ASSUME NEW k \in Key, identity[k].method = "email", k \notin crossed
             PROVE  identity'[k].method = "email"
  BY DEF KeepsTheMailbox
<1>1. k \in Known /\ identity[k].status # "unverified"
  BY Facts, Nothing DEF RegistrySound, RowsSound, Known
<1>2. ASSUME NEW r \in Call, NEW cert \in Cert, NEW claims \in BOOLEAN, Arrive(r, cert, claims)
      PROVE  identity'[k].method = "email"
  BY <1>2 DEF Arrive
<1>3. ASSUME NEW r \in Call, Look(r) \/ Link(r) \/ Judge(r) \/ TakeTurn(r) \/ Wait20s(r) \/ Prove(r)
      PROVE  identity'[k].method = "email"
  BY <1>3 DEF Look, Link, Judge, TakeTurn, Wait20s, Prove
<1>4. ASSUME NEW r \in Call, Insert(r) PROVE identity'[k].method = "email"
  <2>1. CASE KeyOf(r) \in Known
    BY <1>4, <2>1 DEF Insert, KeyOf
  <2>2. CASE KeyOf(r) \notin Known
    BY <1>1, <1>4, <2>2, Facts DEF Insert, KeyOf
  <2> QED BY <2>1, <2>2
<1>5. ASSUME NEW r \in Call, Evict(r) PROVE identity'[k].method = "email"
  BY <1>1, <1>5 DEF Evict
<1>6. ASSUME NEW r \in Call, Upsert(r) PROVE identity'[k].method = "email"
  <2>1. CASE KeyOf(r) # k \/ Stale(r) \/ KeyOf(r) \notin Known
    BY <1>6, <2>1, Facts DEF Upsert, KeyOf
  <2>2. CASE KeyOf(r) = k /\ ~Stale(r) /\ k \in Known
    <3>1. call[r].at = "write" /\ identity' = [identity EXCEPT
             ![k].method = call[r].cert.method, ![k].mail = call[r].cert.mail,
             ![k].status = IF call[r].was = "pow" /\ call[r].cert.method = "email" /\ @ # "failed"
                           THEN "verified" ELSE @]
      BY <1>6, <2>2 DEF Upsert, KeyOf
    <3>2. call[r].was = "email"
      BY <2>2, <3>1 DEF RegistrySound, ReadStands
    <3>3. call[r].cert.method = "email"
      BY <2>2, <3>1, <3>2, Facts DEF Stale
    <3> QED BY <3>1, <3>3, Facts DEF RowType
  <2> QED BY <2>1, <2>2
<1>7. ASSUME NEW r \in Call, Carry(r) PROVE identity'[k].method = "email"
  <2> DEFINE j == KeyOf(r)
             row == IF j \in Known
                    THEN [identity[j] EXCEPT !.first = Carried(identity[j].first, call[r].age), !.succeededBy = None]
                    ELSE identity[j]
  <2>1. call[r].at = "carry" /\ identity' = [identity EXCEPT ![j] = row]
    BY <1>7 DEF Carry
  <2>2. j \in Key
    BY <2>1, Facts
  <2>3. row.method = identity[j].method
    BY <2>2, Facts DEF RowType
  <2> HIDE DEF row
  <2> QED BY <2>1, <2>2, <2>3, Facts
<1>8. ASSUME NEW r \in Call, Point(r) PROVE identity'[k].method = "email"
  BY <1>8, Facts DEF Point, RowType
<1>9. ASSUME NEW j \in Key, Ban(j) PROVE identity'[k].method = "email"
  BY <1>9, BanRows
<1>10. ASSUME NEW r \in Call, Inherit(r) PROVE identity'[k].method = "email"
  BY <1>9, <1>10, Facts DEF Inherit
<1>11. ASSUME NEW r \in Call, MarkFailed(r) PROVE identity'[k].method = "email"
  BY <1>9, <1>11, Facts DEF MarkFailed
<1>12. ASSUME NEW j \in Key, Evidence(j) PROVE identity'[k].method = "email"
  BY <1>9, <1>12 DEF Evidence
<1>13. ASSUME NEW r \in Call, MarkVerified(r) PROVE identity'[k].method = "email"
  <2> DEFINE j == KeyOf(r)
             row == IF j \in Known THEN [identity[j] EXCEPT !.status = "verified"] ELSE identity[j]
  <2>1. call[r].at = "good" /\ identity' = [identity EXCEPT ![j] = row]
    BY <1>13 DEF MarkVerified
  <2>2. j \in Key
    BY <2>1, Facts
  <2>3. row.method = identity[j].method
    BY <2>2, Facts DEF RowType
  <2> HIDE DEF row
  <2> QED BY <2>1, <2>2, <2>3, Facts
<1>14. CASE UNCHANGED identityVars
  BY <1>14 DEF identityVars
<1> QED BY <1>2, <1>3, <1>4, <1>5, <1>6, <1>7, <1>8, <1>10, <1>11, <1>12, <1>13, <1>14 DEF IdentityNext

\* An old certificate never takes a key back to proof of work (observe).
THEOREM MailboxesStay ==
    ASSUME RegistryAssumption PROVE IdentitySpec => [][KeepsTheMailbox]_identityVars
<1>1. IdentitySpec => []RegistrySound
  BY RegistryIsSound
<1>2. RegistrySound /\ [IdentityNext]_identityVars => [KeepsTheMailbox]_identityVars
  BY MailboxStep
<1> QED BY <1>1, <1>2, PTL DEF IdentitySpec

=============================================================================
