------------------------ MODULE AdmissionGateProofs -------------------------
(***************************************************************************)
(* Theorems of AdmissionGate, for any number of clients, quotes, payments  *)
(* under way and pool entries, and any quorum.  Two invariants, the second *)
(* going on from the first:                                                *)
(*   GateSound  a nonce is checked by one payment at a time and is burned  *)
(*              for good once paid; what the server knows is right and     *)
(*              only a liar's claim is wrong;                              *)
(*   Lent       an entry is lent to one quote and settled by one payment,  *)
(*              of a client that never had it before.                      *)
(***************************************************************************)
EXTENDS AdmissionGate, FiniteSetTheorems, TLAPS

-----------------------------------------------------------------------------
\* What the pool holds at the start: rows as they were minted, no false
\* answer of the server's own, no claim of an honest client that is false.
TrueRow(r) ==
    /\ r.class = "silver" => r.origin = "claim"
    /\ r.class = "gold" /\ r.origin # "claim" => r.right
    /\ ~r.right => r.source \in Client \ Honest
    /\ r.source \in r.keys \cup {None}
    /\ r.retired => r.lease = None

\* The constants: None is no peer, quote or entry, and the pool the node was
\* started on holds such rows, lent to nobody.
GateAssumption ==
    /\ None \notin Client \cup Nonce \cup Entry
    /\ Honest \subseteq Client
    /\ \A rows \in FirstRows :
         /\ rows \in [Entry -> RowType]
         /\ \A e \in Entry : TrueRow(rows[e]) /\ rows[e].lease = None /\ rows[e].votes = 0

-----------------------------------------------------------------------------
\* A payment under way.
Active(k) == check[k].at # "idle"

\* A payment that is over leaves nothing behind.
Blank == \A k \in Check : ~Active(k) => check[k] = NoCheck

\* A nonce is burned while it is checked, by one payment, and for good once
\* it was paid.
Burned ==
    /\ \A k \in Check : Active(k) => /\ check[k].nonce \in seen
                                     /\ quote[check[k].nonce].at = "quoted"
    /\ \A j, k \in Check : Active(j) /\ Active(k) /\ check[j].nonce = check[k].nonce => j = k
    /\ \A n \in Nonce : paid[n] # 0 => /\ paid[n] = 1 /\ n \in seen
                                       /\ \A k \in Check : Active(k) => check[k].nonce # n

Quoted == \A n \in Nonce : quote[n].at = "quoted" => quote[n].client \in Client

\* What the server knows is right, and only a liar's claim is wrong.
PoolIsTrue == /\ \A e \in Entry : TrueRow(row[e])
              /\ \A k \in Check, e \in Entry : TrueRow(check[k].held[e])

\* The payment of a client that solves what it is asked finds nothing wrong.
HonestWork ==
    \A k \in Check : Active(k) /\ Client_(k) \in Honest =>
       /\ check[k].wrong = {} /\ check[k].at # "used" /\ ~check[k].lied
       /\ check[k].at \in {"sample", "settle"} => check[k].good

\* The inductive invariant of types, payments and blame.
GateTyped == GateTypeOK /\ Blank /\ Quoted /\ Burned /\ PoolIsTrue
GateSound == GateTyped /\ HonestWork

\* A row that is or was in the pool.
Born(r) == r.class # "none" \/ r.retired

\* What is lent is lent to one quote, and to keys that never had it.
LeasesAreNew ==
    \A e \in Entry : row[e].lease # None =>
        /\ Born(row[e])
        /\ quote[row[e].lease].at = "quoted"
        /\ quote[row[e].lease].client \notin row[e].keys

\* An entry has yet to be settled by one payment at most, whose client never
\* had it before; nobody else gets it until then.
OneSettles ==
    /\ \A k \in Check : \A e \in check[k].todo :
         /\ Born(row[e])
         /\ row[e].lease = check[k].nonce \/ row[e].retired
         /\ Client_(k) \notin row[e].keys
    /\ \A j, k \in Check : check[j].todo \cap check[k].todo # {} => j = k

\* Between the commits of a settlement its client is on record, and the
\* clients that stand there are as many.
HalfSettled ==
    /\ \A k \in Check : check[k].half # None =>
         /\ check[k].at \in {"used", "settle"} /\ Born(row[check[k].half])
         /\ check[k].half \in Rows =>
              /\ Client_(k) \in row[check[k].half].keys
              /\ Client_(k) \notin voters[check[k].half]
              /\ Client_(k) # row[check[k].half].source
    /\ \A j, k \in Check :
         check[j].half = check[k].half /\ check[k].half \in Rows /\ Client_(j) = Client_(k) => j = k

\* Who voted is on record, and voted once.
VotersOnRecord ==
    \A e \in Entry :
        /\ IsFiniteSet(voters[e])
        /\ ~Born(row[e]) => voters[e] = {}
        /\ e \in Rows => /\ voters[e] \subseteq row[e].keys /\ row[e].source \notin voters[e]
                         /\ row[e].votes <= Cardinality(voters[e])

\* Solved probes are claims.
ProbesAreClaims ==
    \A k \in Check : /\ check[k].at \notin {"sample", "settle"} => check[k].audits = {}
                     /\ \A e \in check[k].audits : ~FirstParty(check[k].held[e])

\* Gold that was spent is out of the pool, or on its way out.
SpentIsOut ==
    \A e \in Entry \ regiven : settled[e] # {} =>
        /\ \E n \in Nonce : settled[e] = {n}
        /\ row[e].lease = None
        /\ \A k \in Check : e \notin check[k].todo
        /\ row[e].retired \/ \E k \in Check : check[k].half = e /\ Retires(check[k], e)

\* The inductive invariant of what is lent, voted and spent.
Lent == LeasesAreNew /\ OneSettles /\ HalfSettled /\ VotersOnRecord /\ ProbesAreClaims /\ SpentIsOut

\* The rows and the payment that stand for nothing.
LEMMA Blanks ==
    /\ NoRow \in RowType /\ Gone \in RowType /\ NoCheck \in CheckType
    /\ NoRow.lease = None /\ Gone.lease = None /\ Gone.class = "none" /\ Gone.retired /\ Gone.keys = {}
    /\ TrueRow(NoRow) /\ TrueRow(Gone) /\ ~Born(NoRow) /\ Born(Gone)
    /\ NoCheck.at = "idle" /\ NoCheck.todo = {} /\ NoCheck.half = None /\ NoCheck.audits = {}
    /\ \A e \in Entry : NoCheck.held[e] = NoRow
BY DEF NoRow, Gone, NoCheck, RowType, CheckType, TrueRow, Born

\* The node starts with an untouched pool, no quote and no payment.
LEMMA TypeInit == GateAssumption /\ GateInit => GateSound
<1> SUFFICES ASSUME GateAssumption, GateInit PROVE GateSound
  OBVIOUS
<1>1. GateTypeOK
  BY Blanks DEF GateInit, GateAssumption, GateTypeOK, NoQuote
<1>2. Blank /\ Quoted /\ Burned
  BY Blanks DEF GateInit, NoQuote, Blank, Quoted, Burned, Active
<1>3. PoolIsTrue
  BY Blanks DEF GateInit, GateAssumption, PoolIsTrue
<1>4. HonestWork
  BY Blanks DEF GateInit, HonestWork, Active
<1> QED BY <1>1, <1>2, <1>3, <1>4 DEF GateSound, GateTyped

\* A payment under way answers a quote, and is its client's.
LEMMA ClientOf ==
    ASSUME GateSound, NEW k \in Check, Active(k)
    PROVE  Client_(k) \in Client /\ check[k].nonce \in Nonce
BY DEF GateSound, GateTyped, Burned, Quoted, Client_, GateTypeOK, CheckType

\* What a vote leaves as it was, and what it makes of the row.
LEMMA VotedRow ==
    ASSUME NEW r \in RowType
    PROVE  /\ Voted(r) \in RowType /\ Voted(r).class \in {"gold", r.class} /\ Voted(r).votes = r.votes + 1
           /\ Voted(r).origin = r.origin /\ Voted(r).right = r.right /\ Voted(r).source = r.source
           /\ Voted(r).keys = r.keys /\ Voted(r).lease = r.lease /\ Voted(r).retired = r.retired
<1> DEFINE class == IF r.votes + 1 >= Quorum THEN "gold" ELSE r.class
<1>1. class \in {"gold", r.class}
  OBVIOUS
<1>2. Voted(r) = [r EXCEPT !.votes = r.votes + 1, !.class = class]
  BY DEF Voted
<1> HIDE DEF class
<1>3. class \in {"none", "gold", "silver"} /\ r.votes + 1 \in Nat
  BY <1>1 DEF RowType
<1>4. Voted(r) \in RowType
  BY <1>2, <1>3 DEF RowType
<1>5. /\ Voted(r).class = class /\ Voted(r).votes = r.votes + 1
      /\ Voted(r).origin = r.origin /\ Voted(r).right = r.right /\ Voted(r).source = r.source
      /\ Voted(r).keys = r.keys /\ Voted(r).lease = r.lease /\ Voted(r).retired = r.retired
  BY <1>2 DEF RowType
<1> QED BY <1>1, <1>4, <1>5

\* The updates of a row make rows,
LEMMA RowsTyped ==
    ASSUME NEW r \in RowType
    PROVE  /\ Retired(r) \in RowType /\ Voted(r) \in RowType /\ Gilded(r) \in RowType
           /\ \A c \in Client : Recorded(r, c) \in RowType
           /\ \A n \in Nonce : [r EXCEPT !.lease = n] \in RowType
<1>1. Retired(r) \in RowType /\ \A c \in Client : Recorded(r, c) \in RowType
  BY DEF RowType, Recorded, Retired
<1>2. Gilded(r) \in RowType /\ \A n \in Nonce : [r EXCEPT !.lease = n] \in RowType
  BY DEF RowType, Gilded
<1> QED BY <1>1, <1>2, VotedRow

\* and leave what the server knows right.
LEMMA RowsTrue ==
    ASSUME NEW r \in RowType, TrueRow(r)
    PROVE  /\ TrueRow(Retired(r)) /\ TrueRow(Gilded(r)) /\ (r.class # "none" => TrueRow(Voted(r)))
           /\ \A c \in Client : TrueRow(Recorded(r, c))
           /\ ~r.retired => \A n \in Nonce : TrueRow([r EXCEPT !.lease = n])
<1>1. \A c \in Client : TrueRow(Recorded(r, c))
  BY DEF RowType, TrueRow, Recorded
<1>2. TrueRow(Retired(r))
  BY DEF RowType, TrueRow, Retired
<1>3. r.class # "none" => TrueRow(Voted(r))
  BY VotedRow DEF TrueRow, RowType
<1>4. TrueRow(Gilded(r))
  BY DEF RowType, TrueRow, Gilded
<1>5. ~r.retired => \A n \in Nonce : TrueRow([r EXCEPT !.lease = n])
  BY DEF RowType, TrueRow
<1> QED BY <1>1, <1>2, <1>3, <1>4, <1>5

\* A commit on one row.
LEMMA UpdatesOne ==
    ASSUME GateSound, NEW e \in Entry, NEW fresh \in RowType, e \in Rows => TrueRow(fresh), Update(e, fresh)
    PROVE  /\ row' \in [Entry -> RowType] /\ \A d \in Entry : TrueRow(row'[d])
           /\ row'[e] = IF e \in Rows THEN fresh ELSE row[e]
           /\ \A d \in Entry \ {e} : row'[d] = row[d]
<1>1. row \in [Entry -> RowType] /\ \A d \in Entry : TrueRow(row[d])
  BY DEF GateSound, GateTyped, GateTypeOK, PoolIsTrue
<1>2. row' = [row EXCEPT ![e] = IF e \in Rows THEN fresh ELSE row[e]]
  BY DEF Update
<1> QED BY <1>1, <1>2

\* A fresh row, or none.
LEMMA MintsOne ==
    ASSUME GateSound, NEW class, NEW origin, NEW right, NEW c, Mint(class, origin, right, c),
           Minted(class, origin, right, c, {c}) \in RowType, TrueRow(Minted(class, origin, right, c, {c}))
    PROVE  /\ row' \in [Entry -> RowType] /\ \A d \in Entry : TrueRow(row'[d])
           /\ \A d \in Entry : row'[d] = row[d] \/ (row[d] = NoRow /\ row'[d] = Minted(class, origin, right, c, {c}))
<1>1. row \in [Entry -> RowType] /\ \A d \in Entry : TrueRow(row[d])
  BY DEF GateSound, GateTyped, GateTypeOK, PoolIsTrue
<1> DEFINE fresh == Minted(class, origin, right, c, {c})
<1> HIDE DEF fresh
<1>2. UNCHANGED row \/ \E e \in Entry : row[e] = NoRow /\ row' = [row EXCEPT ![e] = fresh]
  BY DEF Mint, Unborn, fresh
<1>3. fresh \in RowType /\ TrueRow(fresh)
  BY DEF fresh
<1>4. row' \in [Entry -> RowType]
  BY <1>1, <1>2, <1>3
<1>5. \A d \in Entry : row'[d] = row[d] \/ (row[d] = NoRow /\ row'[d] = fresh)
  BY <1>1, <1>2
<1>6. \A d \in Entry : TrueRow(row'[d])
  BY <1>1, <1>3, <1>5
<1> QED BY <1>4, <1>5, <1>6 DEF fresh

\* A minted row, field by field.
LEMMA MintedRow ==
    ASSUME NEW class \in {"gold", "silver"}, NEW origin \in {"sample", "garbage", "claim"},
           NEW right \in BOOLEAN, NEW c \in Client
    PROVE  LET fresh == Minted(class, origin, right, c, {c})
           IN  /\ fresh \in RowType /\ fresh.class = class /\ fresh.origin = origin /\ fresh.right = right
               /\ fresh.source = c /\ fresh.keys = {c} /\ fresh.lease = None /\ ~fresh.retired /\ fresh.votes = 0
BY DEF Minted, NoRow, RowType

\* What a settlement mints is right: the server's own answers, or a claim that
\* only a liar makes false.
LEMMA MintsTrue ==
    ASSUME GateSound, NEW class \in {"gold", "silver"}, NEW origin \in {"sample", "garbage", "claim"},
           NEW right \in BOOLEAN, NEW c \in Client, Mint(class, origin, right, c),
           class = "silver" => origin = "claim", class = "gold" => right,
           ~right => c \notin Honest
    PROVE  row' \in [Entry -> RowType] /\ \A e \in Entry : TrueRow(row'[e])
<1> DEFINE fresh == Minted(class, origin, right, c, {c})
<1>1. /\ fresh \in RowType /\ fresh.class = class /\ fresh.origin = origin /\ fresh.right = right
      /\ fresh.source = c /\ fresh.keys = {c} /\ fresh.lease = None /\ ~fresh.retired
  BY MintedRow
<1> HIDE DEF fresh
<1>2. TrueRow(fresh)
  BY <1>1 DEF TrueRow
<1> QED BY <1>1, <1>2, MintsOne DEF fresh

\* A payment that goes on with the nonce it has burned.
LEMMA GoesOn ==
    ASSUME GateSound, NEW k \in Check, Active(k), check'[k].at # "idle", check'[k].nonce = check[k].nonce,
           \A j \in Check \ {k} : check'[j] = check[j], UNCHANGED <<quote, seen, paid>>
    PROVE  Blank' /\ Quoted' /\ Burned'
BY DEF GateSound, GateTyped, Blank, Quoted, Burned, Active

\* A payment that is over, its nonce burned for good or released.
LEMMA IsOver ==
    ASSUME GateSound, NEW k \in Check, Active(k), check'[k] = NoCheck,
           \A j \in Check \ {k} : check'[j] = check[j], UNCHANGED quote,
           \/ UNCHANGED <<seen, paid>>
           \/ Release(check[k].nonce) /\ UNCHANGED paid
           \/ paid' = [paid EXCEPT ![check[k].nonce] = @ + 1] /\ UNCHANGED seen
    PROVE  Blank' /\ Quoted' /\ Burned'
<1>1. Blank' /\ Quoted'
  BY Blanks DEF GateSound, GateTyped, Blank, Quoted, Active
<1>2. ASSUME NEW j \in Check, Active(j)' PROVE j # k /\ Active(j) /\ check'[j] = check[j]
  BY <1>2, Blanks DEF Active
<1>3. /\ check[k].nonce \in Nonce /\ paid[check[k].nonce] = 0 /\ check[k].nonce \in seen
      /\ \A j \in Check \ {k} : Active(j) => check[j].nonce # check[k].nonce
  BY ClientOf DEF GateSound, GateTyped, Burned, GateTypeOK
<1>4. ASSUME \A j \in Check \ {k} : Active(j) => check[j].nonce \in seen',
             \A n \in Nonce : paid'[n] # 0 =>
               paid'[n] = 1 /\ n \in seen' /\ \A j \in Check \ {k} : Active(j) => check[j].nonce # n
      PROVE  Burned'
  <2>1. \A j \in Check : Active(j)' => check'[j].nonce \in seen' /\ quote'[check'[j].nonce].at = "quoted"
    BY <1>2, <1>4 DEF GateSound, GateTyped, Burned
  <2>2. \A i, j \in Check : Active(i)' /\ Active(j)' /\ check'[i].nonce = check'[j].nonce => i = j
    BY <1>2 DEF GateSound, GateTyped, Burned
  <2>3. \A n \in Nonce : paid'[n] # 0 =>
          paid'[n] = 1 /\ n \in seen' /\ \A j \in Check : Active(j)' => check'[j].nonce # n
    BY <1>2, <1>4
  <2> QED BY <2>1, <2>2, <2>3 DEF Burned
<1>5. \A j \in Check \ {k} : Active(j) => check[j].nonce \in seen
  BY DEF GateSound, GateTyped, Burned
<1>6. \A n \in Nonce : paid[n] # 0 =>
        paid[n] = 1 /\ n \in seen /\ \A j \in Check \ {k} : Active(j) => check[j].nonce # n
  BY DEF GateSound, GateTyped, Burned
<1>7. CASE UNCHANGED <<seen, paid>>
  <2>1. seen' = seen /\ paid' = paid
    BY <1>7
  <2> QED BY <1>1, <1>4, <1>5, <1>6, <2>1
<1>8. CASE Release(check[k].nonce) /\ UNCHANGED paid
  <2>1. seen' = seen \ {check[k].nonce} /\ paid' = paid
    BY <1>8 DEF Release
  <2>2. \A j \in Check \ {k} : Active(j) => check[j].nonce \in seen'
    BY <1>3, <1>5, <2>1
  <2>3. \A n \in Nonce : paid'[n] # 0 =>
          paid'[n] = 1 /\ n \in seen' /\ \A j \in Check \ {k} : Active(j) => check[j].nonce # n
    BY <1>3, <1>6, <2>1
  <2> QED BY <1>1, <1>4, <2>2, <2>3
<1>9. CASE paid' = [paid EXCEPT ![check[k].nonce] = @ + 1] /\ UNCHANGED seen
  <2>1. \A n \in Nonce : paid'[n] = IF n = check[k].nonce THEN 1 ELSE paid[n]
    BY <1>3, <1>9 DEF GateSound, GateTyped, GateTypeOK
  <2>2. seen' = seen
    BY <1>9
  <2>3. \A n \in Nonce : paid'[n] # 0 =>
          paid'[n] = 1 /\ n \in seen' /\ \A j \in Check \ {k} : Active(j) => check[j].nonce # n
    BY <1>3, <1>6, <2>1, <2>2
  <2> QED BY <1>1, <1>4, <1>5, <2>2, <2>3
<1> QED BY <1>1, <1>7, <1>8, <1>9

-----------------------------------------------------------------------------
\* Quotes and sweeps leave what is checked alone.
LEMMA QuotesSound ==
    ASSUME GateAssumption, GateSound, NEW n \in Nonce,
           Sweep(n) \/ Evict(n) \/ PassDeadline(n) \/ \E c \in Client : Quote(n, c)
    PROVE  GateTyped'
<1> USE DEF GateSound, GateTyped
<1>0. UNCHANGED <<seen, check, paid, blamed, settled, voters>>
  BY DEF Sweep, Evict, PassDeadline, Quote
<1>1. /\ \A m \in Nonce : quote[m].at = "quoted" => quote'[m] = quote[m]
      /\ quote' \in [Nonce -> [at : {"unasked", "evict", "lease", "quoted"},
                               client : Client \cup {None}, packet : SUBSET Entry]]
      /\ Quoted'
  <2>1. CASE Sweep(n) \/ Evict(n) \/ PassDeadline(n)
    <3>1. \/ UNCHANGED quote
          \/ quote[n].at # "quoted" /\ \E at \in {"evict", "lease"} : quote' = [quote EXCEPT ![n].at = at]
      BY <2>1 DEF Sweep, Evict, PassDeadline, Stage
    <3> QED BY <3>1 DEF GateTypeOK, Quoted
  <2>2. CASE \E c \in Client : Quote(n, c)
    BY <2>2 DEF Quote, Packets, Free, Rows, GateTypeOK, Quoted
  <2> QED BY <2>1, <2>2
<1>2. row' \in [Entry -> RowType] /\ \A e \in Entry : TrueRow(row'[e])
  <2>0. row \in [Entry -> RowType] /\ \A e \in Entry : TrueRow(row[e])
    BY DEF GateTypeOK, PoolIsTrue
  <2>1. CASE Sweep(n)
    <3>1. row' = [e \in Entry |-> IF row[e].lease \in late THEN Retired(row[e]) ELSE row[e]]
      BY <2>1 DEF Sweep
    <3> QED BY <2>0, <3>1, RowsTyped, RowsTrue
  <2>2. CASE Evict(n)
    <3>1. UNCHANGED row \/ \E e \in Entry : row' = [row EXCEPT ![e] = Gone]
      BY <2>2 DEF Evict, Rows
    <3> QED BY <2>0, <3>1, Blanks
  <2>3. CASE PassDeadline(n)
    BY <2>0, <2>3 DEF PassDeadline
  <2>4. ASSUME NEW c \in Client, Quote(n, c)
        PROVE  row' \in [Entry -> RowType] /\ \A e \in Entry : TrueRow(row'[e])
    <3>1. PICK p \in Packets(c) : row' = [e \in Entry |-> IF e \in p THEN [row[e] EXCEPT !.lease = n] ELSE row[e]]
      BY <2>4 DEF Quote
    <3>2. \A e \in p : ~row[e].retired
      BY <3>1 DEF Packets, Free
    <3>4. \A e \in Entry : row'[e] = IF e \in p THEN [row[e] EXCEPT !.lease = n] ELSE row[e]
      BY <3>1
    <3>5. ASSUME NEW e \in Entry PROVE row'[e] \in RowType /\ TrueRow(row'[e])
      <4>1. CASE e \in p
        <5>1. row'[e] = [row[e] EXCEPT !.lease = n]
          BY <3>4, <4>1
        <5>2. row[e] \in RowType /\ TrueRow(row[e]) /\ ~row[e].retired
          BY <2>0, <3>2, <4>1
        <5>3. [row[e] EXCEPT !.lease = n] \in RowType /\ TrueRow([row[e] EXCEPT !.lease = n])
          BY <5>2, RowsTyped, RowsTrue
        <5> QED BY ONLY <5>1, <5>3
      <4>2. CASE e \notin p
        BY <2>0, <3>4, <4>2
      <4> QED BY <4>1, <4>2
    <3> QED BY <3>1, <3>5
  <2> QED BY <2>1, <2>2, <2>3, <2>4
<1>3. late' \subseteq Nonce /\ regiven' \subseteq Entry
  BY DEF Sweep, Evict, PassDeadline, Quote, Packets, Free, Rows, GateTypeOK
<1>4. GateTypeOK'
  BY <1>0, <1>1, <1>2, <1>3 DEF GateTypeOK
<1>5. Blank' /\ Burned' /\ PoolIsTrue'
  BY <1>0, <1>1, <1>2 DEF Blank, Burned, PoolIsTrue, Active, GateTypeOK, CheckType
<1> QED BY <1>1, <1>4, <1>5

\* Checks of a packet do not touch the pool.
LEMMA ChecksSound ==
    ASSUME GateAssumption, GateSound, NEW k \in Check,
           \/ \E n \in Nonce : \E wrong \in SUBSET (quote[n].packet \cup {Fresh}) : Present(k, n, wrong)
           \/ ReadLease(k) \/ Prefilter(k) \/ Busy(k) \/ Verify(k) \/ Fail(k)
    PROVE  GateTyped'
<1> USE DEF GateSound, GateTyped
<1>0. /\ UNCHANGED <<row, quote, late, settled, regiven, voters, paid>> /\ check[k] \in CheckType
      /\ row \in [Entry -> RowType] /\ check \in [Check -> CheckType]
  BY DEF Present, ReadLease, Prefilter, Busy, Verify, Fail, GateTypeOK
<1>1. ASSUME check' \in [Check -> CheckType], Blank', Burned', blamed' \subseteq Client,
             \A j \in Check, e \in Entry : TrueRow(check'[j].held[e])
      PROVE  GateTyped'
  <2>1. seen' \subseteq Nonce
    BY DEF Present, ReadLease, Prefilter, Busy, Verify, Fail, Consume, Release, GateTypeOK
  <2>2. GateTypeOK'
    BY <1>0, <1>1, <2>1 DEF GateTypeOK
  <2> QED BY <1>0, <1>1, <2>2 DEF Quoted, PoolIsTrue
<1>2. ASSUME NEW n \in Nonce, NEW wrong \in SUBSET (quote[n].packet \cup {Fresh}), Present(k, n, wrong)
      PROVE  GateTyped'
  <2> DEFINE begun == [NoCheck EXCEPT !.at = "presented", !.nonce = n, !.wrong = wrong]
  <2>1. /\ begun \in CheckType /\ begun.at = "presented" /\ begun.nonce = n /\ begun.held = NoCheck.held
    <3>1. wrong \subseteq Entry \cup {Fresh}
      BY DEF GateTypeOK
    <3> QED BY <3>1, Blanks DEF CheckType
  <2> HIDE DEF begun
  <2>2. /\ check' = [check EXCEPT ![k] = begun] /\ seen' = seen \cup {n} /\ n \notin seen
        /\ quote[n].at = "quoted" /\ check[k].at = "idle"
    BY <1>2 DEF Present, Consume, begun
  <2>3. check'[k] = begun /\ \A j \in Check \ {k} : check'[j] = check[j]
    BY <1>0, <2>2
  <2>4. check' \in [Check -> CheckType]
    BY <1>0, <2>1, <2>2
  <2>5. Blank'
    BY <2>1, <2>3 DEF Blank, Active
  <2>6. Burned'
    BY <1>0, <2>1, <2>2, <2>3 DEF Burned, Active
  <2>7. \A j \in Check, e \in Entry : TrueRow(check'[j].held[e])
    BY <2>1, <2>3, Blanks DEF PoolIsTrue
  <2> QED BY <1>1, <1>2, <2>4, <2>5, <2>6, <2>7 DEF Present, GateTypeOK
<1>3. ASSUME NEW next \in CheckType, Active(k), next.at # "idle", next.nonce = check[k].nonce,
             check' = [check EXCEPT ![k] = next], \A e \in Entry : TrueRow(next.held[e]),
             blamed' \subseteq Client, UNCHANGED seen
      PROVE  GateTyped'
  <2>1. check'[k] = next /\ \A j \in Check \ {k} : check'[j] = check[j]
    BY <1>0, <1>3
  <2>2. check' \in [Check -> CheckType]
    BY <1>0, <1>3
  <2>3. Blank' /\ Burned'
    BY <1>0, <1>3, <2>1, GoesOn
  <2>4. \A j \in Check, e \in Entry : TrueRow(check'[j].held[e])
    BY <1>3, <2>1 DEF PoolIsTrue
  <2> QED BY <1>1, <1>3, <2>2, <2>3, <2>4
<1>4. ASSUME Active(k), Done(k), blamed' \subseteq Client, Release(check[k].nonce) \/ UNCHANGED seen
      PROVE  GateTyped'
  <2>1. check'[k] = NoCheck /\ (\A j \in Check \ {k} : check'[j] = check[j]) /\ check' \in [Check -> CheckType]
    BY <1>0, <1>4, Blanks DEF Done
  <2>2. Blank' /\ Burned'
    BY <1>0, <1>4, <2>1, IsOver
  <2>3. \A j \in Check, e \in Entry : TrueRow(check'[j].held[e])
    BY <2>1, Blanks DEF PoolIsTrue
  <2> QED BY <1>1, <1>4, <2>1, <2>2, <2>3
<1>5. \A e \in Entry : TrueRow(row[e]) /\ TrueRow(check[k].held[e])
  BY DEF PoolIsTrue
<1>6. blamed \subseteq Client
  BY DEF GateTypeOK
<1>7. CASE ReadLease(k)
  <2> DEFINE p == Leased(check[k].nonce)
             next == [check[k] EXCEPT !.at = "prefilter", !.todo = p,
                                      !.held = [e \in Entry |-> IF e \in p THEN row[e] ELSE NoRow]]
  <2>1. p \subseteq Entry
    BY DEF Leased
  <2> HIDE DEF p
  <2>2. Active(k) /\ UNCHANGED <<seen, blamed>> /\ (Done(k) \/ check' = [check EXCEPT ![k] = next])
    BY <1>7 DEF ReadLease, Active, p
  <2>3. next \in CheckType /\ next.at = "prefilter" /\ next.nonce = check[k].nonce
    BY <1>0, <2>1, Blanks DEF CheckType
  <2>4. \A e \in Entry : TrueRow(next.held[e])
    <3>1. next.held = [e \in Entry |-> IF e \in p THEN row[e] ELSE NoRow]
      BY <1>0 DEF CheckType
    <3> QED BY <1>5, <3>1, Blanks
  <2> HIDE DEF next
  <2> QED BY <1>3, <1>4, <1>6, <2>2, <2>3, <2>4
<1>8. CASE Prefilter(k)
  <2>1. PICK at \in {"verify", "used"} : check' = [check EXCEPT ![k] = [check[k] EXCEPT !.at = at]]
    BY <1>8 DEF Prefilter
  <2> DEFINE next == [check[k] EXCEPT !.at = at]
  <2>2. next \in CheckType /\ next.at # "idle" /\ next.nonce = check[k].nonce /\ next.held = check[k].held
    BY <1>0 DEF CheckType
  <2>3. Active(k) /\ UNCHANGED seen
    BY <1>8 DEF Prefilter, Active
  <2>4. blamed' \subseteq Client
    BY <1>6, <1>8, <2>3, ClientOf DEF Prefilter, Blame
  <2> QED BY <1>3, <1>5, <2>1, <2>2, <2>3, <2>4
<1>9. CASE Busy(k)
  BY <1>4, <1>6, <1>9 DEF Busy, Active
<1>10. CASE Verify(k)
  <2>1. PICK good \in BOOLEAN, audits \in SUBSET check[k].todo :
          check' = [check EXCEPT ![k] = [check[k] EXCEPT !.at = "sample", !.good = good, !.audits = audits]]
    <3> DEFINE solved(good, unlike) == IF good THEN Disputed(check[k], unlike) ELSE {}
    <3>1. \A good, unlike : solved(good, unlike) \in SUBSET check[k].todo
      BY DEF Disputed
    <3>2. PICK good \in BOOLEAN, unlike \in SUBSET {e \in check[k].todo : BothWrong(check[k], e)} :
            check' = [check EXCEPT ![k] = [check[k] EXCEPT !.at = "sample", !.good = good,
                                                           !.audits = solved(good, unlike)]]
      BY <1>10 DEF Verify
    <3> HIDE DEF solved
    <3> QED BY <3>1, <3>2
  <2> DEFINE next == [check[k] EXCEPT !.at = "sample", !.good = good, !.audits = audits]
  <2>2. next \in CheckType /\ next.at # "idle" /\ next.nonce = check[k].nonce /\ next.held = check[k].held
    BY <1>0 DEF CheckType
  <2>3. Active(k) /\ UNCHANGED <<seen, blamed>>
    BY <1>10 DEF Verify, Active
  <2> QED BY <1>3, <1>5, <1>6, <2>1, <2>2, <2>3
<1>11. CASE Fail(k)
  <2>1. Active(k) /\ Done(k) /\ UNCHANGED seen /\ blamed' = blamed \cup {Client_(k)}
    BY <1>11 DEF Fail, Active, Blame
  <2> QED BY <1>4, <1>6, <2>1, ClientOf
<1> QED BY <1>2, <1>7, <1>8, <1>9, <1>10, <1>11

\* A settlement writes the pool row by row.
LEMMA SettlesSound ==
    ASSUME GateAssumption, GateSound, NEW k \in Check,
           Sample(k) \/ Record(k) \/ Retire(k) \/ Audit(k) \/ Vote(k) \/ Pass(k)
    PROVE  GateTyped'
<1> USE DEF GateSound, GateTyped
<1>0. /\ UNCHANGED <<quote, late, seen, regiven>> /\ check[k] \in CheckType /\ check \in [Check -> CheckType]
      /\ row \in [Entry -> RowType] /\ \A j \in Check, e \in Entry : TrueRow(check[j].held[e])
      /\ \A e \in Entry : row[e] \in RowType /\ TrueRow(row[e])
  BY DEF Sample, Record, Retire, Audit, Vote, Pass, GateTypeOK, PoolIsTrue
<1>1. Active(k) /\ Client_(k) \in Client /\ check[k].nonce \in Nonce /\ None \notin Entry
  <2>1. Active(k)
    <3>1. check[k].half # None => Active(k)
      BY Blanks DEF Blank
    <3> QED BY <3>1 DEF Sample, Record, Retire, Audit, Vote, Pass, Active
  <2> QED BY <2>1, ClientOf DEF GateAssumption
<1>2. ASSUME row' \in [Entry -> RowType], \A e \in Entry : TrueRow(row'[e]), NEW next \in CheckType,
             check' = [check EXCEPT ![k] = next], next.held = check[k].held, next.nonce = check[k].nonce,
             next.at # "idle", blamed' \subseteq Client, settled' \in [Entry -> SUBSET Nonce],
             voters' \in [Entry -> SUBSET Client], UNCHANGED paid
      PROVE  GateTyped'
  <2>1. check'[k] = next /\ (\A j \in Check \ {k} : check'[j] = check[j]) /\ check' \in [Check -> CheckType]
    BY <1>0, <1>2
  <2>2. Blank' /\ Quoted' /\ Burned'
    BY <1>0, <1>1, <1>2, <2>1, GoesOn
  <2>3. GateTypeOK'
    BY <1>0, <1>2, <2>1 DEF GateTypeOK
  <2>4. PoolIsTrue'
    BY <1>0, <1>2, <2>1 DEF PoolIsTrue
  <2> QED BY <2>2, <2>3, <2>4
<1>3. ASSUME row' \in [Entry -> RowType], \A e \in Entry : TrueRow(row'[e]), Done(k),
             UNCHANGED <<blamed, settled>>, voters' \in [Entry -> SUBSET Client],
             paid' = [paid EXCEPT ![check[k].nonce] = @ + 1] \/ UNCHANGED paid
      PROVE  GateTyped'
  <2>1. check'[k] = NoCheck /\ (\A j \in Check \ {k} : check'[j] = check[j]) /\ check' \in [Check -> CheckType]
    BY <1>0, <1>3, Blanks DEF Done
  <2>2. Blank' /\ Quoted' /\ Burned'
    BY <1>0, <1>1, <1>3, <2>1, IsOver
  <2>3. paid' \in [Nonce -> Nat]
    BY <1>3 DEF GateTypeOK
  <2>4. GateTypeOK'
    BY <1>0, <1>3, <2>1, <2>3 DEF GateTypeOK
  <2>5. PoolIsTrue'
    BY <1>0, <1>3, <2>1, Blanks DEF PoolIsTrue
  <2> QED BY <2>2, <2>4, <2>5
<1>4. blamed \subseteq Client /\ settled \in [Entry -> SUBSET Nonce] /\ voters \in [Entry -> SUBSET Client]
  BY DEF GateTypeOK
<1>5. CASE Sample(k)
  <2> DEFINE origin == IF check[k].good THEN "sample" ELSE "garbage"
             next == [check[k] EXCEPT !.at = "settle"]
  <2>1. Mint("gold", origin, TRUE, Client_(k)) /\ check' = [check EXCEPT ![k] = next]
        /\ UNCHANGED <<blamed, settled, voters, paid>>
    BY <1>5 DEF Sample
  <2>2. origin \in {"sample", "garbage"}
    OBVIOUS
  <2>3. next \in CheckType /\ next.held = check[k].held /\ next.nonce = check[k].nonce /\ next.at # "idle"
    BY <1>0 DEF CheckType
  <2> HIDE DEF origin, next
  <2>4. row' \in [Entry -> RowType] /\ \A e \in Entry : TrueRow(row'[e])
    BY <1>1, <2>1, <2>2, MintsTrue
  <2> QED BY <1>2, <1>4, <2>1, <2>3, <2>4
<1>6. CASE Record(k)
  <2>1. PICK e \in check[k].todo :
          /\ Update(e, Recorded(row[e], Client_(k)))
          /\ check' = [check EXCEPT ![k].todo = @ \ {e},
                                    ![k].half = IF Retires(check[k], e) \/ check[k].good THEN e ELSE None]
          /\ settled' = [settled EXCEPT ![e] = IF FirstParty(check[k].held[e]) THEN @ \cup {check[k].nonce} ELSE @]
    BY <1>6 DEF Record
  <2>2. e \in Entry /\ UNCHANGED <<blamed, voters, paid>>
    BY <1>0, <1>6 DEF CheckType, Record
  <2>3. row' \in [Entry -> RowType] /\ \A d \in Entry : TrueRow(row'[d])
    BY <1>0, <1>1, <2>1, <2>2, RowsTyped, RowsTrue, UpdatesOne
  <2> DEFINE half == IF Retires(check[k], e) \/ check[k].good THEN e ELSE None
             next == [check[k] EXCEPT !.todo = check[k].todo \ {e}, !.half = half]
  <2>4. half \in Entry \cup {None}
    BY <2>2
  <2> HIDE DEF half
  <2>5. next \in CheckType /\ next.held = check[k].held /\ next.nonce = check[k].nonce
        /\ next.at = check[k].at
    BY <1>0, <2>4 DEF CheckType
  <2>6. check' = [check EXCEPT ![k] = next]
    BY <1>0, <2>1 DEF half
  <2>7. settled' \in [Entry -> SUBSET Nonce]
    BY <1>1, <1>4, <2>1, <2>2
  <2> HIDE DEF next
  <2> QED BY <1>1, <1>2, <1>4, <2>2, <2>3, <2>5, <2>6, <2>7 DEF Active
<1>7. CASE Retire(k)
  <2> DEFINE e == check[k].half
             next == [check[k] EXCEPT !.half = None]
  <2>1. e \in Entry /\ Update(e, Retired(row[e])) /\ check' = [check EXCEPT ![k] = next]
        /\ UNCHANGED <<blamed, settled, voters, paid>>
    BY <1>0, <1>7 DEF Retire, CheckType
  <2>2. row' \in [Entry -> RowType] /\ \A d \in Entry : TrueRow(row'[d])
    BY <1>0, <1>1, <2>1, RowsTyped, RowsTrue, UpdatesOne
  <2>3. next \in CheckType /\ next.held = check[k].held /\ next.nonce = check[k].nonce /\ next.at = check[k].at
    BY <1>0 DEF CheckType
  <2> HIDE DEF next
  <2> QED BY <1>1, <1>2, <1>4, <2>1, <2>2, <2>3 DEF Active
<1>8. CASE Audit(k)
  <2> DEFINE e == check[k].half
             lied == check[k].lied \/ e \in check[k].wrong
             next == [check[k] EXCEPT !.half = None, !.lied = lied]
  <2>1. e \in Entry /\ Update(e, Gilded(row[e])) /\ UNCHANGED <<settled, voters, paid>>
    BY <1>0, <1>8 DEF Audit, CheckType
  <2>2. check' = [check EXCEPT ![k] = next]
    BY <1>0, <1>8 DEF Audit
  <2>3. row' \in [Entry -> RowType] /\ \A d \in Entry : TrueRow(row'[d])
    BY <1>0, <1>1, <2>1, RowsTyped, RowsTrue, UpdatesOne
  <2>4. lied \in BOOLEAN
    BY <1>0 DEF CheckType
  <2> HIDE DEF lied
  <2>5. next \in CheckType /\ next.held = check[k].held /\ next.nonce = check[k].nonce /\ next.at = check[k].at
    BY <1>0, <2>4 DEF CheckType
  <2>6. blamed' \subseteq Client
    <3>1. TrueRow(check[k].held[e])
      BY <1>0, <2>1
    <3> QED BY <1>4, <1>8, <3>1 DEF Audit, TrueRow
  <2> HIDE DEF next
  <2> QED BY <1>1, <1>2, <1>4, <2>1, <2>2, <2>3, <2>5, <2>6 DEF Active
<1>9. CASE Vote(k)
  <2> DEFINE e == check[k].half
             next == [check[k] EXCEPT !.half = None]
  <2>1. e \in Entry /\ Update(e, Voted(row[e])) /\ UNCHANGED <<blamed, settled, paid>>
        /\ (Done(k) \/ check' = [check EXCEPT ![k] = next])
    BY <1>0, <1>9 DEF Vote, CheckType
  <2>2. voters' \in [Entry -> SUBSET Client]
    BY <1>1, <1>4, <1>9, <2>1 DEF Vote
  <2>3. row' \in [Entry -> RowType] /\ \A d \in Entry : TrueRow(row'[d])
    <3>1. e \in Rows => row[e].class # "none"
      BY DEF Rows
    <3>2. Voted(row[e]) \in RowType /\ (e \in Rows => TrueRow(Voted(row[e])))
      BY <1>0, <1>1, <2>1, <3>1, RowsTyped, RowsTrue
    <3> QED BY <2>1, <3>2, UpdatesOne
  <2>4. next \in CheckType /\ next.held = check[k].held /\ next.nonce = check[k].nonce /\ next.at = check[k].at
    BY <1>0 DEF CheckType
  <2> HIDE DEF next
  <2> QED BY <1>1, <1>2, <1>3, <1>4, <2>1, <2>2, <2>3, <2>4 DEF Active
<1>10. CASE Pass(k)
  <2>1. PICK right \in BOOLEAN : Mint("silver", "claim", right, Client_(k)) /\ (~right => Fresh \in check[k].wrong)
    BY <1>10 DEF Pass
  <2>2. ~right => Client_(k) \notin Honest
    BY <1>1, <2>1 DEF HonestWork
  <2>3. row' \in [Entry -> RowType] /\ \A e \in Entry : TrueRow(row'[e])
    BY <1>1, <2>1, <2>2, MintsTrue
  <2> QED BY <1>3, <1>4, <1>10, <2>3 DEF Pass
<1> QED BY <1>5, <1>6, <1>7, <1>8, <1>9, <1>10

\* No step finds fault with the payment of an honest client, nor with its claims.
LEMMA HonestStep ==
    ASSUME GateAssumption, GateSound, GateTyped', GateNext
    PROVE  HonestWork' /\ (HonestIsNeverBlamed => HonestIsNeverBlamed')
<1> USE DEF GateSound, GateTyped
<1>1. CASE \E n \in Nonce : Sweep(n) \/ Evict(n) \/ PassDeadline(n) \/ \E c \in Client : Quote(n, c)
  <2>1. UNCHANGED <<check, blamed>> /\ \A n \in Nonce : quote[n].at = "quoted" => quote'[n].client = quote[n].client
    BY <1>1 DEF Sweep, Evict, PassDeadline, Quote, Stage, GateTypeOK
  <2>2. \A k \in Check : Active(k) => Client_(k)' = Client_(k)
    BY <2>1, ClientOf DEF Client_, Burned
  <2> QED BY <2>1, <2>2 DEF HonestWork, Active, HonestIsNeverBlamed
<1>2. ASSUME NEW k \in Check,
             \/ \E n \in Nonce : \E wrong \in SUBSET (quote[n].packet \cup {Fresh}) : Present(k, n, wrong)
             \/ ReadLease(k) \/ Prefilter(k) \/ Busy(k) \/ Verify(k)
             \/ Sample(k) \/ Record(k) \/ Retire(k) \/ Audit(k) \/ Vote(k) \/ Pass(k) \/ Fail(k)
      PROVE  HonestWork' /\ (HonestIsNeverBlamed => HonestIsNeverBlamed')
  <2>0. /\ UNCHANGED quote /\ check \in [Check -> CheckType] /\ check[k] \in CheckType
        /\ \A e \in Entry : TrueRow(check[k].held[e])
    BY <1>2 DEF Present, ReadLease, Prefilter, Busy, Verify, Sample, Record, Retire, Audit, Vote, Pass, Fail,
                GateTypeOK, PoolIsTrue
  <2>1. \A j \in Check \ {k} : check'[j] = check[j]
    BY <1>2, <2>0 DEF Present, ReadLease, Prefilter, Busy, Verify, Sample, Record, Retire, Audit, Vote, Pass, Fail, Done
  <2>2. ASSUME Active(k)' /\ Client_(k)' \in Honest =>
                  /\ check'[k].wrong = {} /\ check'[k].at # "used" /\ ~check'[k].lied
                  /\ check'[k].at \in {"sample", "settle"} => check'[k].good
        PROVE  HonestWork'
    BY <2>0, <2>1, <2>2 DEF HonestWork, Active, Client_
  <2>3. CASE \E n \in Nonce : \E wrong \in SUBSET (quote[n].packet \cup {Fresh}) : Present(k, n, wrong)
    <3>0. PICK n \in Nonce : \E wrong \in SUBSET (quote[n].packet \cup {Fresh}) : Present(k, n, wrong)
      BY <2>3
    <3>1. PICK wrong \in SUBSET (quote[n].packet \cup {Fresh}) : Present(k, n, wrong)
      BY <3>0
    <3> DEFINE begun == [NoCheck EXCEPT !.at = "presented", !.nonce = n, !.wrong = wrong]
    <3>2. begun.nonce = n /\ begun.wrong = wrong /\ begun.at = "presented" /\ ~begun.lied
      BY DEF NoCheck
    <3> HIDE DEF begun
    <3>3. check'[k] = begun /\ UNCHANGED blamed /\ (quote[n].client \in Honest => wrong = {})
      BY <2>0, <3>1 DEF Present, begun
    <3> QED BY <2>0, <2>2, <3>2, <3>3 DEF Client_, HonestIsNeverBlamed
  <2>4. ASSUME check'[k] = NoCheck PROVE HonestWork'
    BY <2>2, <2>4, Blanks DEF Active
  <2>5. ASSUME Active(k), check'[k].nonce = check[k].nonce, check'[k].wrong = check[k].wrong,
               check'[k].at \in {check[k].at, "prefilter", "verify"}, check'[k].good = check[k].good,
               check'[k].lied = check[k].lied
        PROVE  HonestWork'
    BY <2>0, <2>2, <2>5 DEF HonestWork, Client_
  <2>6. CASE ReadLease(k)
    <3>1. UNCHANGED blamed /\ Active(k)
      BY <2>6 DEF ReadLease, Active
    <3>2. CASE Done(k)
      BY <2>0, <2>4, <3>1, <3>2 DEF Done, HonestIsNeverBlamed
    <3>3. CASE ~Done(k)
      <4>1. /\ check'[k].nonce = check[k].nonce /\ check'[k].wrong = check[k].wrong /\ check'[k].at = "prefilter"
            /\ check'[k].good = check[k].good /\ check'[k].lied = check[k].lied
        <5> DEFINE p == Leased(check[k].nonce)
                   read == [e \in Entry |-> IF e \in p THEN row[e] ELSE NoRow]
        <5>1. check'[k] = [check[k] EXCEPT !.at = "prefilter", !.todo = p, !.held = read]
          BY <2>0, <2>6, <3>3 DEF ReadLease
        <5> HIDE DEF p, read
        <5> QED BY <2>0, <5>1 DEF CheckType
      <4> QED BY <2>5, <3>1, <4>1 DEF HonestIsNeverBlamed
    <3> QED BY <3>2, <3>3
  <2>7. CASE Prefilter(k)
    <3> DEFINE bad == {e \in check[k].todo : FirstParty(check[k].held[e]) /\ ~Agrees(check[k], e)}
    <3>1. Active(k) /\ Client_(k) \in Honest => bad = {}
      <4>1. check[k].todo \subseteq Entry
        BY <2>0 DEF CheckType
      <4>2. \A e \in Entry : FirstParty(check[k].held[e]) => check[k].held[e].right
        BY <2>0 DEF TrueRow, FirstParty
      <4>3. \A e \in Entry : check[k].held[e].right \in BOOLEAN
        BY <2>0 DEF CheckType, RowType
      <4>4. Active(k) /\ Client_(k) \in Honest => check[k].wrong = {}
        BY DEF HonestWork
      <4> QED BY <4>1, <4>2, <4>3, <4>4 DEF Agrees
    <3>2. Active(k)
      BY <2>7 DEF Prefilter, Active
    <3>3. CASE bad = {} /\ check' = [check EXCEPT ![k].at = "verify"] /\ UNCHANGED blamed
      <4>1. /\ check'[k].nonce = check[k].nonce /\ check'[k].wrong = check[k].wrong /\ check'[k].at = "verify"
            /\ check'[k].good = check[k].good /\ check'[k].lied = check[k].lied /\ UNCHANGED blamed
        BY <2>0, <2>7, <3>3 DEF Prefilter, CheckType
      <4> QED BY <2>5, <3>2, <4>1 DEF HonestIsNeverBlamed
    <3>4. CASE /\ bad # {} \/ check[k].wrong # {}
               /\ check' = [check EXCEPT ![k].at = "used"] /\ Blame(Client_(k))
      <4>1. check'[k].nonce = check[k].nonce /\ blamed' = blamed \cup {Client_(k)}
        BY <2>0, <2>7, <3>4 DEF Prefilter, CheckType, Blame
      <4>2. Client_(k) \notin Honest /\ Client_(k)' = Client_(k)
        BY <2>0, <3>1, <3>2, <3>4, <4>1 DEF Client_, HonestWork
      <4> QED BY <2>2, <4>1, <4>2 DEF HonestIsNeverBlamed
    <3> QED BY <2>7, <3>3, <3>4 DEF Prefilter
  <2>8. CASE Busy(k) \/ Pass(k)
    BY <2>0, <2>4, <2>8 DEF Busy, Pass, Done, HonestIsNeverBlamed
  <2>9. CASE Verify(k)
    <3>1. PICK good \in IF Fresh \in check[k].wrong THEN BOOLEAN ELSE {TRUE},
               unlike \in SUBSET {e \in check[k].todo : BothWrong(check[k], e)} :
            check' = [check EXCEPT ![k] = [check[k] EXCEPT !.at = "sample", !.good = good,
               !.audits = IF good THEN Disputed(check[k], unlike) ELSE {}]]
      BY <2>9 DEF Verify
    <3>2. /\ check'[k].nonce = check[k].nonce /\ check'[k].wrong = check[k].wrong /\ check'[k].at = "sample"
          /\ check'[k].good = good /\ check'[k].lied = check[k].lied
      BY <2>0, <3>1 DEF CheckType
    <3>3. Active(k) /\ UNCHANGED blamed
      BY <2>9 DEF Verify, Active
    <3>4. Client_(k)' = Client_(k) /\ (Client_(k) \in Honest => check[k].wrong = {} /\ ~check[k].lied)
      BY <2>0, <3>2, <3>3 DEF Client_, HonestWork
    <3>5. Client_(k) \in Honest => good
      BY <3>1, <3>4
    <3> QED BY <2>2, <3>2, <3>3, <3>4, <3>5 DEF HonestIsNeverBlamed
  <2>10. CASE Sample(k)
    <3>1. /\ check'[k].nonce = check[k].nonce /\ check'[k].wrong = check[k].wrong /\ check'[k].at = "settle"
          /\ check'[k].good = check[k].good /\ check'[k].lied = check[k].lied
      BY <2>0, <2>10 DEF Sample, CheckType
    <3>2. Active(k) /\ check[k].at = "sample" /\ UNCHANGED blamed
      BY <2>10 DEF Sample, Active
    <3> QED BY <2>0, <2>2, <3>1, <3>2 DEF HonestWork, Client_, HonestIsNeverBlamed
  <2>11. check[k].half # None => Active(k)
    BY Blanks DEF Blank
  <2>12. CASE Record(k) \/ Retire(k)
    <3>1. /\ check'[k].nonce = check[k].nonce /\ check'[k].wrong = check[k].wrong /\ check'[k].at = check[k].at
          /\ check'[k].good = check[k].good /\ check'[k].lied = check[k].lied /\ UNCHANGED blamed
      <4>1. CASE Record(k)
        <5>1. PICK e \in check[k].todo :
                check' = [check EXCEPT ![k].todo = @ \ {e},
                                       ![k].half = IF Retires(check[k], e) \/ check[k].good THEN e ELSE None]
          BY <4>1 DEF Record
        <5> DEFINE half == IF Retires(check[k], e) \/ check[k].good THEN e ELSE None
        <5>2. check'[k] = [check[k] EXCEPT !.todo = check[k].todo \ {e}, !.half = half]
          BY <2>0, <5>1
        <5> HIDE DEF half
        <5> QED BY <2>0, <4>1, <5>2 DEF Record, CheckType
      <4>2. CASE Retire(k)
        BY <2>0, <4>2 DEF Retire, CheckType
      <4> QED BY <2>12, <4>1, <4>2
    <3>2. Active(k)
      BY <2>11, <2>12 DEF Record, Retire, Active
    <3> QED BY <2>5, <3>1, <3>2 DEF HonestIsNeverBlamed
  <2>13. CASE Audit(k)
    <3> DEFINE e == check[k].half
    <3>1. e \in Entry /\ Active(k)
      BY <2>0, <2>11, <2>13 DEF Audit, CheckType
    <3>2. /\ check'[k].nonce = check[k].nonce /\ check'[k].wrong = check[k].wrong /\ check'[k].at = check[k].at
          /\ check'[k].good = check[k].good /\ (check'[k].lied => check[k].lied \/ e \in check[k].wrong)
      BY <2>0, <2>13 DEF Audit, CheckType
    <3>3. HonestWork'
      BY <2>0, <2>2, <3>1, <3>2 DEF HonestWork, Client_
    <3>4. ~check[k].held[e].right => check[k].held[e].source \notin Honest
      BY <2>0, <3>1 DEF TrueRow
    <3>5. blamed' = IF check[k].held[e].right THEN blamed ELSE blamed \cup {check[k].held[e].source}
      BY <2>13 DEF Audit
    <3> QED BY <3>3, <3>4, <3>5 DEF HonestIsNeverBlamed
  <2>14. CASE Vote(k)
    <3>1. UNCHANGED blamed /\ Active(k)
      BY <2>11, <2>14 DEF Vote
    <3>2. CASE Done(k)
      BY <2>0, <2>4, <3>1, <3>2 DEF Done, HonestIsNeverBlamed
    <3>3. CASE ~Done(k)
      <4>1. /\ check'[k].nonce = check[k].nonce /\ check'[k].wrong = check[k].wrong /\ check'[k].at = check[k].at
            /\ check'[k].good = check[k].good /\ check'[k].lied = check[k].lied
        BY <2>0, <2>14, <3>3 DEF Vote, CheckType
      <4> QED BY <2>5, <3>1, <4>1 DEF HonestIsNeverBlamed
    <3> QED BY <3>2, <3>3
  <2>15. CASE Fail(k)
    <3>1. /\ Active(k) /\ (check[k].at = "used" \/ ~check[k].good \/ check[k].lied) /\ blamed' = blamed \cup {Client_(k)}
          /\ check'[k] = NoCheck /\ check[k].at \in {"used", "settle"}
      BY <2>0, <2>15 DEF Fail, Active, Blame, Done
    <3>2. Client_(k) \notin Honest
      BY <3>1 DEF HonestWork
    <3> QED BY <2>4, <3>1, <3>2 DEF HonestIsNeverBlamed
  <2> QED BY <1>2, <2>3, <2>6, <2>7, <2>8, <2>9, <2>10, <2>12, <2>13, <2>14, <2>15
<1> QED BY <1>1, <1>2 DEF GateNext

\* Every step keeps the invariant of types, payments and blame.
LEMMA SoundStep == GateAssumption /\ GateSound /\ [GateNext]_gateVars => GateSound'
<1> SUFFICES ASSUME GateAssumption, GateSound, [GateNext]_gateVars PROVE GateSound'
  OBVIOUS
<1>1. CASE UNCHANGED gateVars
  BY <1>1 DEF gateVars, GateSound, GateTyped, GateTypeOK, Blank, Quoted, Burned, PoolIsTrue, HonestWork,
              Active, Client_
<1>2. CASE GateNext
  <2>1. GateTyped'
    BY <1>2, QuotesSound, ChecksSound, SettlesSound DEF GateNext
  <2> QED BY <1>2, <2>1, HonestStep DEF GateSound
<1> QED BY <1>1, <1>2

\* Every variable of the gate holds a value of its kind: rows, quotes, payments
\* under way and the histories.
THEOREM GateTypeCorrect ==
    ASSUME GateAssumption
    PROVE  GateSpec => []GateTypeOK
<1>1. GateInit => GateSound
  BY GateAssumption, TypeInit
<1>2. GateSound /\ [GateNext]_gateVars => GateSound'
  BY GateAssumption, SoundStep
<1>3. GateSound => GateTypeOK
  BY DEF GateSound, GateTyped
<1> QED BY <1>1, <1>2, <1>3, PTL DEF GateSpec

\* A quote admits once: gate_service answers "ok" to one presentation of a nonce
\* at most, although the checks of its copies interleave with one another, with
\* sweeps and with the release of the nonce when the node was busy.
THEOREM AdmitsOnce ==
    ASSUME GateAssumption
    PROVE  GateSpec => []PaidOnce
<1>1. GateInit => GateSound
  BY GateAssumption, TypeInit
<1>2. GateSound /\ [GateNext]_gateVars => GateSound'
  BY GateAssumption, SoundStep
<1>3. GateSound => PaidOnce
  <2>1. GateSound => \A n \in Nonce : paid[n] = 0 \/ paid[n] = 1
    BY DEF GateSound, GateTyped, Burned
  <2> QED BY <2>1 DEF PaidOnce
<1> QED BY <1>1, <1>2, <1>3, PTL DEF GateSpec

\* A client that solves what it is asked is never noted a failure, nor named to
\* on_evidence: not for the answers of a packet, and not for the claims that
\* the answers it left behind have become.
THEOREM HonestAreNotBlamed ==
    ASSUME GateAssumption
    PROVE  GateSpec => []HonestIsNeverBlamed
<1>1. GateInit => GateSound /\ HonestIsNeverBlamed
  BY GateAssumption, TypeInit DEF GateInit, HonestIsNeverBlamed
<1>2. (GateSound /\ HonestIsNeverBlamed) /\ [GateNext]_gateVars => (GateSound /\ HonestIsNeverBlamed)'
  <2>1. GateSound /\ [GateNext]_gateVars => GateSound'
    BY GateAssumption, SoundStep
  <2>2. GateSound /\ HonestIsNeverBlamed /\ GateNext => HonestIsNeverBlamed'
    BY GateAssumption, <2>1, HonestStep DEF GateSound
  <2>3. HonestIsNeverBlamed /\ UNCHANGED gateVars => HonestIsNeverBlamed'
    BY DEF HonestIsNeverBlamed, gateVars
  <2> QED BY <2>1, <2>2, <2>3
<1> QED BY <1>1, <1>2, PTL DEF GateSpec

-----------------------------------------------------------------------------
\* What the updates of a row leave as it was.
LEMMA RowFields ==
    ASSUME NEW r \in RowType, TrueRow(r)
    PROVE  /\ Retired(r).retired /\ Retired(r).lease = None /\ Retired(r).class = r.class
           /\ Retired(r).keys = r.keys /\ Retired(r).source = r.source /\ Retired(r).votes = r.votes
           /\ Gilded(r).class = "gold" /\ Gilded(r).retired = r.retired /\ Gilded(r).lease = r.lease
           /\ Gilded(r).keys = r.keys /\ Gilded(r).source = r.source /\ Gilded(r).votes = r.votes
           /\ \A c \in Client :
                /\ Recorded(r, c).lease = None /\ Recorded(r, c).keys = r.keys \cup {c}
                /\ Recorded(r, c).class = r.class /\ Recorded(r, c).retired = r.retired
                /\ Recorded(r, c).source = r.source /\ Recorded(r, c).votes = r.votes
<1>1. /\ Retired(r).retired /\ Retired(r).lease = None /\ Retired(r).class = r.class
      /\ Retired(r).keys = r.keys /\ Retired(r).source = r.source /\ Retired(r).votes = r.votes
  BY DEF Retired, RowType, TrueRow
<1>2. /\ Gilded(r).class = "gold" /\ Gilded(r).retired = r.retired /\ Gilded(r).lease = r.lease
      /\ Gilded(r).keys = r.keys /\ Gilded(r).source = r.source /\ Gilded(r).votes = r.votes
  BY DEF Gilded, RowType
<1>3. ASSUME NEW c \in Client
      PROVE  /\ Recorded(r, c).lease = None /\ Recorded(r, c).keys = r.keys \cup {c}
             /\ Recorded(r, c).class = r.class /\ Recorded(r, c).retired = r.retired
             /\ Recorded(r, c).source = r.source /\ Recorded(r, c).votes = r.votes
  BY DEF Recorded, RowType
<1> QED BY <1>1, <1>2, <1>3

\* Nothing is lent at first.
LEMMA LentInit == GateAssumption /\ GateInit => Lent
<1> SUFFICES ASSUME GateAssumption, GateInit PROVE Lent
  OBVIOUS
<1>1. /\ \A e \in Entry : row[e].lease = None /\ row[e].votes = 0 /\ voters[e] = {} /\ settled[e] = {}
      /\ \A k \in Check : check[k] = NoCheck
  BY DEF GateInit, GateAssumption
<1>2. IsFiniteSet({}) /\ Cardinality({}) = 0
  BY FS_EmptySet
<1>3. LeasesAreNew
  BY <1>1 DEF LeasesAreNew
<1>4. OneSettles /\ HalfSettled
  <2>1. \A k \in Check : check[k].todo = {} /\ check[k].half = None
    BY <1>1, Blanks
  <2> QED BY <2>1 DEF OneSettles, HalfSettled, Rows, GateAssumption
<1>6. VotersOnRecord
  <2>1. ASSUME NEW e \in Entry PROVE IsFiniteSet(voters[e]) /\ row[e].votes <= Cardinality(voters[e])
    <3>1. voters[e] = {} /\ row[e].votes = 0
      BY <1>1
    <3> QED BY <1>2, <3>1
  <2> QED BY <1>1, <2>1 DEF VotersOnRecord
<1>5. ProbesAreClaims /\ SpentIsOut
  BY <1>1, Blanks DEF ProbesAreClaims, SpentIsOut
<1> QED BY <1>3, <1>4, <1>5, <1>6 DEF Lent

\* Rows that leave the pool, and a quote that takes hold of some.
LEMMA LentQuotes ==
    ASSUME GateAssumption, GateSound, Lent, NEW n \in Nonce,
           Sweep(n) \/ Evict(n) \/ PassDeadline(n) \/ \E c \in Client : Quote(n, c)
    PROVE  Lent'
<1> USE DEF GateSound, GateTyped
<1>0. /\ UNCHANGED <<check, voters, settled>> /\ None \notin Client \cup Nonce \cup Entry
      /\ \A e \in Entry : row[e] \in RowType /\ TrueRow(row[e])
  BY DEF Sweep, Evict, PassDeadline, Quote, GateTypeOK, PoolIsTrue, GateAssumption
<1>1. \A m \in Nonce : quote[m].at = "quoted" => quote'[m].client = quote[m].client /\ quote'[m].at = "quoted"
  BY DEF Sweep, Evict, PassDeadline, Quote, Stage, GateTypeOK
<1>2. \A k \in Check : Active(k) => Active(k)' /\ Client_(k)' = Client_(k)
  BY <1>0, <1>1, ClientOf DEF Active, Client_, Burned
<1>3. \A k \in Check : check[k].todo # {} \/ check[k].half # None => Active(k)
  BY Blanks DEF Blank
<1>4. \A e \in Entry : row[e].lease # None => row[e].lease \in Nonce
  BY <1>0 DEF RowType
<1>5. ProbesAreClaims'
  BY <1>0 DEF Lent, ProbesAreClaims
<1>6. ASSUME UNCHANGED regiven,
             \A e \in Entry : \/ row'[e] = row[e]
                              \/ /\ Born(row[e]) /\ row'[e].retired /\ row'[e].lease = None
                                 /\ row'[e].keys \subseteq row[e].keys
                                 /\ row'[e].class # "none" =>
                                      /\ row[e].class # "none" /\ row'[e].keys = row[e].keys
                                      /\ row'[e].source = row[e].source /\ row'[e].votes = row[e].votes
      PROVE  Lent'
  <2>1. \A e \in Entry : Born(row[e]) <=> Born(row'[e])
    BY <1>6 DEF Born
  <2>2. LeasesAreNew'
    BY <1>1, <1>4, <1>6, <2>1 DEF Lent, LeasesAreNew
  <2>3. OneSettles'
    <3>1. ASSUME NEW k \in Check, NEW e \in check[k].todo
          PROVE  /\ Born(row'[e]) /\ (row'[e].lease = check[k].nonce \/ row'[e].retired)
                 /\ Client_(k)' \notin row'[e].keys
      <4>1. e \in Entry /\ Client_(k)' = Client_(k)
        BY <1>2, <1>3 DEF GateTypeOK, CheckType
      <4>2. /\ Born(row[e]) /\ (row[e].lease = check[k].nonce \/ row[e].retired)
            /\ Client_(k) \notin row[e].keys
        BY DEF Lent, OneSettles
      <4> QED BY <1>6, <2>1, <4>1, <4>2
    <3> QED BY <1>0, <3>1 DEF Lent, OneSettles
  <2>4. HalfSettled'
    <3>1. \A k \in Check : check[k].half # None => check[k].half \in Entry /\ Client_(k)' = Client_(k)
      BY <1>2, <1>3 DEF GateTypeOK, CheckType
    <3>2. \A e \in Entry : e \in Rows' => e \in Rows /\ row'[e].keys = row[e].keys /\ row'[e].source = row[e].source
      BY <1>6 DEF Rows
    <3>3. ASSUME NEW k \in Check, check[k].half # None
          PROVE  /\ check[k].at \in {"used", "settle"} /\ Born(row'[check[k].half])
                 /\ check[k].half \in Rows' => /\ Client_(k)' \in row'[check[k].half].keys
                                              /\ Client_(k)' \notin voters[check[k].half]
                                              /\ Client_(k)' # row'[check[k].half].source
      BY <2>1, <3>1, <3>2, <3>3 DEF Lent, HalfSettled
    <3>4. ASSUME NEW j \in Check, NEW k \in Check, check[j].half = check[k].half,
                 check[k].half \in Rows', Client_(j)' = Client_(k)'
          PROVE  j = k
      <4>1. check[k].half \in Entry
        BY <3>4 DEF Rows
      <4>2. check[k].half \in Rows /\ Client_(j) = Client_(k)
        BY <1>0, <3>1, <3>2, <3>4, <4>1
      <4> QED BY <3>4, <4>2 DEF Lent, HalfSettled
    <3> QED BY <1>0, <3>3, <3>4 DEF HalfSettled
  <2>5. VotersOnRecord'
    <3>1. \A e \in Entry : e \in Rows' => /\ e \in Rows /\ row'[e].keys = row[e].keys
                                          /\ row'[e].source = row[e].source /\ row'[e].votes = row[e].votes
      BY <1>6 DEF Rows
    <3> QED BY <1>0, <2>1, <3>1 DEF Lent, VotersOnRecord
  <2>6. SpentIsOut'
    <3>1. \A e \in Entry : (row[e].lease = None => row'[e].lease = None) /\ (row[e].retired => row'[e].retired)
      BY <1>6
    <3>2. \A k \in Check, e \in Entry : Retires(check[k], e) <=> Retires(check[k], e)'
      BY <1>0 DEF Retires, AnyGold, FirstParty
    <3> QED BY <1>0, <1>6, <3>1, <3>2 DEF Lent, SpentIsOut
  <2> QED BY <1>5, <2>2, <2>3, <2>4, <2>5, <2>6 DEF Lent
<1>7. CASE Sweep(n) \/ PassDeadline(n)
  <2>1. \A e \in Entry : row'[e] = row[e] \/ (row[e].lease \in late /\ row'[e] = Retired(row[e]))
    BY <1>7 DEF Sweep, PassDeadline
  <2>2. \A e \in Entry : row[e].lease \in late => Born(row[e])
    BY <1>0 DEF GateTypeOK, Lent, LeasesAreNew
  <2>3. UNCHANGED regiven
    BY <1>7 DEF Sweep, PassDeadline
  <2> QED BY <1>0, <1>6, <2>1, <2>2, <2>3, RowFields
<1>8. CASE Evict(n)
  <2>1. \A e \in Entry : row'[e] = row[e] \/ (e \in Rows /\ row'[e] = Gone)
    BY <1>8 DEF Evict, GateTypeOK
  <2> QED BY <1>6, <1>8, <2>1, Blanks DEF Evict, Rows, Born
<1>9. ASSUME NEW c \in Client, Quote(n, c)
      PROVE  Lent'
  <2>1. PICK p \in Packets(c) :
          /\ quote' = [quote EXCEPT ![n] = [at |-> "quoted", client |-> c, packet |-> p]]
          /\ row' = [e \in Entry |-> IF e \in p THEN [row[e] EXCEPT !.lease = n] ELSE row[e]]
          /\ regiven' = regiven \cup (p \cap Between)
    BY <1>9 DEF Quote
  <2>2. \A e \in p : e \in Entry /\ e \in Rows /\ ~row[e].retired /\ row[e].lease = None /\ c \notin row[e].keys
    BY <2>1 DEF Packets, Free, Rows
  <2>3. quote'[n].client = c /\ quote'[n].at = "quoted" /\ quote[n].at # "quoted"
    BY <1>9, <2>1 DEF GateTypeOK, Quote
  <2>4. \A e \in Entry : /\ row'[e].class = row[e].class /\ row'[e].retired = row[e].retired
                         /\ row'[e].keys = row[e].keys /\ row'[e].source = row[e].source
                         /\ row'[e].votes = row[e].votes
                         /\ row'[e].lease = IF e \in p THEN n ELSE row[e].lease
    BY <1>0, <2>1 DEF RowType
  <2>5. (\A e \in Entry : Born(row'[e]) <=> Born(row[e])) /\ Rows' = Rows
    BY <2>4 DEF Born, Rows
  <2>6. LeasesAreNew'
    BY <1>1, <1>4, <2>2, <2>3, <2>4, <2>5 DEF Lent, LeasesAreNew, Rows, Born
  <2>7. OneSettles'
    <3>1. ASSUME NEW k \in Check, NEW e \in check[k].todo
          PROVE  /\ Born(row'[e]) /\ (row'[e].lease = check[k].nonce \/ row'[e].retired)
                 /\ Client_(k)' \notin row'[e].keys
      <4>1. e \in Entry /\ Client_(k)' = Client_(k) /\ check[k].nonce \in Nonce
        BY <1>2, <1>3, ClientOf DEF GateTypeOK, CheckType
      <4>2. /\ Born(row[e]) /\ (row[e].lease = check[k].nonce \/ row[e].retired)
            /\ Client_(k) \notin row[e].keys
        BY DEF Lent, OneSettles
      <4> QED BY <1>0, <2>2, <2>4, <2>5, <4>1, <4>2
    <3> QED BY <1>0, <3>1 DEF Lent, OneSettles
  <2>8. HalfSettled'
    <3>1. \A k \in Check : check[k].half # None => check[k].half \in Entry /\ Client_(k)' = Client_(k)
      BY <1>2, <1>3 DEF GateTypeOK, CheckType
    <3>2. ASSUME NEW k \in Check, check[k].half # None
          PROVE  /\ check[k].at \in {"used", "settle"} /\ Born(row'[check[k].half])
                 /\ check[k].half \in Rows' => /\ Client_(k)' \in row'[check[k].half].keys
                                              /\ Client_(k)' \notin voters[check[k].half]
                                              /\ Client_(k)' # row'[check[k].half].source
      BY <2>4, <2>5, <3>1, <3>2 DEF Lent, HalfSettled
    <3>3. ASSUME NEW j \in Check, NEW k \in Check, check[j].half = check[k].half,
                 check[k].half \in Rows', Client_(j)' = Client_(k)'
          PROVE  j = k
      <4>1. check[k].half \in Rows /\ check[k].half \in Entry
        BY <2>5, <3>3 DEF Rows
      <4>2. Client_(j) = Client_(k)
        BY <1>0, <3>1, <3>3, <4>1
      <4> QED BY <3>3, <4>1, <4>2 DEF Lent, HalfSettled
    <3> QED BY <1>0, <3>2, <3>3 DEF HalfSettled
  <2>9. VotersOnRecord'
    BY <1>0, <2>4, <2>5 DEF Lent, VotersOnRecord
  <2>10. SpentIsOut'
    <3>1. ASSUME NEW e \in Entry \ regiven', settled[e] # {} PROVE e \notin p
      BY <2>1, <2>2, <3>1 DEF Lent, SpentIsOut, Between
    <3>2. \A k \in Check, e \in Entry : Retires(check[k], e) <=> Retires(check[k], e)'
      BY <1>0 DEF Retires, AnyGold, FirstParty
    <3> QED BY <1>0, <2>1, <2>4, <3>1, <3>2 DEF Lent, SpentIsOut
  <2> QED BY <1>5, <2>6, <2>7, <2>8, <2>9, <2>10 DEF Lent
<1> QED BY <1>7, <1>8, <1>9

\* What a check does to its own record.
LEMMA CheckSteps ==
    ASSUME GateSound, NEW k \in Check,
           \/ \E n \in Nonce : \E wrong \in SUBSET (quote[n].packet \cup {Fresh}) : Present(k, n, wrong)
           \/ ReadLease(k) \/ Prefilter(k) \/ Busy(k) \/ Verify(k) \/ Sample(k) \/ Pass(k) \/ Fail(k)
    PROVE  /\ \A j \in Check \ {k} : check'[j] = check[j]
           /\ \/ check'[k] = NoCheck
              \/ /\ check'[k].todo = {} /\ check'[k].half = None /\ check'[k].at = "presented"
                 /\ check'[k].audits = {}
              \/ /\ Active(k) /\ check'[k].at \in {"prefilter", "verify", "used"}
                 /\ check'[k].nonce = check[k].nonce /\ check'[k].half = check[k].half
                 /\ check'[k].audits = check[k].audits /\ check[k].at \in {"presented", "prefilter"}
                 /\ check'[k].todo \in {check[k].todo, Leased(check[k].nonce)}
              \/ /\ Active(k) /\ check'[k].at = "sample" /\ check'[k].nonce = check[k].nonce
                 /\ check'[k].half = check[k].half /\ check'[k].todo = check[k].todo
                 /\ \A e \in check'[k].audits : ~FirstParty(check'[k].held[e])
              \/ /\ Active(k) /\ check[k].at = "sample" /\ check'[k].at = "settle"
                 /\ check'[k].nonce = check[k].nonce /\ check'[k].half = check[k].half
                 /\ check'[k].todo = check[k].todo /\ check'[k].audits = check[k].audits
                 /\ check'[k].held = check[k].held
<1>0. check \in [Check -> CheckType] /\ check[k] \in CheckType
  BY DEF GateSound, GateTyped, GateTypeOK
<1>1. \A j \in Check \ {k} : check'[j] = check[j]
  BY <1>0 DEF Present, ReadLease, Prefilter, Busy, Verify, Sample, Pass, Fail, Done
<1>2. ASSUME NEW n \in Nonce, NEW wrong \in SUBSET (quote[n].packet \cup {Fresh}), Present(k, n, wrong)
      PROVE  /\ check'[k].todo = {} /\ check'[k].half = None /\ check'[k].at = "presented"
             /\ check'[k].audits = {}
  <2>1. check'[k] = [NoCheck EXCEPT !.at = "presented", !.nonce = n, !.wrong = wrong]
    BY <1>0, <1>2 DEF Present
  <2> QED BY <2>1 DEF NoCheck
<1>3. CASE Busy(k) \/ Pass(k) \/ Fail(k)
  BY <1>0, <1>1, <1>3 DEF Busy, Pass, Fail, Done
<1>4. CASE ReadLease(k)
  <2> DEFINE p == Leased(check[k].nonce)
             read == [e \in Entry |-> IF e \in p THEN row[e] ELSE NoRow]
  <2>1. /\ Active(k) /\ check[k].at = "presented"
        /\ \/ check'[k] = NoCheck
           \/ check'[k] = [check[k] EXCEPT !.at = "prefilter", !.todo = p, !.held = read]
    BY <1>0, <1>4 DEF ReadLease, Done, Active
  <2> HIDE DEF read
  <2> QED BY <1>0, <1>1, <2>1 DEF CheckType
<1>5. CASE Prefilter(k)
  <2>1. PICK at \in {"verify", "used"} : check' = [check EXCEPT ![k] = [check[k] EXCEPT !.at = at]]
    BY <1>5 DEF Prefilter
  <2>2. check'[k] = [check[k] EXCEPT !.at = at] /\ check[k].at = "prefilter" /\ Active(k)
    BY <1>0, <1>5, <2>1 DEF Prefilter, Active
  <2> QED BY <1>0, <1>1, <2>2 DEF CheckType
<1>6. CASE Verify(k)
  <2> DEFINE solved(good, unlike) == IF good THEN Disputed(check[k], unlike) ELSE {}
  <2>1. PICK good \in BOOLEAN, unlike \in SUBSET {e \in check[k].todo : BothWrong(check[k], e)} :
          check' = [check EXCEPT ![k] = [check[k] EXCEPT !.at = "sample", !.good = good,
                                                         !.audits = solved(good, unlike)]]
    BY <1>6 DEF Verify
  <2>2. Active(k) /\ \A e \in solved(good, unlike) : ~FirstParty(check[k].held[e])
    BY <1>6 DEF Verify, Active, Disputed
  <2> HIDE DEF solved
  <2>3. check'[k] = [check[k] EXCEPT !.at = "sample", !.good = good, !.audits = solved(good, unlike)]
    BY <1>0, <2>1
  <2>4. /\ check'[k].at = "sample" /\ check'[k].nonce = check[k].nonce /\ check'[k].half = check[k].half
        /\ check'[k].todo = check[k].todo /\ check'[k].audits = solved(good, unlike)
        /\ check'[k].held = check[k].held
    BY <1>0, <2>3 DEF CheckType
  <2> QED BY <1>1, <2>2, <2>4
<1>7. CASE Sample(k)
  <2>1. check'[k] = [check[k] EXCEPT !.at = "settle"] /\ check[k].at = "sample" /\ Active(k)
    BY <1>0, <1>7 DEF Sample, Active
  <2> QED BY <1>0, <1>1, <2>1 DEF CheckType
<1> QED BY <1>1, <1>2, <1>3, <1>4, <1>5, <1>6, <1>7

\* Checks of a packet lend nothing: one takes its lease, the others hold what
\* they held or let go, and rows are only minted.
LEMMA LentChecks ==
    ASSUME GateAssumption, GateSound, Lent, NEW k \in Check,
           \/ \E n \in Nonce : \E wrong \in SUBSET (quote[n].packet \cup {Fresh}) : Present(k, n, wrong)
           \/ ReadLease(k) \/ Prefilter(k) \/ Busy(k) \/ Verify(k) \/ Sample(k) \/ Pass(k) \/ Fail(k)
    PROVE  LeasesAreNew' /\ OneSettles' /\ HalfSettled' /\ VotersOnRecord' /\ SpentIsOut'
<1> USE DEF GateSound, GateTyped
<1>0. /\ UNCHANGED <<quote, voters, settled, regiven>> /\ None \notin Client \cup Nonce \cup Entry
      /\ row \in [Entry -> RowType] /\ \A e \in Entry : TrueRow(row[e])
      /\ check \in [Check -> CheckType] /\ check[k] \in CheckType
  BY DEF Present, ReadLease, Prefilter, Busy, Verify, Sample, Pass, Fail, GateTypeOK, PoolIsTrue, GateAssumption
<1>1. \A j \in Check \ {k} : check'[j] = check[j]
  BY CheckSteps
<1>2. check[k].half = None /\ check'[k].half = None
  <2>1. check[k].half = None
    BY Blanks DEF Blank, Active, Lent, HalfSettled, Present, ReadLease, Prefilter, Busy, Verify, Sample, Pass, Fail
  <2> QED BY <2>1, CheckSteps, Blanks
\* a row is as it was, or it is fresh
<1>3. \A e \in Entry : \/ row'[e] = row[e]
                       \/ /\ ~Born(row[e]) /\ Born(row'[e]) /\ row'[e].lease = None /\ row'[e].votes = 0
                          /\ ~row'[e].retired
  <2>1. ASSUME NEW class \in {"gold", "silver"}, NEW origin \in {"sample", "garbage", "claim"},
               NEW right \in BOOLEAN, Active(k), Mint(class, origin, right, Client_(k))
        PROVE  \A e \in Entry : \/ row'[e] = row[e]
                                \/ /\ ~Born(row[e]) /\ Born(row'[e]) /\ row'[e].lease = None
                                   /\ row'[e].votes = 0 /\ ~row'[e].retired
    <3> DEFINE fresh == Minted(class, origin, right, Client_(k), {Client_(k)})
    <3>1. fresh.class = class /\ fresh.lease = None /\ fresh.votes = 0 /\ ~fresh.retired
      BY <2>1, ClientOf, MintedRow
    <3>2. Born(fresh)
      BY <2>1, <3>1 DEF Born
    <3> HIDE DEF fresh
    <3>3. UNCHANGED row \/ \E e \in Entry : row[e] = NoRow /\ row' = [row EXCEPT ![e] = fresh]
      BY <2>1 DEF Mint, Unborn, fresh
    <3> QED BY <1>0, <3>1, <3>2, <3>3, Blanks
  <2>2. CASE Sample(k)
    BY <2>1, <2>2 DEF Sample, Active
  <2>3. CASE Pass(k)
    BY <2>1, <2>3 DEF Pass, Active
  <2> QED BY <2>2, <2>3 DEF Present, ReadLease, Prefilter, Busy, Verify, Fail
<1>4. \A j \in Check : check[j].todo # {} \/ check[j].half # None => Active(j) /\ check[j].nonce \in Nonce
  BY Blanks, ClientOf DEF Blank
<1>5. LeasesAreNew'
  BY <1>0, <1>3 DEF Lent, LeasesAreNew
\* what it has yet to settle is what it had, or what it reads the lease of
<1>6. /\ ~Active(k)' => check'[k].todo = {}
      /\ check'[k].todo # {} => check'[k].nonce = check[k].nonce
      /\ \A e \in check'[k].todo : \/ e \in check[k].todo
                                   \/ /\ e \in Entry /\ row[e].lease = check[k].nonce /\ Active(k)
  BY CheckSteps, Blanks DEF Active, Leased
<1>7. ASSUME NEW e \in check'[k].todo
      PROVE  /\ e \in Entry /\ Active(k) /\ Born(row[e]) /\ (row[e].lease = check[k].nonce \/ row[e].retired)
             /\ Client_(k) \notin row[e].keys /\ Client_(k)' = Client_(k)
             /\ \A j \in Check \ {k} : e \notin check[j].todo
  <2>1. Active(k) /\ e \in Entry /\ check[k].nonce \in Nonce
    BY <1>4, <1>6, ClientOf, <1>0 DEF CheckType
  <2>2. Client_(k)' = Client_(k)
    BY <1>0, <1>6, <1>7 DEF Client_
  <2>3. CASE e \in check[k].todo
    BY <2>1, <2>2, <2>3 DEF Lent, OneSettles
  <2>4. CASE e \notin check[k].todo
    <3>1. row[e].lease = check[k].nonce /\ row[e].lease # None
      BY <1>0, <1>6, <2>1, <2>4
    <3>2. Born(row[e]) /\ Client_(k) \notin row[e].keys
      BY <2>1, <3>1 DEF Lent, LeasesAreNew, Client_
    <3>3. ~row[e].retired
      BY <1>0, <2>1, <3>1 DEF TrueRow
    <3>4. ASSUME NEW j \in Check \ {k} PROVE e \notin check[j].todo
      BY <1>4, <2>1, <3>1, <3>3 DEF Lent, OneSettles, Burned
    <3> QED BY <2>1, <2>2, <3>1, <3>2, <3>4
  <2> QED BY <2>3, <2>4
<1>8. OneSettles'
  <2>1. ASSUME NEW j \in Check, NEW e \in check'[j].todo
        PROVE  /\ Born(row'[e]) /\ (row'[e].lease = check'[j].nonce \/ row'[e].retired)
               /\ Client_(j)' \notin row'[e].keys
    <3>1. CASE j = k
      <4>1. check'[k].nonce = check[k].nonce
        BY <1>6, <3>1
      <4> QED BY <1>3, <1>7, <3>1, <4>1
    <3>2. CASE j # k
      <4>1. check'[j] = check[j] /\ Client_(j)' = Client_(j) /\ e \in Entry
        BY <1>0, <1>1, <3>2 DEF Client_, CheckType
      <4>2. /\ Born(row[e]) /\ (row[e].lease = check[j].nonce \/ row[e].retired) /\ Client_(j) \notin row[e].keys
        BY <4>1 DEF Lent, OneSettles
      <4> QED BY <1>3, <4>1, <4>2
    <3> QED BY <3>1, <3>2
  <2>2. ASSUME NEW i \in Check, NEW j \in Check, check'[i].todo \cap check'[j].todo # {} PROVE i = j
    BY <1>1, <1>7, <2>2 DEF Lent, OneSettles
  <2> QED BY <2>1, <2>2 DEF OneSettles
<1>9. HalfSettled'
  <2>1. \A j \in Check : check'[j].half # None =>
          j # k /\ check'[j] = check[j] /\ Client_(j)' = Client_(j) /\ check[j].half \in Entry
    BY <1>0, <1>1, <1>2 DEF Client_, CheckType
  <2>2. ASSUME NEW j \in Check, check'[j].half # None
        PROVE  row'[check[j].half] = row[check[j].half] /\ Born(row[check[j].half])
    BY <1>3, <2>1, <2>2 DEF Lent, HalfSettled
  <2>3. ASSUME NEW j \in Check, check'[j].half # None
        PROVE  /\ check'[j].at \in {"used", "settle"} /\ Born(row'[check'[j].half])
               /\ check'[j].half \in Rows' => /\ Client_(j)' \in row'[check'[j].half].keys
                                              /\ Client_(j)' \notin voters[check'[j].half]
                                              /\ Client_(j)' # row'[check'[j].half].source
    BY <2>1, <2>2, <2>3 DEF Lent, HalfSettled, Rows
  <2>4. ASSUME NEW i \in Check, NEW j \in Check, check'[i].half = check'[j].half,
               check'[j].half \in Rows', Client_(i)' = Client_(j)'
        PROVE  i = j
    <3>1. check'[j].half # None
      BY <1>0, <2>4 DEF Rows
    <3>2. check[j].half \in Rows
      BY <2>1, <2>2, <2>4, <3>1 DEF Rows
    <3> QED BY <2>1, <2>4, <3>1, <3>2 DEF Lent, HalfSettled
  <2> QED BY <1>0, <2>3, <2>4 DEF HalfSettled
<1>10. VotersOnRecord'
  <2>1. ASSUME NEW e \in Entry
        PROVE  /\ IsFiniteSet(voters[e]) /\ (~Born(row'[e]) => voters[e] = {})
               /\ row'[e].class # "none" => /\ voters[e] \subseteq row'[e].keys
                                            /\ row'[e].source \notin voters[e]
                                            /\ row'[e].votes <= Cardinality(voters[e])
    <3>1. CASE row'[e] = row[e]
      BY <3>1 DEF Lent, VotersOnRecord, Rows
    <3>2. CASE row'[e] # row[e]
      <4>1. voters[e] = {} /\ Born(row'[e]) /\ row'[e].votes = 0
        BY <1>3, <3>2 DEF Lent, VotersOnRecord
      <4> QED BY <4>1, FS_EmptySet
    <3> QED BY <3>1, <3>2
  <2> QED BY <1>0, <2>1 DEF VotersOnRecord, Rows
<1>11. SpentIsOut'
  <2>1. ASSUME NEW e \in Entry \ regiven, settled[e] # {}
        PROVE  /\ row'[e].lease = None /\ \A j \in Check : e \notin check'[j].todo
               /\ row'[e].retired \/ \E j \in Check : check'[j].half = e /\ Retires(check'[j], e)
    <3>1. /\ row[e].lease = None /\ \A j \in Check : e \notin check[j].todo
          /\ row[e].retired \/ \E j \in Check : check[j].half = e /\ Retires(check[j], e)
      BY <2>1 DEF Lent, SpentIsOut
    <3>2. Born(row[e])
      <4>1. CASE row[e].retired
        BY <4>1 DEF Born
      <4>2. CASE \E j \in Check : check[j].half = e
        BY <1>0, <4>2 DEF Lent, HalfSettled
      <4> QED BY <3>1, <4>1, <4>2
    <3>3. row'[e] = row[e]
      BY <1>3, <3>2
    <3>4. \A j \in Check : e \notin check'[j].todo
      BY <1>0, <1>1, <1>4, <1>6, <3>1, ClientOf
    <3>5. \A j \in Check : check[j].half = e => check'[j] = check[j]
      BY <1>0, <1>1, <1>2
    <3> QED BY <3>1, <3>3, <3>4, <3>5
  <2>2. \A j \in Check, e \in Entry : Retires(check'[j], e) <=> Retires(check[j], e)'
    BY DEF Retires, AnyGold, FirstParty
  <2> QED BY <1>0, <2>1, <2>2 DEF Lent, SpentIsOut
<1> QED BY <1>5, <1>8, <1>9, <1>10, <1>11

\* The client of an entry is put on record before it votes, and gold is marked
\* for the packet it was spent on.
LEMMA LentRecords ==
    ASSUME GateAssumption, GateSound, Lent, NEW k \in Check, Record(k)
    PROVE  Lent'
<1> USE DEF GateSound, GateTyped
<1>0. /\ UNCHANGED <<quote, voters, regiven>> /\ None \notin Client \cup Nonce \cup Entry
      /\ row \in [Entry -> RowType] /\ \A e \in Entry : TrueRow(row[e])
      /\ check \in [Check -> CheckType] /\ check[k] \in CheckType
      /\ Active(k) /\ Client_(k) \in Client /\ check[k].nonce \in Nonce
      /\ check[k].at \in {"used", "settle"} /\ check[k].half = None
  <2>1. Active(k) /\ check[k].at \in {"used", "settle"}
    BY DEF Record, Active
  <2> QED BY <2>1, ClientOf DEF Record, GateTypeOK, PoolIsTrue, GateAssumption
<1>1. PICK e \in check[k].todo :
        /\ Update(e, Recorded(row[e], Client_(k)))
        /\ check' = [check EXCEPT ![k].todo = @ \ {e},
                                  ![k].half = IF Retires(check[k], e) \/ check[k].good THEN e ELSE None]
        /\ settled' = [settled EXCEPT ![e] = IF FirstParty(check[k].held[e]) THEN @ \cup {check[k].nonce} ELSE @]
  BY DEF Record
<1>2. /\ e \in Entry /\ Born(row[e]) /\ (row[e].lease = check[k].nonce \/ row[e].retired)
      /\ Client_(k) \notin row[e].keys /\ \A j \in Check \ {k} : e \notin check[j].todo
  BY <1>0 DEF CheckType, Lent, OneSettles
<1> DEFINE half == IF Retires(check[k], e) \/ check[k].good THEN e ELSE None
<1>3. check'[k] = [check[k] EXCEPT !.todo = check[k].todo \ {e}, !.half = half]
  BY <1>0, <1>1
<1> HIDE DEF half
<1>4. /\ check'[k].todo = check[k].todo \ {e} /\ check'[k].half = half /\ check'[k].at = check[k].at
      /\ check'[k].nonce = check[k].nonce /\ check'[k].audits = check[k].audits
      /\ check'[k].held = check[k].held /\ \A j \in Check \ {k} : check'[j] = check[j]
  BY <1>0, <1>1, <1>3 DEF CheckType
<1>5. half \in {e, None}
  BY DEF half
<1>6. \A j \in Check : Client_(j)' = Client_(j)
  BY <1>0, <1>4 DEF Client_
<1>7. \A d \in Entry : /\ row'[d].class = row[d].class /\ row'[d].retired = row[d].retired
                       /\ row'[d].source = row[d].source /\ row'[d].votes = row[d].votes
                       /\ row'[d].lease = IF d = e THEN None ELSE row[d].lease
                       /\ row'[d].keys = IF d = e /\ d \in Rows THEN row[d].keys \cup {Client_(k)} ELSE row[d].keys
  <2>1. row' = [row EXCEPT ![e] = IF e \in Rows THEN Recorded(row[e], Client_(k)) ELSE row[e]]
    BY <1>1 DEF Update
  <2>2. e \notin Rows => row[e].lease = None
    BY <1>0, <1>2 DEF Rows, Born, TrueRow
  <2>3. /\ Recorded(row[e], Client_(k)).lease = None
        /\ Recorded(row[e], Client_(k)).keys = row[e].keys \cup {Client_(k)}
        /\ Recorded(row[e], Client_(k)).class = row[e].class
        /\ Recorded(row[e], Client_(k)).retired = row[e].retired
        /\ Recorded(row[e], Client_(k)).source = row[e].source /\ Recorded(row[e], Client_(k)).votes = row[e].votes
    BY <1>0, <1>2, RowFields
  <2> QED BY <1>0, <1>2, <2>1, <2>2, <2>3
<1>8. (\A d \in Entry : Born(row'[d]) <=> Born(row[d])) /\ Rows' = Rows
  BY <1>7 DEF Born, Rows
<1>9. LeasesAreNew'
  BY <1>0, <1>7, <1>8 DEF Lent, LeasesAreNew
<1>10. OneSettles'
  <2>1. ASSUME NEW j \in Check, NEW d \in check'[j].todo
        PROVE  /\ Born(row'[d]) /\ (row'[d].lease = check'[j].nonce \/ row'[d].retired)
               /\ Client_(j)' \notin row'[d].keys
    <3>1. d \in check[j].todo /\ d # e /\ d \in Entry
      BY <1>0, <1>2, <1>4 DEF CheckType
    <3>2. check'[j].nonce = check[j].nonce
      BY <1>4
    <3>3. Born(row[d]) /\ (row[d].lease = check[j].nonce \/ row[d].retired) /\ Client_(j) \notin row[d].keys
      BY <3>1 DEF Lent, OneSettles
    <3> QED BY <1>6, <1>7, <1>8, <3>1, <3>2, <3>3
  <2>2. \A j \in Check : check'[j].todo \subseteq check[j].todo
    BY <1>4
  <2>3. \A i, j \in Check : check'[i].todo \cap check'[j].todo # {} => i = j
    BY <2>2 DEF Lent, OneSettles
  <2> QED BY <2>1, <2>3 DEF OneSettles
<1>11. e \in Rows => Client_(k) \notin voters[e] /\ Client_(k) # row[e].source
  BY <1>0, <1>2 DEF Lent, VotersOnRecord, TrueRow
<1>12. HalfSettled'
  <2>1. ASSUME NEW j \in Check, check'[j].half # None
        PROVE  /\ check'[j].at \in {"used", "settle"} /\ Born(row'[check'[j].half])
               /\ check'[j].half \in Rows' => /\ Client_(j)' \in row'[check'[j].half].keys
                                              /\ Client_(j)' \notin voters[check'[j].half]
                                              /\ Client_(j)' # row'[check'[j].half].source
    <3>1. CASE j = k
      BY <1>0, <1>2, <1>4, <1>5, <1>6, <1>7, <1>8, <1>11, <2>1, <3>1
    <3>2. CASE j # k
      <4>1. check'[j] = check[j] /\ check[j].half \in Entry
        BY <1>0, <1>4, <2>1, <3>2 DEF CheckType
      <4> DEFINE d == check[j].half
      <4>2. /\ check[j].at \in {"used", "settle"} /\ Born(row[d])
            /\ d \in Rows => /\ Client_(j) \in row[d].keys /\ Client_(j) \notin voters[d]
                             /\ Client_(j) # row[d].source
        BY <2>1, <4>1 DEF Lent, HalfSettled
      <4>3. /\ Born(row'[d]) /\ row[d].keys \subseteq row'[d].keys /\ row'[d].source = row[d].source
        BY <1>7, <1>8, <4>1, <4>2
      <4> HIDE DEF d
      <4>4. check'[j].half = d /\ check'[j].at = check[j].at
        BY <4>1 DEF d
      <4> QED BY ONLY <1>6, <1>8, <4>2, <4>3, <4>4
    <3> QED BY <3>1, <3>2
  <2>2. ASSUME NEW i \in Check, NEW j \in Check, check'[i].half = check'[j].half,
               check'[j].half \in Rows, Client_(i) = Client_(j)
        PROVE  i = j
    <3>1. check'[j].half # None
      BY <1>0, <2>2 DEF Rows
    <3>2. \A h \in Check \ {k} : check'[h].half = e /\ e \in Rows => Client_(h) # Client_(k)
      <4>1. ASSUME NEW h \in Check \ {k}, check'[h].half = e, e \in Rows
            PROVE  Client_(h) \in row[e].keys
        <5>1. check[h].half = e /\ e # None
          BY <1>0, <1>2, <1>4, <4>1
        <5> QED BY <4>1, <5>1 DEF Lent, HalfSettled
      <4> QED BY <1>2, <4>1
    <3>3. CASE i # k /\ j # k
      BY <1>4, <2>2, <3>3 DEF Lent, HalfSettled
    <3>4. CASE i = k \/ j = k
      BY <1>4, <1>5, <2>2, <3>1, <3>2, <3>4
    <3> QED BY <3>3, <3>4
  <2> QED BY <1>0, <1>6, <1>8, <2>1, <2>2 DEF HalfSettled
<1>13. VotersOnRecord'
  BY <1>0, <1>7, <1>8 DEF Lent, VotersOnRecord
<1>14. ProbesAreClaims'
  BY <1>4 DEF Lent, ProbesAreClaims
<1>15. \A j \in Check, d \in Entry : Retires(check'[j], d) <=> Retires(check[j], d)
  BY <1>4 DEF Retires
<1>16. SpentIsOut'
  <2>1. ASSUME NEW d \in Entry \ regiven, settled'[d] # {}
        PROVE  /\ \E n \in Nonce : settled'[d] = {n}
               /\ row'[d].lease = None /\ \A j \in Check : d \notin check'[j].todo
               /\ row'[d].retired \/ \E j \in Check : check'[j].half = d /\ Retires(check'[j], d)
    <3>1. CASE d = e
      <4>1. settled[e] = {}
        BY <3>1 DEF Lent, SpentIsOut
      <4>2. FirstParty(check[k].held[e]) /\ settled'[e] = {check[k].nonce}
        BY <1>1, <1>2, <2>1, <3>1, <4>1 DEF GateTypeOK
      <4>3. Retires(check[k], e)
        BY <1>0, <4>2 DEF Retires, FirstParty, AnyGold
      <4>4. check'[k].half = e
        BY <1>4, <4>3 DEF half
      <4>5. \E n \in Nonce : settled'[d] = {n}
        BY <1>0, <3>1, <4>2
      <4>6. row'[d].lease = None /\ \A j \in Check : d \notin check'[j].todo
        BY <1>0, <1>2, <1>4, <1>7, <3>1
      <4>7. \E j \in Check : check'[j].half = d /\ Retires(check'[j], d)
        BY <1>2, <1>15, <3>1, <4>3, <4>4
      <4> QED BY <4>5, <4>6, <4>7
    <3>2. CASE d # e
      <4>1. settled'[d] = settled[d]
        BY <1>1, <3>2 DEF GateTypeOK
      <4>2. /\ \E n \in Nonce : settled[d] = {n}
            /\ row[d].lease = None /\ \A j \in Check : d \notin check[j].todo
            /\ row[d].retired \/ \E j \in Check : check[j].half = d /\ Retires(check[j], d)
        BY <2>1, <4>1 DEF Lent, SpentIsOut
      <4>3. \A j \in Check : check[j].half = d => check'[j] = check[j]
        BY <1>0, <1>4
      <4> QED BY <1>4, <1>7, <3>2, <4>1, <4>2, <4>3
    <3> QED BY <3>1, <3>2
  <2>2. \A j \in Check, d \in Entry : Retires(check'[j], d) <=> Retires(check[j], d)'
    BY DEF Retires, AnyGold, FirstParty
  <2> QED BY <1>0, <2>1, <2>2 DEF SpentIsOut
<1> QED BY <1>9, <1>10, <1>12, <1>13, <1>14, <1>16 DEF Lent

\* The second commit of an entry's settlement: a vote is that of a client that
\* has none there yet, and gold that was marked is used up.
LEMMA LentHalf ==
    ASSUME GateAssumption, GateSound, Lent, NEW k \in Check, Retire(k) \/ Audit(k) \/ Vote(k)
    PROVE  Lent'
<1> DEFINE e == check[k].half
<1>0. /\ UNCHANGED <<quote, settled, regiven>> /\ None \notin Client \cup Nonce \cup Entry
      /\ row \in [Entry -> RowType] /\ \A d \in Entry : TrueRow(row[d])
      /\ check \in [Check -> CheckType] /\ check[k] \in CheckType
      /\ e \in Entry /\ voters \in [Entry -> SUBSET Client]
  <2>1. e # None
    BY DEF Retire, Audit, Vote
  <2> QED BY <2>1 DEF Retire, Audit, Vote, GateSound, GateTyped, GateTypeOK, PoolIsTrue, GateAssumption, CheckType
<1>1. /\ check[k].at \in {"used", "settle"} /\ Active(k) /\ Born(row[e])
      /\ e \in Rows => /\ Client_(k) \in row[e].keys /\ Client_(k) \notin voters[e]
                       /\ Client_(k) # row[e].source
  <2>1. check[k].half # None
    BY <1>0
  <2>2. /\ check[k].at \in {"used", "settle"} /\ Born(row[e])
        /\ e \in Rows => /\ Client_(k) \in row[e].keys /\ Client_(k) \notin voters[e]
                         /\ Client_(k) # row[e].source
    BY <2>1 DEF Lent, HalfSettled
  <2> QED BY <2>2 DEF Active
<1>2. \A j \in Check \ {k} : check'[j] = check[j]
  BY <1>0 DEF Retire, Audit, Vote, Done
<1>3. \/ check'[k] = NoCheck
      \/ /\ check'[k].at = check[k].at /\ check'[k].nonce = check[k].nonce
         /\ check'[k].todo = check[k].todo /\ check'[k].half = None
         /\ check'[k].audits = check[k].audits /\ check'[k].held = check[k].held
  <2>1. PICK lied : \/ check'[k] = NoCheck
                    \/ check'[k] = [check[k] EXCEPT !.half = None, !.lied = lied]
    <3>1. CASE Retire(k)
      <4>1. check'[k] = [check[k] EXCEPT !.half = None]
        BY <1>0, <3>1 DEF Retire
      <4>2. [check[k] EXCEPT !.half = None] = [check[k] EXCEPT !.half = None, !.lied = check[k].lied]
        BY <1>0 DEF CheckType
      <4> QED BY <4>1, <4>2
    <3>2. CASE Audit(k)
      BY <1>0, <3>2 DEF Audit
    <3>3. CASE Vote(k)
      <4>1. check'[k] = NoCheck \/ check'[k] = [check[k] EXCEPT !.half = None]
        BY <1>0, <3>3 DEF Vote, Done
      <4>2. [check[k] EXCEPT !.half = None] = [check[k] EXCEPT !.half = None, !.lied = check[k].lied]
        BY <1>0 DEF CheckType
      <4> QED BY <4>1, <4>2
    <3> QED BY <3>1, <3>2, <3>3
  <2> QED BY <1>0, <2>1 DEF CheckType
<1>4. check'[k].half = None /\ check'[k].todo \subseteq check[k].todo
  BY <1>3, Blanks
<1>5. \A j \in Check : check'[j].todo # {} \/ check'[j].half # None =>
        /\ Client_(j)' = Client_(j) /\ check'[j].nonce = check[j].nonce /\ check'[j].at = check[j].at
  <2>1. check'[k] = NoCheck => check'[k].todo = {}
    BY Blanks
  <2> QED BY <1>0, <1>2, <1>3, <1>4, <2>1 DEF Client_
\* the rows: only that of e, and only while it is there
<1>6. \A d \in Entry :
        /\ d # e => row'[d] = row[d]
        /\ row'[d].keys = row[d].keys /\ row'[d].source = row[d].source
        /\ row'[d].class = "none" <=> row[d].class = "none"
        /\ (row'[d].lease = row[d].lease /\ row'[d].retired = row[d].retired)
           \/ (row'[d].lease = None /\ row'[d].retired)
        /\ row'[d].votes = row[d].votes \/ (d = e /\ e \in Rows /\ Vote(k) /\ row'[d].votes = row[d].votes + 1)
  <2>1. ASSUME NEW fresh, row' = [row EXCEPT ![e] = IF e \in Rows THEN fresh ELSE row[e]],
               fresh.keys = row[e].keys, fresh.source = row[e].source, e \in Rows => fresh.class # "none",
               \/ fresh.lease = row[e].lease /\ fresh.retired = row[e].retired
               \/ fresh.lease = None /\ fresh.retired,
               fresh.votes = row[e].votes \/ (Vote(k) /\ fresh.votes = row[e].votes + 1)
        PROVE  \A d \in Entry :
                 /\ d # e => row'[d] = row[d]
                 /\ row'[d].keys = row[d].keys /\ row'[d].source = row[d].source
                 /\ row'[d].class = "none" <=> row[d].class = "none"
                 /\ (row'[d].lease = row[d].lease /\ row'[d].retired = row[d].retired)
                    \/ (row'[d].lease = None /\ row'[d].retired)
                 /\ row'[d].votes = row[d].votes
                    \/ (d = e /\ e \in Rows /\ Vote(k) /\ row'[d].votes = row[d].votes + 1)
    <3> HIDE DEF e
    <3>1. /\ \A d \in Entry : d # e => row'[d] = row[d]
          /\ row'[e] = IF e \in Rows THEN fresh ELSE row[e]
      BY <1>0, <2>1
    <3>2. e \in Rows => row[e].class # "none"
      BY DEF Rows
    <3>3. CASE e \in Rows
      BY <2>1, <3>1, <3>2, <3>3
    <3>4. CASE e \notin Rows
      BY <3>1, <3>4
    <3> QED BY <3>3, <3>4
  <2>2. CASE Retire(k)
    <3> DEFINE fresh == Retired(row[e])
    <3>1. row' = [row EXCEPT ![e] = IF e \in Rows THEN fresh ELSE row[e]]
      BY <2>2 DEF Retire, Update
    <3>2. /\ fresh.keys = row[e].keys /\ fresh.source = row[e].source /\ fresh.class = row[e].class
          /\ fresh.lease = None /\ fresh.retired /\ fresh.votes = row[e].votes
      BY <1>0, RowFields
    <3>3. e \in Rows => fresh.class # "none"
      BY <3>2 DEF Rows
    <3> QED BY <2>1, <3>1, <3>2, <3>3
  <2>3. CASE Audit(k)
    <3> DEFINE fresh == Gilded(row[e])
    <3>1. row' = [row EXCEPT ![e] = IF e \in Rows THEN fresh ELSE row[e]]
      BY <2>3 DEF Audit, Update
    <3>2. /\ fresh.keys = row[e].keys /\ fresh.source = row[e].source /\ fresh.class = "gold"
          /\ fresh.lease = row[e].lease /\ fresh.retired = row[e].retired /\ fresh.votes = row[e].votes
      BY <1>0, RowFields
    <3> QED BY <2>1, <3>1, <3>2
  <2>4. CASE Vote(k)
    <3> DEFINE fresh == Voted(row[e])
    <3>1. row' = [row EXCEPT ![e] = IF e \in Rows THEN fresh ELSE row[e]]
      BY <2>4 DEF Vote, Update
    <3>2. /\ fresh.keys = row[e].keys /\ fresh.source = row[e].source /\ fresh.class \in {"gold", row[e].class}
          /\ fresh.lease = row[e].lease /\ fresh.retired = row[e].retired /\ fresh.votes = row[e].votes + 1
      BY <1>0 DEF Voted, RowType
    <3>3. e \in Rows => fresh.class # "none"
      BY <3>2 DEF Rows
    <3> QED BY <2>1, <2>4, <3>1, <3>2, <3>3
  <2> QED BY <2>2, <2>3, <2>4
<1>7. (\A d \in Entry : Born(row'[d]) <=> Born(row[d])) /\ Rows' = Rows
  <2>1. ASSUME NEW d \in Entry PROVE Born(row'[d]) <=> Born(row[d])
    <3>1. CASE d # e
      BY <1>6, <3>1
    <3>2. CASE d = e
      BY <1>1, <1>6, <3>2 DEF Born
    <3> QED BY <3>1, <3>2
  <2> QED BY <1>6, <2>1 DEF Rows
<1>8. /\ \A d \in Entry : voters'[d] = IF d = e /\ e \in Rows /\ Vote(k) THEN voters[d] \cup {Client_(k)}
                                       ELSE voters[d]
  <2>1. Vote(k) => voters' = [voters EXCEPT ![e] = IF e \in Rows THEN voters[e] \cup {Client_(k)} ELSE voters[e]]
    BY <1>0 DEF Vote
  <2>2. ~Vote(k) => voters' = voters
    BY DEF Retire, Audit
  <2> QED BY <1>0, <2>1, <2>2
<1> HIDE DEF e
<1>9. LeasesAreNew'
  BY <1>0, <1>6, <1>7 DEF Lent, LeasesAreNew
<1>10. OneSettles'
  <2>1. ASSUME NEW j \in Check, NEW d \in check'[j].todo
        PROVE  /\ Born(row'[d]) /\ (row'[d].lease = check'[j].nonce \/ row'[d].retired)
               /\ Client_(j)' \notin row'[d].keys
    <3>1. d \in check[j].todo /\ d \in Entry
      BY <1>0, <1>2, <1>4 DEF CheckType
    <3>2. Born(row[d]) /\ (row[d].lease = check[j].nonce \/ row[d].retired) /\ Client_(j) \notin row[d].keys
      BY <3>1 DEF Lent, OneSettles
    <3>3. Client_(j)' = Client_(j) /\ check'[j].nonce = check[j].nonce
      BY <1>5
    <3> QED BY <1>6, <1>7, <3>1, <3>2, <3>3
  <2>2. \A j \in Check : check'[j].todo \subseteq check[j].todo
    BY <1>2, <1>4
  <2>3. \A i, j \in Check : check'[i].todo \cap check'[j].todo # {} => i = j
    BY <2>2 DEF Lent, OneSettles
  <2> QED BY <2>1, <2>3 DEF OneSettles
<1>11. \A j \in Check : check'[j].half # None =>
         /\ j # k /\ check'[j] = check[j] /\ Client_(j)' = Client_(j) /\ check[j].half \in Entry
  BY <1>0, <1>2, <1>4, <1>5 DEF CheckType
<1>12. HalfSettled'
  <2>1. ASSUME NEW j \in Check, check'[j].half # None
        PROVE  /\ check'[j].at \in {"used", "settle"} /\ Born(row'[check'[j].half])
               /\ check'[j].half \in Rows' => /\ Client_(j)' \in row'[check'[j].half].keys
                                              /\ Client_(j)' \notin voters'[check'[j].half]
                                              /\ Client_(j)' # row'[check'[j].half].source
    <3> DEFINE d == check[j].half
    <3>1. /\ d \in Entry /\ j # k /\ check'[j].half = d /\ check'[j].at = check[j].at
          /\ Client_(j)' = Client_(j) /\ d # None
      BY <1>11, <2>1
    <3>2. /\ check[j].at \in {"used", "settle"} /\ Born(row[d])
          /\ d \in Rows => /\ Client_(j) \in row[d].keys /\ Client_(j) \notin voters[d]
                           /\ Client_(j) # row[d].source
      BY <3>1 DEF Lent, HalfSettled
    <3>3. d = e /\ d \in Rows => Client_(j) # Client_(k)
      BY <3>1 DEF Lent, HalfSettled, e
    <3> HIDE DEF d
    <3>4. row'[d].keys = row[d].keys /\ row'[d].source = row[d].source /\ (Born(row'[d]) <=> Born(row[d]))
      BY <1>6, <1>7, <3>1
    <3>5. d \in Rows /\ Client_(j) \notin voters[d] => Client_(j) \notin voters'[d]
      BY <1>8, <3>1, <3>3
    <3> QED BY ONLY <1>7, <3>1, <3>2, <3>4, <3>5
  <2>2. ASSUME NEW i \in Check, NEW j \in Check, check'[i].half = check'[j].half,
               check'[j].half \in Rows', Client_(i)' = Client_(j)'
        PROVE  i = j
    <3>1. check'[j].half # None
      BY <1>0, <2>2 DEF Rows
    <3>2. check[i].half = check[j].half /\ check[j].half \in Rows /\ Client_(i) = Client_(j)
      BY <1>7, <1>11, <2>2, <3>1
    <3> QED BY <3>2 DEF Lent, HalfSettled
  <2> QED BY <1>0, <2>1, <2>2 DEF HalfSettled
<1>13. VotersOnRecord'
  <2>1. ASSUME NEW d \in Entry
        PROVE  /\ IsFiniteSet(voters'[d]) /\ (~Born(row'[d]) => voters'[d] = {})
               /\ d \in Rows => /\ voters'[d] \subseteq row'[d].keys
                                /\ row'[d].source \notin voters'[d]
                                /\ row'[d].votes <= Cardinality(voters'[d])
    <3>1. /\ IsFiniteSet(voters[d]) /\ (~Born(row[d]) => voters[d] = {})
          /\ d \in Rows => /\ voters[d] \subseteq row[d].keys /\ row[d].source \notin voters[d]
                           /\ row[d].votes <= Cardinality(voters[d])
      BY DEF Lent, VotersOnRecord
    <3>2. /\ row'[d].keys = row[d].keys /\ row'[d].source = row[d].source
          /\ (Born(row'[d]) <=> Born(row[d]))
      BY <1>6, <1>7
    <3>3. CASE d = e /\ e \in Rows /\ Vote(k)
      <4>1. voters'[d] = voters[d] \cup {Client_(k)}
        BY <1>8, <3>3
      <4>2. Client_(k) \notin voters[d] /\ Client_(k) \in row[d].keys /\ Client_(k) # row[d].source
        BY <1>1, <3>3 DEF e
      <4>3. IsFiniteSet(voters'[d]) /\ Cardinality(voters'[d]) = Cardinality(voters[d]) + 1
        <5> DEFINE S == voters[d]
                   c == Client_(k)
        <5>1. IsFiniteSet(S) /\ c \notin S
          BY <3>1, <4>2
        <5> HIDE DEF S, c
        <5>2. IsFiniteSet(S \cup {c}) /\ Cardinality(S \cup {c}) = Cardinality(S) + 1
          BY <5>1, FS_AddElement
        <5> QED BY <4>1, <5>2 DEF S, c
      <4>4. Cardinality(voters[d]) \in Nat /\ row[d].votes \in Nat
        BY <1>0, <3>1, FS_CardinalityType DEF RowType
      <4>5. row'[d].votes <= Cardinality(voters'[d])
        <5>1. row[d].votes <= Cardinality(voters[d])
          BY <3>1, <3>3
        <5>2. row'[d].votes = row[d].votes \/ row'[d].votes = row[d].votes + 1
          BY <1>6
        <5> QED BY <4>3, <4>4, <5>1, <5>2
      <4>6. Born(row[d])
        BY <3>3 DEF Born, Rows
      <4> QED BY <3>1, <3>2, <3>3, <4>1, <4>2, <4>3, <4>5, <4>6
    <3>4. CASE ~(d = e /\ e \in Rows /\ Vote(k))
      <4>1. voters'[d] = voters[d] /\ row'[d].votes = row[d].votes
        BY <1>6, <1>8, <3>4
      <4> QED BY <3>1, <3>2, <4>1
    <3> QED BY <3>3, <3>4
  <2> QED BY <1>7, <2>1 DEF VotersOnRecord
<1>14. ProbesAreClaims'
  <2>1. check'[k].audits = {} \/ /\ check'[k].at = check[k].at /\ check'[k].audits = check[k].audits
                                 /\ check'[k].held = check[k].held
    BY <1>3, Blanks
  <2> QED BY <1>2, <2>1 DEF Lent, ProbesAreClaims, FirstParty
<1>15. Retires(check[k], e) => row'[e].retired
  <2>1. ASSUME Retires(check[k], e) PROVE Retire(k)
    <3>1. ~Vote(k)
      BY <2>1 DEF Vote, e
    <3>2. ~Audit(k)
      <4>1. Audit(k) => e \in check[k].audits
        BY DEF Audit, e
      <4>2. e \in check[k].audits => check[k].at = "settle" /\ ~FirstParty(check[k].held[e])
        BY <1>1 DEF Lent, ProbesAreClaims
      <4> QED BY <2>1, <4>1, <4>2 DEF Retires
    <3> QED BY <3>1, <3>2
  <2>2. CASE Retire(k) /\ e \in Rows
    <3>1. row'[e] = Retired(row[e])
      BY <1>0, <2>2 DEF Retire, Update, e
    <3> QED BY <1>0, <3>1, RowFields
  <2>3. CASE e \notin Rows
    <3>1. row[e].retired
      BY <1>0, <1>1, <2>3 DEF Born, Rows, e
    <3> QED BY <1>0, <1>6, <3>1
  <2> QED BY <2>1, <2>2, <2>3
<1>16. SpentIsOut'
  <2>1. ASSUME NEW d \in Entry \ regiven, settled[d] # {}
        PROVE  /\ row'[d].lease = None /\ \A j \in Check : d \notin check'[j].todo
               /\ row'[d].retired \/ \E j \in Check : check'[j].half = d /\ Retires(check'[j], d)
    <3>1. /\ row[d].lease = None /\ \A j \in Check : d \notin check[j].todo
          /\ row[d].retired \/ \E j \in Check : check[j].half = d /\ Retires(check[j], d)
      BY <2>1 DEF Lent, SpentIsOut
    <3>2. row'[d].lease = None /\ \A j \in Check : d \notin check'[j].todo
      BY <1>2, <1>4, <1>6, <3>1
    <3>3. CASE row[d].retired
      BY <1>6, <3>2, <3>3
    <3>4. CASE check[k].half = d /\ Retires(check[k], d)
      BY <1>15, <3>2, <3>4 DEF e
    <3>5. CASE \E j \in Check \ {k} : check[j].half = d /\ Retires(check[j], d)
      BY <1>2, <3>2, <3>5
    <3> QED BY <3>1, <3>3, <3>4, <3>5
  <2>2. \A j \in Check, d \in Entry : Retires(check'[j], d) <=> Retires(check[j], d)'
    BY DEF Retires, AnyGold, FirstParty
  <2> QED BY <1>0, <2>1, <2>2 DEF Lent, SpentIsOut
<1> QED BY <1>9, <1>10, <1>12, <1>13, <1>14, <1>16 DEF Lent

\* Every step keeps the invariant of what is lent, voted and spent.
LEMMA LentStep == GateAssumption /\ GateSound /\ Lent /\ [GateNext]_gateVars => Lent'
<1> SUFFICES ASSUME GateAssumption, GateSound, Lent, [GateNext]_gateVars PROVE Lent'
  OBVIOUS
<1>1. ASSUME NEW n \in Nonce, Sweep(n) \/ Evict(n) \/ PassDeadline(n) \/ \E c \in Client : Quote(n, c)
      PROVE  Lent'
  BY <1>1, LentQuotes
<1>2. ASSUME NEW k \in Check,
             \/ \E n \in Nonce : \E wrong \in SUBSET (quote[n].packet \cup {Fresh}) : Present(k, n, wrong)
             \/ ReadLease(k) \/ Prefilter(k) \/ Busy(k) \/ Verify(k) \/ Sample(k) \/ Pass(k) \/ Fail(k)
      PROVE  Lent'
  <2>1. LeasesAreNew' /\ OneSettles' /\ HalfSettled' /\ VotersOnRecord' /\ SpentIsOut'
    BY <1>2, LentChecks
  <2>2. ProbesAreClaims'
    <3>1. /\ check'[k].at \notin {"sample", "settle"} => check'[k].audits = {}
          /\ \A e \in check'[k].audits : ~FirstParty(check'[k].held[e])
      <4>1. /\ check[k].at \notin {"sample", "settle"} => check[k].audits = {}
            /\ \A e \in check[k].audits : ~FirstParty(check[k].held[e])
        BY DEF Lent, ProbesAreClaims
      <4> QED BY <1>2, <4>1, CheckSteps, Blanks
    <3>2. \A j \in Check \ {k} : check'[j] = check[j]
      BY <1>2, CheckSteps
    <3> QED BY <3>1, <3>2 DEF Lent, ProbesAreClaims, FirstParty
  <2> QED BY <2>1, <2>2 DEF Lent
<1>3. ASSUME NEW k \in Check, Record(k) PROVE Lent'
  BY <1>3, LentRecords
<1>4. ASSUME NEW k \in Check, Retire(k) \/ Audit(k) \/ Vote(k) PROVE Lent'
  BY <1>4, LentHalf
<1>5. CASE UNCHANGED gateVars
  BY <1>5 DEF gateVars, Lent, LeasesAreNew, OneSettles, HalfSettled, VotersOnRecord, ProbesAreClaims,
              SpentIsOut, Rows, Client_, Retires, AnyGold, FirstParty
<1> QED BY <1>1, <1>2, <1>3, <1>4, <1>5 DEF GateNext

\* What is lent, voted and spent, in every state.
LEMMA LentInvariant == ASSUME GateAssumption PROVE GateSpec => []Lent
<1>1. GateInit => GateSound /\ Lent
  BY TypeInit, LentInit
<1>2. GateSound /\ Lent /\ [GateNext]_gateVars => GateSound' /\ Lent'
  BY SoundStep, LentStep
<1> QED BY <1>1, <1>2, PTL DEF GateSpec

\* The votes of a claim are those of as many distinct clients, none of them its
\* source, however payments, quotes and evictions interleave.
THEOREM VotesAreDistinct == ASSUME GateAssumption PROVE GateSpec => []VotesAreOfOthers
<1>1. Lent => VotesAreOfOthers
  BY DEF Lent, VotersOnRecord, VotesAreOfOthers, Rows
<1> QED BY <1>1, LentInvariant, PTL

\* An answer the server knows is spent on one packet, but for an entry that was
\* lent again between the two commits of its settlement.
THEOREM GoldIsSpent == ASSUME GateAssumption PROVE GateSpec => []GoldIsSpentOnce
<1>1. ASSUME Lent, NEW e \in Entry \ regiven PROVE Cardinality(settled[e]) <= 1
  <2>1. settled[e] = {} \/ \E n \in Nonce : settled[e] = {n}
    BY <1>1 DEF Lent, SpentIsOut
  <2>2. CASE settled[e] = {}
    BY <2>2, FS_EmptySet
  <2>3. ASSUME NEW n \in Nonce, settled[e] = {n} PROVE Cardinality(settled[e]) <= 1
    <3>1. Cardinality({n}) = 1
      BY FS_Singleton
    <3> QED BY <2>3, <3>1
  <2> QED BY <2>1, <2>2, <2>3
<1>2. Lent => GoldIsSpentOnce
  BY <1>1 DEF GoldIsSpentOnce
<1> QED BY <1>2, LentInvariant, PTL

=============================================================================
