------------------------ MODULE BrowserOutputProofs -------------------------
(***************************************************************************)
(* Theorems of BrowserOutput, for any tabs, streams, queues and bounds.    *)
(* Every variable keeps its kind.  As long as the server notices the end   *)
(* of a tab's stream before the tab's next one opens, the output holds the *)
(* stream of the tab it plays on, and every other tab has been told to let *)
(* go.  (With LateEnds neither holds: the run browser_reconnect shows it   *)
(* of the first.)                                                          *)
(***************************************************************************)
EXTENDS BrowserOutput, SequenceTheorems, FiniteSetTheorems, WellFoundedInduction, TLAPS

\* None is no stream, medium or number; the media can be counted, and the bounds
\* are numbers.
BrowserAssumption ==
    /\ None \notin Channel /\ None \notin Media /\ None \notin Nat
    /\ IsFiniteSet(Media)
    /\ MaxEpoch \in Nat /\ MaxEdits \in Nat /\ MaxFaults \in Nat

-----------------------------------------------------------------------------
(* The invariant                                                           *)

\* A sequence of what it holds, whatever that is.
Listed(s) == s \in Seq({s[i] : i \in 1..Len(s)})

\* The streams, as what is put on one leaves them.
Shaped(ch) ==
    /\ DOMAIN ch = Channel
    /\ \A c \in Channel :
         /\ ch[c] = [tab |-> ch[c].tab, at |-> ch[c].at, inbox |-> ch[c].inbox]
         /\ ch[c].at \in {"free", "open", "ending"}
         /\ Listed(ch[c].inbox)

\* The fields of the output.
IsOut(o) ==
    /\ o.chan \in Channel \cup {None}
    /\ o = [tab |-> o.tab, chan |-> o.chan, index |-> o.index, ident |-> o.ident,
            state |-> o.state, epoch |-> o.epoch, parked |-> o.parked]

\* The output goes on with the tab it has.
KeepsTab(o, p) == IsOut(p) /\ p.tab = o.tab /\ p.chan = o.chan

\* A tab has one stream at a time.
OneStream == \A c, d \in Channel :
    chans[c].at # "free" /\ chans[d].at # "free" /\ chans[c].tab = chans[d].tab => c = d

ToldToGo(c) == \E k \in 1..Len(chans[c].inbox) : chans[c].inbox[k].cmd = "released"

BrowserSound == Shaped(chans) /\ IsOut(out) /\ OneStream /\ ReconnectedInTime /\ OneRenderer

LEMMA Appends ==
    ASSUME NEW s, Listed(s), NEW d
    PROVE  /\ Listed(Append(s, d)) /\ Len(s) \in Nat /\ Len(Append(s, d)) = Len(s) + 1
           /\ \A k \in 1..Len(s) : Append(s, d)[k] = s[k]
           /\ Append(s, d)[Len(s) + 1] = d
<1> DEFINE S == {s[i] : i \in 1..Len(s)} \cup {d}
<1>1. s \in Seq(S) /\ d \in S
  BY DEF Listed
<1> HIDE DEF S
<1>2. /\ Append(s, d) \in Seq(S) /\ Len(s) \in Nat /\ Len(Append(s, d)) = Len(s) + 1
      /\ \A k \in 1..Len(s) : Append(s, d)[k] = s[k]
      /\ Append(s, d)[Len(s) + 1] = d
  BY <1>1, AppendProperties, LenProperties
<1> DEFINE t == Append(s, d)
           T == {t[i] : i \in 1..Len(t)}
<1>3. t \in [1..Len(t) -> T] /\ Len(t) \in Nat
  BY <1>2, LenProperties
<1>4. t \in Seq(T)
  <2> HIDE DEF t, T
  <2> QED BY <1>3
<1> QED BY <1>2, <1>4 DEF Listed

LEMMA Drops ==
    ASSUME NEW s, Listed(s), s # <<>>
    PROVE  /\ Listed(Tail(s)) /\ Len(s) \in Nat \ {0} /\ Len(Tail(s)) = Len(s) - 1 /\ Head(s) = s[1]
           /\ \A k \in 1..Len(Tail(s)) : Tail(s)[k] = s[k + 1]
<1> DEFINE S == {s[i] : i \in 1..Len(s)}
<1>1. s \in Seq(S)
  BY DEF Listed
<1> HIDE DEF S
<1>2. /\ Tail(s) \in Seq(S) /\ Len(s) \in Nat \ {0} /\ Len(Tail(s)) = Len(s) - 1
      /\ \A k \in 1..Len(Tail(s)) : Tail(s)[k] = s[k + 1]
  BY <1>1
<1> DEFINE t == Tail(s)
           T == {t[i] : i \in 1..Len(t)}
<1>3. t \in [1..Len(t) -> T] /\ Len(t) \in Nat
  BY <1>2, LenProperties
<1>4. t \in Seq(T)
  <2> HIDE DEF t, T
  <2> QED BY <1>3
<1> QED BY <1>1, <1>2, <1>4 DEF Listed

LEMMA Refilled ==
    ASSUME NEW r, NEW t, r = [tab |-> r.tab, at |-> r.at, inbox |-> r.inbox]
    PROVE  [r EXCEPT !.inbox = t] = [tab |-> r.tab, at |-> r.at, inbox |-> t]
OBVIOUS

LEMMA PushedIs ==
    ASSUME NEW ch, Shaped(ch), NEW c \in Channel \cup {None}, NEW d
    PROVE  /\ Shaped(Pushed(ch, c, d))
           /\ \A x \in Channel :
                /\ Pushed(ch, c, d)[x].tab = ch[x].tab /\ Pushed(ch, c, d)[x].at = ch[x].at
                /\ \A k \in 1..Len(ch[x].inbox) :
                     k \in 1..Len(Pushed(ch, c, d)[x].inbox) /\ Pushed(ch, c, d)[x].inbox[k] = ch[x].inbox[k]
           /\ c # None /\ ch[c].at = "open" =>
                \E k \in 1..Len(Pushed(ch, c, d)[c].inbox) : Pushed(ch, c, d)[c].inbox[k] = d
<1>1. CASE c # None /\ ch[c].at = "open"
  <2> DEFINE s == ch[c].inbox
             t == Append(s, d)
             p == [tab |-> ch[c].tab, at |-> ch[c].at, inbox |-> t]
  <2>1. /\ Listed(t) /\ Len(s) \in Nat /\ Len(t) = Len(s) + 1
        /\ \A k \in 1..Len(s) : t[k] = s[k]
        /\ t[Len(s) + 1] = d
    BY <1>1, Appends DEF Shaped
  <2>2. Pushed(ch, c, d) = [ch EXCEPT ![c] = p]
    <3>1. [ch[c] EXCEPT !.inbox = t] = p
      BY <1>1, Refilled DEF Shaped
    <3>2. Pushed(ch, c, d) = [ch EXCEPT ![c] = [ch[c] EXCEPT !.inbox = t]]
      BY <1>1 DEF Pushed
    <3> QED BY <3>1, <3>2
  <2>3. p.tab = ch[c].tab /\ p.at = ch[c].at /\ p.inbox = t /\ p = [tab |-> p.tab, at |-> p.at, inbox |-> p.inbox]
    OBVIOUS
  <2> HIDE DEF p, t
  <2>4. DOMAIN Pushed(ch, c, d) = Channel
        /\ \A x \in Channel : Pushed(ch, c, d)[x] = IF x = c THEN p ELSE ch[x]
    BY <2>2 DEF Shaped
  <2>5. Shaped(Pushed(ch, c, d))
    <3> SUFFICES ASSUME NEW x \in Channel
                 PROVE  LET y == Pushed(ch, c, d)[x]
                        IN  /\ y = [tab |-> y.tab, at |-> y.at, inbox |-> y.inbox]
                            /\ y.at \in {"free", "open", "ending"} /\ Listed(y.inbox)
      BY <2>4 DEF Shaped
    <3>1. CASE x = c
      BY <1>1, <2>1, <2>3, <2>4, <3>1
    <3>2. CASE x # c
      BY <2>4, <3>2 DEF Shaped
    <3> QED BY <3>1, <3>2
  <2>6. \A k \in 1..Len(s) : k \in 1..Len(t) /\ t[k] = s[k]
    BY <2>1
  <2>7. \E k \in 1..Len(t) : t[k] = d
    BY <2>1
  <2>8. ASSUME NEW x \in Channel
        PROVE  /\ Pushed(ch, c, d)[x].tab = ch[x].tab /\ Pushed(ch, c, d)[x].at = ch[x].at
               /\ \A k \in 1..Len(ch[x].inbox) :
                     k \in 1..Len(Pushed(ch, c, d)[x].inbox) /\ Pushed(ch, c, d)[x].inbox[k] = ch[x].inbox[k]
    <3>1. CASE x = c
      BY <2>3, <2>4, <2>6, <3>1
    <3>2. CASE x # c
      BY <2>4, <3>2
    <3> QED BY <3>1, <3>2
  <2>9. Pushed(ch, c, d)[c].inbox = t
    BY <1>1, <2>3, <2>4
  <2> QED BY <2>5, <2>7, <2>8, <2>9
<1>2. CASE ~(c # None /\ ch[c].at = "open")
  BY <1>2 DEF Pushed
<1> QED BY <1>1, <1>2

\* None of what is done with the queue or an event changes whose the output is.
LEMMA StartAtKeeps ==
    ASSUME NEW o, IsOut(o), NEW q, NEW i, NEW play
    PROVE  KeepsTab(o, StartAt(o, q, i, play).out)
BY DEF StartAt, Does, KeepsTab, IsOut

LEMMA StoppedByKeeps ==
    ASSUME NEW o, IsOut(o)
    PROVE  KeepsTab(o, StoppedBy(o).out)
BY DEF StoppedBy, Does, KeepsTab, IsOut

LEMMA QueueChangedKeeps ==
    ASSUME NEW o, IsOut(o), NEW q
    PROVE  KeepsTab(o, QueueChanged(o, q).out)
<1> DEFINE same == {i \in 1..Len(q) : o.ident # None /\ Ident(q[i]) = o.ident}
<1>1. CASE same # {}
  <2>1. PICK best : QueueChanged(o, q) = Does([o EXCEPT !.index = best], TailOf(q, best))
    BY <1>1 DEF QueueChanged
  <2> QED BY <2>1 DEF Does, KeepsTab, IsOut
<1>2. CASE same = {} /\ o.state = "stopped"
  <2>1. QueueChanged(o, q) = Does(o, TailOf(q, o.index))
    BY <1>2 DEF QueueChanged
  <2> QED BY <2>1 DEF Does, KeepsTab, IsOut
<1>3. CASE same = {} /\ o.state # "stopped" /\ q # <<>>
  <2>1. PICK i, play : QueueChanged(o, q) = StartAt(o, q, i, play)
    BY <1>3 DEF QueueChanged
  <2> QED BY <2>1, StartAtKeeps
<1>4. CASE same = {} /\ o.state # "stopped" /\ q = <<>>
  <2>1. QueueChanged(o, q) = StoppedBy(o)
    BY <1>4 DEF QueueChanged
  <2> QED BY <2>1, StoppedByKeeps
<1> QED BY <1>1, <1>2, <1>3, <1>4

\* What is pushed to the output's stream, or to none, tells no tab less.
LEMMA GoesOn ==
    ASSUME BrowserSound, KeepsTab(out, out'), NEW d, chans' \in {chans, Pushed(chans, out.chan, d)}
    PROVE  BrowserSound'
<1>1. /\ Shaped(chans') /\ IsOut(out') /\ out'.tab = out.tab /\ out'.chan = out.chan
      /\ \A x \in Channel :
           /\ chans'[x].tab = chans[x].tab /\ chans'[x].at = chans[x].at
           /\ \A k \in 1..Len(chans[x].inbox) :
                 k \in 1..Len(chans'[x].inbox) /\ chans'[x].inbox[k] = chans[x].inbox[k]
  <2>1. CASE chans' = chans
    BY <2>1 DEF BrowserSound, KeepsTab
  <2>2. CASE chans' = Pushed(chans, out.chan, d)
    BY <2>2, PushedIs DEF BrowserSound, KeepsTab, IsOut
  <2> QED BY <2>1, <2>2
<1>2. OneStream' /\ ReconnectedInTime'
  BY <1>1 DEF BrowserSound, OneStream, ReconnectedInTime
<1>3. OneRenderer'
  <2> SUFFICES ASSUME NEW c \in Channel, chans'[c].at = "open", chans'[c].tab # out'.tab
               PROVE  ToldToGo(c)'
    BY DEF OneRenderer, ToldToGo
  <2>1. PICK k \in 1..Len(chans[c].inbox) : chans[c].inbox[k].cmd = "released"
    BY <1>1 DEF BrowserSound, OneRenderer
  <2> QED BY <1>1, <2>1 DEF ToldToGo
<1> QED BY <1>1, <1>2, <1>3 DEF BrowserSound

LEMMA DoneKeeps ==
    ASSUME BrowserSound, NEW r, Done(r), KeepsTab(out, r.out)
    PROVE  BrowserSound'
<1>1. chans' \in {chans, Pushed(chans, out.chan, r.push)} /\ out' = r.out
  BY DEF Done, KeepsTab
<1> QED BY <1>1, GoesOn

\* A stream that ends, or that the tab reads, leaves whose the output is.
LEMMA Fewer ==
    ASSUME BrowserSound, UNCHANGED out, Shaped(chans'),
           \A c \in Channel :
             /\ chans'[c].at # "free" => chans[c].at # "free" /\ chans'[c].tab = chans[c].tab
             /\ chans'[c].at = "open" => chans[c].at = "open" /\ (ToldToGo(c) => ToldToGo(c)')
    PROVE  BrowserSound'
<1>1. OneStream' /\ ReconnectedInTime' /\ IsOut(out)'
  BY DEF BrowserSound, OneStream, ReconnectedInTime
<1>2. OneRenderer'
  <2> SUFFICES ASSUME NEW c \in Channel, chans'[c].at = "open", chans'[c].tab # out'.tab
               PROVE  ToldToGo(c)'
    BY DEF OneRenderer, ToldToGo
  <2>1. chans[c].at = "open" /\ chans[c].tab # out.tab
    OBVIOUS
  <2> QED BY <2>1 DEF BrowserSound, OneRenderer, ToldToGo
<1> QED BY <1>1, <1>2 DEF BrowserSound

LEMMA Same ==
    ASSUME BrowserSound, UNCHANGED <<out, chans>>
    PROVE  BrowserSound'
BY DEF BrowserSound, OneStream, ReconnectedInTime, OneRenderer


\* The output goes over to a tab and its stream.
MovedTo(o, t, c) == [o EXCEPT !.tab = t, !.chan = c]

LEMMA Moved ==
    ASSUME NEW o, IsOut(o), NEW t, NEW c \in Channel \cup {None}
    PROVE  IsOut(MovedTo(o, t, c)) /\ MovedTo(o, t, c).tab = t /\ MovedTo(o, t, c).chan = c
<1> DEFINE p == [o EXCEPT !.tab = t, !.chan = c]
<1> DEFINE q == [o EXCEPT !.tab = t]
<1>1. q = [tab |-> t, chan |-> o.chan, index |-> o.index, ident |-> o.ident,
           state |-> o.state, epoch |-> o.epoch, parked |-> o.parked]
  BY DEF IsOut
<1>2. p = [q EXCEPT !.chan = c]
  BY DEF IsOut
<1>3. IsOut(q) \/ o.chan \notin Channel \cup {None}
  <2> HIDE DEF q
  <2> QED BY <1>1 DEF IsOut
<1>4. [q EXCEPT !.chan = c] = [tab |-> t, chan |-> c, index |-> o.index, ident |-> o.ident,
           state |-> o.state, epoch |-> o.epoch, parked |-> o.parked]
  <2> HIDE DEF q
  <2> QED BY <1>1
<1>5. IsOut(p) /\ p.tab = t /\ p.chan = c
  <2> HIDE DEF p
  <2> QED BY <1>2, <1>4 DEF IsOut
<1> QED BY <1>5 DEF p, MovedTo

LEMMA Unparked ==
    ASSUME NEW o, IsOut(o)
    PROVE  KeepsTab(o, [o EXCEPT !.parked = None])
BY DEF IsOut, KeepsTab

LEMMA PrimedKeeps ==
    ASSUME NEW o, IsOut(o), NEW p \in Primed(o)
    PROVE  KeepsTab(o, p)
<1>1. PICK s : p = [o EXCEPT !.state = s]
  BY DEF Primed
<1> QED BY <1>1 DEF IsOut, KeepsTab

\* The newest tab wins: the one it takes the output from is told to go.
LEMMA ConnectKeeps ==
    ASSUME BrowserAssumption, ~LateEnds, BrowserSound, NEW t \in Tab, NEW c \in Channel, Connect(t, c)
    PROVE  BrowserSound'
<1> DEFINE go == Simple("released")
           gone == IF out.chan # None /\ out.tab # t
                   THEN Pushed(chans, out.chan, go) ELSE chans
           first == [tab |-> t, at |-> "open", inbox |-> <<>>]
           opened == [gone EXCEPT ![c] = first]
           o == [out EXCEPT !.tab = t, !.chan = c]
           free == [o EXCEPT !.parked = None]
<1>1. chans[c].at = "free" /\ \A x \in Channel : chans[x].at # "free" => chans[x].tab # t
  BY DEF Connect, StreamsOf, BrowserSound, Shaped
<1>2. IsOut(o) /\ o.tab = t /\ o.chan = c
  <2>1. IsOut(out) /\ c \in Channel \cup {None}
    BY DEF BrowserSound
  <2>2. o = MovedTo(out, t, c)
    BY DEF MovedTo
  <2> HIDE DEF o
  <2> QED BY <2>1, <2>2, Moved
<1>3. PICK r : /\ KeepsTab(o, r.out) /\ out' = r.out
               /\ chans' \in {opened, Pushed(opened, c, r.push)}
  <2>1. KeepsTab(o, free)
    <3> HIDE DEF o
    <3> QED BY <1>2, Unparked
  <2>2. KeepsTab(o, StartAt(free, queue, out.parked, TRUE).out)
    <3> HIDE DEF free, o
    <3>1. IsOut(free) /\ free.tab = o.tab /\ free.chan = o.chan
      BY <2>1 DEF KeepsTab
    <3>2. KeepsTab(free, StartAt(free, queue, out.parked, TRUE).out)
      BY <3>1, StartAtKeeps
    <3> QED BY <3>1, <3>2 DEF KeepsTab
  <2>3. \A p \in Primed(o) : \A d : KeepsTab(o, Does(p, d).out)
    <3> HIDE DEF o
    <3> QED BY <1>2, PrimedKeeps DEF Does
  <2>4. KeepsTab(o, Does(o, Nothing).out)
    <3> HIDE DEF o
    <3> QED BY <1>2 DEF Does, KeepsTab
  <2>5. AttachTab(t, c)
    BY DEF Connect
  <2>6. \E r \in IF out.parked # None
                 THEN {StartAt(free, queue, out.parked, TRUE)}
                 ELSE IF out.index \in 1..Len(queue)
                 THEN {Does(p, Load(queue, out.index, FALSE, out.epoch)) : p \in Primed(o)}
                 ELSE {Does(o, Nothing)} :
            /\ out' = r.out
            /\ chans' = IF r.push = Nothing THEN opened ELSE Pushed(opened, c, r.push)
    BY <2>5 DEF AttachTab
  <2> HIDE DEF o, opened, free
  <2> QED BY <2>2, <2>3, <2>4, <2>6
<1>4. /\ Shaped(gone)
      /\ \A x \in Channel :
           /\ gone[x].tab = chans[x].tab /\ gone[x].at = chans[x].at
           /\ \A k \in 1..Len(chans[x].inbox) :
                k \in 1..Len(gone[x].inbox) /\ gone[x].inbox[k] = chans[x].inbox[k]
      /\ \A x \in Channel : x = out.chan /\ out.tab # t /\ chans[x].at = "open" =>
           \E k \in 1..Len(gone[x].inbox) : gone[x].inbox[k].cmd = "released"
  <2>1. go.cmd = "released"
    BY DEF Simple
  <2> HIDE DEF go
  <2>2. CASE out.chan # None /\ out.tab # t
    <3>1. gone = Pushed(chans, out.chan, go)
      BY <2>2
    <3> HIDE DEF gone
    <3> QED BY <2>1, <2>2, <3>1, PushedIs DEF BrowserSound, IsOut
  <2>3. CASE ~(out.chan # None /\ out.tab # t)
    BY <2>3 DEF BrowserSound, BrowserAssumption
  <2> QED BY <2>2, <2>3
<1> HIDE DEF gone, o
<1>5. Shaped(opened) /\ opened[c] = first /\ \A x \in Channel \ {c} : opened[x] = gone[x]
  <2>1. DOMAIN opened = Channel /\ \A x \in Channel : opened[x] = IF x = c THEN first ELSE gone[x]
    BY <1>4 DEF Shaped
  <2>2. first = [tab |-> first.tab, at |-> first.at, inbox |-> first.inbox]
        /\ first.at = "open" /\ Listed(first.inbox)
    BY DEF Listed
  <2> HIDE DEF first, opened
  <2> QED BY <1>4, <2>1, <2>2 DEF Shaped
<1>6. first.tab = t /\ first.at = "open"
  OBVIOUS
<1> HIDE DEF opened, first
<1>7. /\ Shaped(chans')
      /\ \A x \in Channel :
           /\ chans'[x].tab = opened[x].tab /\ chans'[x].at = opened[x].at
           /\ \A k \in 1..Len(opened[x].inbox) :
                k \in 1..Len(chans'[x].inbox) /\ chans'[x].inbox[k] = opened[x].inbox[k]
  <2>1. CASE chans' = opened
    BY <2>1, <1>5
  <2>2. CASE chans' = Pushed(opened, c, r.push)
    BY <2>2, <1>5, PushedIs
  <2> QED BY <1>3, <2>1, <2>2
<1>8. IsOut(out') /\ out'.tab = t /\ out'.chan = c
  BY <1>2, <1>3 DEF KeepsTab
<1>9. OneStream' /\ ReconnectedInTime'
  BY <1>1, <1>4, <1>5, <1>6, <1>7, <1>8 DEF BrowserSound, OneStream, ReconnectedInTime
<1>10. OneRenderer'
  <2> SUFFICES ASSUME NEW x \in Channel, chans'[x].at = "open", chans'[x].tab # out'.tab
               PROVE  \E k \in 1..Len(chans'[x].inbox) : chans'[x].inbox[k].cmd = "released"
    BY DEF OneRenderer
  <2>1. x # c /\ chans[x].at = "open" /\ chans[x].tab # t
    BY <1>4, <1>5, <1>6, <1>7, <1>8
  <2>2. \E k \in 1..Len(gone[x].inbox) : gone[x].inbox[k].cmd = "released"
    <3>1. CASE chans[x].tab = out.tab
      <4>1. out.chan = x
        BY <2>1, <3>1 DEF BrowserSound, ReconnectedInTime
      <4> QED BY <1>4, <2>1, <3>1, <4>1
    <3>2. CASE chans[x].tab # out.tab
      <4>1. PICK k \in 1..Len(chans[x].inbox) : chans[x].inbox[k].cmd = "released"
        BY <2>1, <3>2 DEF BrowserSound, OneRenderer
      <4> QED BY <1>4, <4>1
    <3> QED BY <3>1, <3>2
  <2> QED BY <1>5, <1>7, <2>1, <2>2
<1> QED BY <1>7, <1>8, <1>9, <1>10 DEF BrowserSound

\* A stream that ends takes the output from its tab, which has no other.
LEMMA EndKeeps ==
    ASSUME BrowserSound, NEW c \in Channel, End(c)
    PROVE  BrowserSound'
<1>1. /\ chans' = [chans EXCEPT ![c] = NoChannel] /\ chans[c].at = "ending"
  BY DEF End
<1>2. /\ NoChannel = [tab |-> NoChannel.tab, at |-> NoChannel.at, inbox |-> NoChannel.inbox]
      /\ NoChannel.at = "free" /\ Listed(NoChannel.inbox)
  BY DEF NoChannel, Listed
<1>3. /\ DOMAIN chans' = Channel
      /\ \A x \in Channel : chans'[x] = IF x = c THEN NoChannel ELSE chans[x]
  BY <1>1 DEF BrowserSound, Shaped
<1>4. Shaped(chans')
  BY <1>2, <1>3 DEF BrowserSound, Shaped
<1>5. IsOut(out') /\ out'.tab = out.tab /\ (out'.chan = out.chan \/ out.tab = chans[c].tab)
  <2>1. DetachTab(chans[c].tab)
    BY DEF End
  <2>2. CASE out.tab = chans[c].tab
    <3>1. out' = [out EXCEPT !.chan = None]
      BY <2>1, <2>2 DEF DetachTab, IsItsTab
    <3> QED BY <2>2, <3>1 DEF BrowserSound, IsOut
  <2>3. CASE out.tab # chans[c].tab
    BY <2>1, <2>3 DEF DetachTab, IsItsTab, BrowserSound
  <2> QED BY <2>2, <2>3
<1>6. OneStream'
  BY <1>2, <1>3 DEF BrowserSound, OneStream
<1>7. ReconnectedInTime'
  <2> SUFFICES ASSUME NEW x \in Channel, chans'[x].at = "open", chans'[x].tab = out'.tab
               PROVE  out'.chan = x
    BY DEF ReconnectedInTime
  <2>1. x # c /\ chans'[x] = chans[x]
    BY <1>2, <1>3
  <2>2. out.tab # chans[c].tab
    BY <1>1, <1>5, <2>1 DEF BrowserSound, OneStream
  <2> QED BY <1>5, <2>1, <2>2 DEF BrowserSound, ReconnectedInTime
<1>8. OneRenderer'
  BY <1>2, <1>3, <1>5 DEF BrowserSound, OneRenderer
<1> QED BY <1>4, <1>5, <1>6, <1>7, <1>8 DEF BrowserSound

\* A restart knows no tab, and its streams are gone.
LEMMA NoneKnown ==
    ASSUME out' = NewOutput, chans' = [c \in Channel |-> NoChannel]
    PROVE  BrowserSound'
<1>1. \A c \in Channel : chans'[c] = NoChannel
  OBVIOUS
<1>2. /\ NoChannel = [tab |-> NoChannel.tab, at |-> NoChannel.at, inbox |-> NoChannel.inbox]
      /\ NoChannel.at = "free" /\ Listed(NoChannel.inbox)
  BY DEF NoChannel, Listed
<1>5. Shaped(chans')
  BY <1>1, <1>2 DEF Shaped
<1>3. IsOut(out)'
  BY DEF IsOut, NewOutput
<1> QED BY <1>1, <1>2, <1>3, <1>5 DEF BrowserSound, OneStream, ReconnectedInTime, OneRenderer

\* What is left of a stream the tab is gone from.
LEMMA Hangs ==
    ASSUME Shaped(chans), NEW c \in Channel
    PROVE  /\ Shaped(Hung(c)) /\ Hung(c)[c].at = "ending" /\ Hung(c)[c].tab = chans[c].tab
           /\ \A x \in Channel \ {c} : Hung(c)[x] = chans[x]
<1> DEFINE r == [tab |-> chans[c].tab, at |-> "ending", inbox |-> <<>>]
           u == [chans[c] EXCEPT !.at = "ending"]
<1>1. Hung(c) = [chans EXCEPT ![c] = r]
  <2>1. u = [tab |-> chans[c].tab, at |-> "ending", inbox |-> chans[c].inbox]
    BY DEF Shaped
  <2>2. Hung(c) = [chans EXCEPT ![c] = [u EXCEPT !.inbox = <<>>]]
    BY DEF Shaped, Hung
  <2>3. [u EXCEPT !.inbox = <<>>] = r
    <3> HIDE DEF u
    <3> QED BY <2>1
  <2> HIDE DEF u, r
  <2> QED BY <2>2, <2>3
<1>2. r.tab = chans[c].tab /\ r.at = "ending" /\ Listed(r.inbox)
      /\ r = [tab |-> r.tab, at |-> r.at, inbox |-> r.inbox]
  BY DEF Listed
<1> HIDE DEF r
<1>3. DOMAIN Hung(c) = Channel /\ \A x \in Channel : Hung(c)[x] = IF x = c THEN r ELSE chans[x]
  BY <1>1 DEF Shaped
<1> QED BY <1>2, <1>3 DEF Shaped

\* What the tabs and the server do, one by one.
LEMMA StepSound ==
    ASSUME BrowserAssumption, ~LateEnds, BrowserSound, BrowserNext
    PROVE  BrowserSound'
<1>0. IsOut(out)
  BY DEF BrowserSound
<1>1. CASE Play
  <2>1. CASE Done(Does(out, Simple("play")))
    <3>1. KeepsTab(out, Does(out, Simple("play")).out)
      BY <1>0 DEF Does, KeepsTab
    <3> QED BY <2>1, <3>1, DoneKeeps
  <2>2. CASE \E i : Done(StartAt(out, queue, i, TRUE))
    BY <1>0, <2>2, StartAtKeeps, DoneKeeps
  <2> QED BY <1>1, <2>1, <2>2 DEF Play
<1>2. CASE Pause
  <2>1. PICK s : Done(Does([out EXCEPT !.parked = None, !.state = s], Simple("pause")))
    BY <1>2 DEF Pause
  <2>2. KeepsTab(out, Does([out EXCEPT !.parked = None, !.state = s], Simple("pause")).out)
    BY <1>0 DEF Does, KeepsTab, IsOut
  <2> QED BY <2>1, <2>2, DoneKeeps
<1>3. CASE Stop
  BY <1>0, <1>3, StoppedByKeeps, DoneKeeps DEF Stop
<1>4. ASSUME NEW i, Jump(i) PROVE BrowserSound'
  BY <1>0, <1>4, StartAtKeeps, DoneKeeps DEF Jump
<1>5. ASSUME NEW q, Done(QueueChanged(out, q)) PROVE BrowserSound'
  BY <1>0, <1>5, QueueChangedKeeps, DoneKeeps
<1>6. ASSUME NEW m, NEW play, Replace(m, play) PROVE BrowserSound'
  <2>1. CASE play
    BY <1>0, <1>6, <2>1, StartAtKeeps, DoneKeeps DEF Replace
  <2>2. CASE ~play
    BY <1>0, <1>6, <2>2, StoppedByKeeps, DoneKeeps DEF Replace
  <2> QED BY <2>1, <2>2
<1>7. ASSUME NEW i, NEW way, Land(i, way) PROVE BrowserSound'
  <2>1. CASE Done(StartAt([out EXCEPT !.parked = None], queue', i, TRUE))
    <3>1. KeepsTab(out, [out EXCEPT !.parked = None])
      BY <1>0, Unparked
    <3>2. IsOut([out EXCEPT !.parked = None])
      BY <3>1 DEF KeepsTab
    <3> DEFINE free == [out EXCEPT !.parked = None]
               r == StartAt(free, queue', i, TRUE)
    <3>3. KeepsTab(free, r.out)
      <4> HIDE DEF free
      <4>1. KeepsTab(free, StartAt(free, queue', i, TRUE).out)
        BY <3>2, StartAtKeeps DEF free
      <4> QED BY <4>1
    <3>4. free.tab = out.tab /\ free.chan = out.chan
      BY <3>1 DEF KeepsTab
    <3> HIDE DEF free
    <3>5. KeepsTab(out, r.out)
      BY <3>3, <3>4 DEF KeepsTab
    <3> QED BY <2>1, <3>5, DoneKeeps DEF free
  <2>2. CASE Done(Does(out, Nothing))
    <3>1. KeepsTab(out, Does(out, Nothing).out)
      BY <1>0 DEF Does, KeepsTab
    <3> QED BY <2>2, <3>1, DoneKeeps
  <2> QED BY <1>7, <2>1, <2>2 DEF Land
<1>8. ASSUME NEW t \in Tab, Close(t) PROVE BrowserSound'
  <2>1. /\ chans' = [c \in Channel |-> IF c \in StreamsOf(t, "open") THEN Hung(c)[c] ELSE chans[c]]
        /\ UNCHANGED out
    BY <1>8 DEF Close
  <2>2. \A c \in Channel :
          /\ chans'[c] = chans[c]
             \/ (chans[c].at # "free" /\ chans'[c].at = "ending" /\ chans'[c].tab = chans[c].tab)
          /\ chans'[c] = [tab |-> chans'[c].tab, at |-> chans'[c].at, inbox |-> chans'[c].inbox]
          /\ chans'[c].at \in {"free", "open", "ending"} /\ Listed(chans'[c].inbox)
    <3> SUFFICES ASSUME NEW c \in Channel
                 PROVE  /\ chans'[c] = chans[c]
                           \/ (chans[c].at # "free" /\ chans'[c].at = "ending" /\ chans'[c].tab = chans[c].tab)
                        /\ chans'[c] = [tab |-> chans'[c].tab, at |-> chans'[c].at, inbox |-> chans'[c].inbox]
                        /\ chans'[c].at \in {"free", "open", "ending"} /\ Listed(chans'[c].inbox)
      OBVIOUS
    <3>1. CASE c \in StreamsOf(t, "open")
      <4>1. Shaped(Hung(c)) /\ Hung(c)[c].at = "ending" /\ Hung(c)[c].tab = chans[c].tab
        BY Hangs DEF BrowserSound
      <4>2. chans'[c] = Hung(c)[c] /\ chans[c].at = "open"
        BY <2>1, <3>1 DEF StreamsOf
      <4> QED BY <4>1, <4>2 DEF Shaped
    <3>2. CASE c \notin StreamsOf(t, "open")
      <4>1. chans'[c] = chans[c]
        BY <2>1, <3>2
      <4>2. /\ chans[c] = [tab |-> chans[c].tab, at |-> chans[c].at, inbox |-> chans[c].inbox]
            /\ chans[c].at \in {"free", "open", "ending"} /\ Listed(chans[c].inbox)
        BY DEF BrowserSound, Shaped
      <4> QED BY <4>1, <4>2
    <3> QED BY <3>1, <3>2
  <2>3. DOMAIN chans' = Channel
    BY <2>1
  <2>4. Shaped(chans')
    BY <2>2, <2>3 DEF Shaped
  <2>5. \A c \in Channel :
          /\ chans'[c].at # "free" => chans[c].at # "free" /\ chans'[c].tab = chans[c].tab
          /\ chans'[c].at = "open" => chans[c].at = "open" /\ (ToldToGo(c) => ToldToGo(c)')
    BY <2>2 DEF ToldToGo
  <2> QED BY <2>1, <2>4, <2>5, Fewer
<1>9. ASSUME NEW c \in Channel, chans[c].at = "open", chans' = Hung(c), UNCHANGED out
      PROVE  BrowserSound'
  <2>1. /\ Shaped(chans') /\ chans'[c].at = "ending" /\ chans'[c].tab = chans[c].tab
        /\ \A x \in Channel \ {c} : chans'[x] = chans[x]
    <3>1. /\ Shaped(Hung(c)) /\ Hung(c)[c].at = "ending" /\ Hung(c)[c].tab = chans[c].tab
          /\ \A x \in Channel \ {c} : Hung(c)[x] = chans[x]
      BY Hangs DEF BrowserSound
    <3> QED BY <1>9, <3>1
  <2>2. \A x \in Channel :
          /\ chans'[x].at # "free" => chans[x].at # "free" /\ chans'[x].tab = chans[x].tab
          /\ chans'[x].at = "open" => chans[x].at = "open" /\ (ToldToGo(x) => ToldToGo(x)')
    BY <1>9, <2>1 DEF ToldToGo
  <2> QED BY <1>9, <2>1, <2>2, Fewer
<1>10. ASSUME NEW c \in Channel, Read(c) PROVE BrowserSound'
  <2> DEFINE s == chans[c].inbox
             rest == Tail(s)
             p == [tab |-> chans[c].tab, at |-> chans[c].at, inbox |-> rest]
  <2>1. /\ chans[c].at = "open" /\ s # <<>> /\ UNCHANGED out
        /\ chans' = IF Head(s).cmd = "released" THEN Hung(c) ELSE [chans EXCEPT ![c].inbox = Tail(@)]
    BY <1>10 DEF Read
  <2>2. CASE Head(s).cmd = "released"
    BY <1>9, <2>1, <2>2
  <2>3. CASE Head(s).cmd # "released"
    <3>1. /\ Listed(rest) /\ Len(s) \in Nat \ {0} /\ Len(rest) = Len(s) - 1 /\ Head(s) = s[1]
          /\ \A k \in 1..Len(rest) : rest[k] = s[k + 1]
      BY <2>1, Drops DEF BrowserSound, Shaped
    <3>2. chans' = [chans EXCEPT ![c] = p]
      <4>1. [chans[c] EXCEPT !.inbox = rest] = p
        BY Refilled DEF BrowserSound, Shaped
      <4>2. chans' = [chans EXCEPT ![c] = [chans[c] EXCEPT !.inbox = rest]]
        BY <2>1, <2>3 DEF BrowserSound, Shaped
      <4> HIDE DEF p, rest
      <4> QED BY <4>1, <4>2
    <3>3. p.tab = chans[c].tab /\ p.at = chans[c].at /\ p.inbox = rest
          /\ p = [tab |-> p.tab, at |-> p.at, inbox |-> p.inbox]
      OBVIOUS
    <3> HIDE DEF p, rest
    <3>4. DOMAIN chans' = Channel /\ \A x \in Channel : chans'[x] = IF x = c THEN p ELSE chans[x]
      BY <3>2 DEF BrowserSound, Shaped
    <3>5. Shaped(chans')
      BY <2>1, <3>1, <3>3, <3>4 DEF BrowserSound, Shaped
    <3>6. ToldToGo(c) => ToldToGo(c)'
      <4> SUFFICES ASSUME NEW k \in 1..Len(s), s[k].cmd = "released"
                   PROVE  \E j \in 1..Len(chans'[c].inbox) : chans'[c].inbox[j].cmd = "released"
        BY DEF ToldToGo
      <4>1. k # 1 /\ k - 1 \in 1..Len(rest) /\ rest[k - 1] = s[k]
        BY <2>3, <3>1
      <4>2. chans'[c].inbox = rest
        BY <3>3, <3>4
      <4> QED BY <4>1, <4>2
    <3>7. \A x \in Channel :
            /\ chans'[x].at # "free" => chans[x].at # "free" /\ chans'[x].tab = chans[x].tab
            /\ chans'[x].at = "open" => chans[x].at = "open" /\ (ToldToGo(x) => ToldToGo(x)')
      <4> SUFFICES ASSUME NEW x \in Channel
                   PROVE  /\ chans'[x].at # "free" => chans[x].at # "free" /\ chans'[x].tab = chans[x].tab
                          /\ chans'[x].at = "open" => chans[x].at = "open" /\ (ToldToGo(x) => ToldToGo(x)')
        OBVIOUS
      <4>1. CASE x = c
        BY <2>1, <3>3, <3>4, <3>6, <4>1
      <4>2. CASE x # c
        BY <3>4, <4>2 DEF ToldToGo
      <4> QED BY <4>1, <4>2
    <3> QED BY <2>1, <3>5, <3>7, Fewer
  <2> QED BY <2>2, <2>3
<1>11. CASE GraceExpired
  <2>1. KeepsTab(out, out') /\ chans' \in {chans, Pushed(chans, out.chan, Nothing)}
    <3>1. out' = [out EXCEPT !.state = "stopped"] \/ out' = out
      BY <1>11 DEF GraceExpired
    <3>2. chans' = chans
      BY <1>11 DEF GraceExpired
    <3> QED BY <1>0, <3>1, <3>2 DEF KeepsTab, IsOut
  <2> QED BY <2>1, GoesOn
<1>12. ASSUME NEW p \in posts, Event(p) PROVE BrowserSound'
  <2> DEFINE adopted == IF Adopts(p) THEN [out EXCEPT !.epoch = p.epoch] ELSE out
             o == Resynced(adopted, p)
  <2>1. chans' = chans
    BY <1>12 DEF Event
  <2>2. CASE ~Counts(p)
    BY <1>12, <2>1, <2>2, Same DEF Event
  <2>3. CASE Counts(p)
    <3>1. OnClientEvent(p)
      BY <1>12, <2>3 DEF Event
    <3>2. KeepsTab(out, adopted)
      BY <1>0 DEF KeepsTab, IsOut
    <3> HIDE DEF adopted
    <3>3. KeepsTab(out, o)
      <4>1. o = adopted \/ \E i, m : o = [adopted EXCEPT !.index = i, !.ident = m]
        BY DEF Resynced, Follows
      <4> HIDE DEF o
      <4> QED BY <3>2, <4>1 DEF KeepsTab, IsOut
    <3>4. \/ \E s : out' = [o EXCEPT !.state = s]
          \/ \E i, m, n : out' = [o EXCEPT !.index = i, !.ident = m, !.epoch = n, !.state = "playing"]
      <4> USE DEF adopted
      <4> HIDE DEF o
      <4>1. CASE p.event = "ended"
        <5>1. Advance(o, p.tab)
          BY <3>1, <4>1 DEF OnClientEvent, o
        <5>2. CASE HasNext(o)
          <6>1. out' = [o EXCEPT !.index = o.index + 1, !.ident = Ident(queue[o.index + 1]),
                                 !.epoch = o.epoch + 1, !.state = "playing"]
            BY <5>1, <5>2 DEF Advance
          <6> QED BY <6>1
        <5>3. CASE ~HasNext(o)
          BY <5>1, <5>3 DEF Advance
        <5> QED BY <5>2, <5>3
      <4>2. CASE p.event # "ended"
        <5>1. PICK s : out' = [o EXCEPT !.state = s]
          BY <3>1, <4>2 DEF OnClientEvent, o
        <5> QED BY <5>1
      <4> QED BY <4>1, <4>2
    <3> HIDE DEF o
    <3>5. KeepsTab(out, out')
      BY <3>3, <3>4 DEF KeepsTab, IsOut
    <3> QED BY <2>1, <3>5, GoesOn
  <2> QED BY <2>2, <2>3
<1>13. ASSUME NEW t \in Tab, NEW c \in Channel, Connect(t, c) PROVE BrowserSound'
  BY <1>13, ConnectKeeps
<1>14. CASE UNCHANGED <<out, chans>>
  BY <1>14, Same
<1>15. CASE Person
  <2>1. ASSUME NEW i, TakeOut(i) PROVE BrowserSound'
    BY <1>5, <2>1 DEF TakeOut
  <2>2. ASSUME NEW m, NEW way, Add(m, way) PROVE BrowserSound'
    BY <1>5, <2>2 DEF Add
  <2>3. ASSUME NEW t \in Tab, Claim(t) \/ Tap(t) PROVE BrowserSound'
    BY <1>14, <2>3 DEF Claim, Tap, Alone
  <2> QED BY <1>1, <1>2, <1>3, <1>4, <1>6, <1>8, <1>15, <2>1, <2>2, <2>3 DEF Person
<1>16. CASE Streams
  <2>1. ASSUME NEW c \in Channel, Drop(c) PROVE BrowserSound'
    BY <1>9, <2>1 DEF Drop
  <2>2. ASSUME NEW c \in Channel, End(c) PROVE BrowserSound'
    BY <2>2, EndKeeps
  <2>3. CASE Restart
    BY <2>3, NoneKnown DEF Restart
  <2>4. CASE Lost
    BY <1>14, <2>4 DEF Lost
  <2> QED BY <1>7, <1>10, <1>11, <1>13, <1>16, <2>1, <2>2, <2>3, <2>4 DEF Streams
<1>17. CASE Renders
  BY <1>14, <1>17 DEF Renders, Ended, Fails, TimeUpdate, Alone
<1>18. CASE Events
  BY <1>12, <1>18 DEF Events
<1>19. CASE Answering
  BY <1>14, <1>19 DEF Answering, Answered
<1> QED BY <1>15, <1>16, <1>17, <1>18, <1>19 DEF BrowserNext

LEMMA InitSound == BrowserInit => BrowserSound
<1> SUFFICES ASSUME BrowserInit PROVE BrowserSound
  OBVIOUS
<1>1. out = NewOutput /\ chans = [c \in Channel |-> NoChannel]
  BY DEF BrowserInit
<1>2. /\ NoChannel = [tab |-> NoChannel.tab, at |-> NoChannel.at, inbox |-> NoChannel.inbox]
      /\ NoChannel.at = "free" /\ Listed(NoChannel.inbox)
  BY DEF NoChannel, Listed
<1>3. \A c \in Channel : chans[c] = NoChannel
  BY <1>1
<1>4. Shaped(chans)
  BY <1>1, <1>2, <1>3 DEF Shaped
<1>5. IsOut(out)
  BY <1>1 DEF IsOut, NewOutput
<1> QED BY <1>2, <1>3, <1>4, <1>5 DEF BrowserSound, OneStream, ReconnectedInTime, OneRenderer

-----------------------------------------------------------------------------
\* The inductive invariant: a tab has one stream at a time, the output holds the
\* stream of its tab, and whoever it was taken from is told (attach_tab).
THEOREM BrowserIsSound ==
    ASSUME BrowserAssumption, ~LateEnds
    PROVE  BrowserInit /\ [][BrowserNext]_browserVars => []BrowserSound
<1>1. BrowserSound /\ [BrowserNext]_browserVars => BrowserSound'
  BY StepSound, Same DEF browserVars
<1> QED BY <1>1, InitSound, PTL

\* Two devices never go on playing (attach_tab's takeover rule), in any behaviour,
\* whatever the streams, the tabs, the events and the queue do.
THEOREM OneTabRenders ==
    ASSUME BrowserAssumption, ~LateEnds
    PROVE  BrowserInit /\ [][BrowserNext]_browserVars => []OneRenderer
<1>1. BrowserSound => OneRenderer
  BY DEF BrowserSound
<1> QED BY <1>1, BrowserIsSound, PTL

\* What is pushed gets to the output's tab, whenever that has a stream (detach_tab).
THEOREM TabIsHeld ==
    ASSUME BrowserAssumption, ~LateEnds
    PROVE  BrowserInit /\ [][BrowserNext]_browserVars => []ReconnectedInTime
<1>1. BrowserSound => ReconnectedInTime
  BY DEF BrowserSound
<1> QED BY <1>1, BrowserIsSound, PTL

-----------------------------------------------------------------------------
(* The kinds of values                                                     *)

\* A renderer with a medium has it from a load, and plays no other.
FromALoad(e) ==
    /\ e.playing => e.media # None
    /\ e.media # None => e.epoch # None

\* The next epoch is still to come for a track that has ended.
Answerable(p) == p.event = "ended" => p.epoch # None /\ p.epoch < MaxEpoch

BrowserTyped ==
    /\ BrowserTypeOK
    /\ \A t \in Tab : FromALoad(el[t])
    /\ IsFiniteSet(posts) /\ \A p \in posts : Answerable(p)

QueueOK(q) ==
    /\ q \in Seq(Item)
    /\ \A i, j \in 1..Len(q) : q[i].media = q[j].media => i = j

\* What a method leaves and pushes.
Fits(r) == r.out \in Outputs /\ (r.push = Nothing \/ r.push \in Directives)

LEMMA Places ==
    ASSUME BrowserAssumption
    PROVE  Cardinality(Media) \in Nat /\ Place \subseteq Nat /\ None \notin Place /\ 0 \notin Place
BY FS_CardinalityType DEF BrowserAssumption, Place

LEMMA LeastIsIn ==
    ASSUME NEW S, S \subseteq Nat, S # {}
    PROVE  Min(S) \in S
<1>1. PICK x \in S : \A y \in S : ~(<<y, x>> \in OpToRel(<, Nat))
  BY WFMin, NatLessThanWellFounded
<1>2. \A y \in S : x <= y
  <2> SUFFICES ASSUME NEW y \in S PROVE x <= y
    OBVIOUS
  <2>1. ~(y < x)
    BY <1>1 DEF OpToRel
  <2> QED BY <2>1
<1> QED BY <1>2 DEF Min

LEMMA NoneIsGreater ==
    ASSUME NEW n \in Nat, NEW S, S \subseteq 0..n, NEW y \in S
    PROVE  Max(S) \in S /\ y <= Max(S)
<1> DEFINE T == {n - x : x \in S}
<1>1. T \subseteq Nat /\ T # {}
  OBVIOUS
<1>2. PICK z \in T : \A x \in T : ~(<<x, z>> \in OpToRel(<, Nat))
  BY <1>1, WFMin, NatLessThanWellFounded
<1>3. PICK g \in S : z = n - g
  BY <1>2
<1>4. \A x \in S : g >= x
  <2> SUFFICES ASSUME NEW x \in S PROVE g >= x
    OBVIOUS
  <2>1. n - x \in T
    OBVIOUS
  <2>2. ~(n - x < z)
    BY <1>1, <1>2, <2>1 DEF OpToRel
  <2> QED BY <1>3, <2>2
<1>5. \E x \in S : \A w \in S : x >= w
  BY <1>4
<1>6. Max(S) \in S /\ \A w \in S : Max(S) >= w
  BY <1>5 DEF Max
<1>7. Max(S) \in 0..n /\ y \in 0..n
  BY <1>6
<1>8. Max(S) >= y
  BY <1>6
<1> QED BY ONLY <1>6, <1>7, <1>8, n \in Nat

LEMMA QueueFits ==
    ASSUME BrowserAssumption, NEW q, QueueOK(q)
    PROVE  /\ Len(q) \in Nat /\ Len(q) <= Cardinality(Media) /\ 1..Len(q) \subseteq Place
           /\ \A i \in 1..Len(q) :
                /\ q[i].media \in Media /\ q[i].way \in {"open", "pending", "closed"}
                /\ Ident(q[i]) \in Media \cup {None}
<1>1. Len(q) \in Nat /\ \A i \in 1..Len(q) : q[i] \in Item
  BY DEF QueueOK
<1>2. \A i \in 1..Len(q) :
        q[i].media \in Media /\ q[i].way \in {"open", "pending", "closed"}
  BY <1>1 DEF Item
<1> DEFINE f == [i \in 1..Len(q) |-> q[i].media]
<1>3. f \in Injection(1..Len(q), Media)
  <2>1. f \in [1..Len(q) -> Media]
    BY <1>2
  <2>2. \A i, j \in 1..Len(q) : f[i] = f[j] => i = j
    BY DEF QueueOK
  <2> QED BY <2>1, <2>2 DEF Injection, IsInjective
<1>4. Cardinality(1..Len(q)) = Len(q) /\ Cardinality(1..Len(q)) <= Cardinality(Media)
  <2>1. Cardinality(1..Len(q)) <= Cardinality(Media)
    <3> HIDE DEF f
    <3> QED BY <1>3, FS_Injection DEF BrowserAssumption
  <2>2. Cardinality(1..Len(q)) = Len(q)
    <3>1. \A n \in Nat : Cardinality(1..n) = n
      <4> SUFFICES ASSUME NEW n \in Nat PROVE Cardinality(1..n) = n
        OBVIOUS
      <4> QED BY FS_Interval
    <3> QED BY <1>1, <3>1
  <2> QED BY <2>1, <2>2
<1>5. 1..Len(q) \subseteq Place
  BY <1>1, <1>4, Places DEF Place
<1> QED BY <1>1, <1>2, <1>4, <1>5 DEF Ident

LEMMA TailFits ==
    ASSUME BrowserAssumption, NEW q, QueueOK(q), NEW i \in Place \cup {0}
    PROVE  QueueTail(q, i) \in Entries
<1> SUFFICES ASSUME i # 0, NEW j \in i..Len(q)
             PROVE  j \in Place /\ q[j].media \in Media
  BY DEF QueueTail, Entries
<1>1. i \in Nat \ {0} /\ Len(q) \in Nat
  BY Places, QueueFits
<1>2. j \in 1..Len(q)
  BY <1>1
<1> QED BY <1>2, QueueFits

LEMMA SimpleFits ==
    ASSUME NEW cmd \in {"queue", "play", "pause", "stop", "released"}, NEW l \in Entries
    PROVE  Simple(cmd) \in Directives /\ [Simple(cmd) EXCEPT !.list = l] \in Directives
BY DEF Simple, Directives, Entries

LEMMA TailOfFits ==
    ASSUME BrowserAssumption, NEW q, QueueOK(q), NEW i \in Place \cup {0}
    PROVE  TailOf(q, i) \in Directives
BY TailFits, SimpleFits DEF TailOf

LEMMA LoadFits ==
    ASSUME BrowserAssumption, NEW q, QueueOK(q), NEW i \in 1..Len(q), NEW play \in BOOLEAN,
           NEW n \in Epoch
    PROVE  Load(q, i, play, n) \in Directives
<1>1. i \in Place /\ Ident(q[i]) \in Media \cup {None} /\ QueueTail(q, i) \in Entries
  BY QueueFits, TailFits
<1>2. n # None
  BY DEF Epoch, BrowserAssumption
<1> QED BY <1>1, <1>2 DEF Load, Directives

LEMMA ReachableIs ==
    ASSUME NEW q, Len(q) \in Nat, NEW i
    PROVE  Reachable(q, i) = 0 \/ Reachable(q, i) \in 1..Len(q)
<1> DEFINE found == {j \in 1..Len(q) : j >= i /\ q[j].way # "closed"}
<1>1. CASE i = 0 \/ found = {}
  BY <1>1 DEF Reachable
<1>2. CASE i # 0 /\ found # {}
  <2>1. found \subseteq Nat
    OBVIOUS
  <2>2. Min(found) \in found
    <3> HIDE DEF found
    <3> QED BY <1>2, <2>1, LeastIsIn
  <2> QED BY <1>2, <2>2 DEF Reachable
<1> QED BY <1>1, <1>2

LEMMA StartAtFits ==
    ASSUME BrowserAssumption, NEW o \in Outputs, o.epoch < MaxEpoch, NEW q, QueueOK(q), NEW i,
           NEW play \in BOOLEAN
    PROVE  Fits(StartAt(o, q, i, play))
<1> DEFINE j == Reachable(q, i)
<1>1. j = 0 \/ j \in 1..Len(q)
  BY ReachableIs, QueueFits
<1>2. j # 0 => j \in Place /\ Ident(q[j]) \in Media \cup {None} /\ q[j].media \in Media
  BY <1>1, QueueFits
<1>3. o.epoch + 1 \in Epoch
  BY DEF Outputs, Epoch, BrowserAssumption
<1> HIDE DEF j
<1>4. CASE j = 0
  BY <1>4 DEF StartAt, Does, Fits, j
<1>5. CASE j # 0 /\ q[j].way = "pending"
  <2>1. StartAt(o, q, i, play) =
          Does([o EXCEPT !.index = j, !.ident = None,
                         !.parked = IF play THEN j ELSE None,
                         !.state = IF play THEN "loading" ELSE "stopped"], Nothing)
    BY <1>5 DEF StartAt, j
  <2>2. [o EXCEPT !.index = j, !.ident = None,
                  !.parked = IF play THEN j ELSE None,
                  !.state = IF play THEN "loading" ELSE "stopped"] \in Outputs
    BY <1>2, <1>5 DEF Outputs
  <2> QED BY <2>1, <2>2 DEF Does, Fits
<1>6. CASE j # 0 /\ q[j].way = "open" /\ o.chan = None
  <2>1. StartAt(o, q, i, play) =
          Does([o EXCEPT !.index = j, !.ident = q[j].media,
                         !.parked = IF play THEN j ELSE @, !.state = "stopped"], Nothing)
    BY <1>6 DEF StartAt, j
  <2>2. [o EXCEPT !.index = j, !.ident = q[j].media,
                  !.parked = IF play THEN j ELSE @, !.state = "stopped"] \in Outputs
    BY <1>2, <1>6 DEF Outputs
  <2> QED BY <2>1, <2>2 DEF Does, Fits
<1>7. CASE j # 0 /\ q[j].way # "pending" /\ ~(q[j].way = "open" /\ o.chan = None)
  <2>1. StartAt(o, q, i, play) =
          Does([o EXCEPT !.index = j, !.ident = q[j].media, !.epoch = @ + 1,
                         !.state = IF play THEN "playing" ELSE @],
               Load(q, j, play, o.epoch + 1))
    BY <1>7 DEF StartAt, j
  <2>2. Load(q, j, play, o.epoch + 1) \in Directives
    BY <1>1, <1>3, <1>7, LoadFits
  <2>3. [o EXCEPT !.index = j, !.ident = q[j].media, !.epoch = @ + 1,
                  !.state = IF play THEN "playing" ELSE @] \in Outputs
    BY <1>2, <1>3, <1>7 DEF Outputs
  <2> QED BY <2>1, <2>2, <2>3 DEF Does, Fits
<1> QED BY <1>4, <1>5, <1>6, <1>7

LEMMA StoppedByFits ==
    ASSUME NEW o \in Outputs
    PROVE  Fits(StoppedBy(o))
BY SimpleFits DEF StoppedBy, Does, Fits, Outputs, Entries

LEMMA QueueChangedFits ==
    ASSUME BrowserAssumption, NEW o \in Outputs, o.epoch < MaxEpoch, NEW q, QueueOK(q)
    PROVE  Fits(QueueChanged(o, q))
<1> DEFINE same == {i \in 1..Len(q) : o.ident # None /\ Ident(q[i]) = o.ident}
<1>1. CASE same # {}
  <2>1. PICK best \in 1..Len(q) :
               QueueChanged(o, q) = Does([o EXCEPT !.index = best], TailOf(q, best))
    BY <1>1 DEF QueueChanged
  <2>2. best \in Place
    BY QueueFits
  <2> QED BY <2>1, <2>2, TailOfFits DEF Does, Fits, Outputs
<1>2. CASE same = {} /\ o.state = "stopped"
  <2>1. QueueChanged(o, q) = Does(o, TailOf(q, o.index))
    BY <1>2 DEF QueueChanged
  <2>2. o.index \in Place \cup {0}
    BY DEF Outputs
  <2> QED BY <2>1, <2>2, TailOfFits DEF Does, Fits
<1>3. CASE same = {} /\ o.state # "stopped" /\ q # <<>>
  <2>1. QueueChanged(o, q) = StartAt(o, q, Min({o.index, Len(q)}), o.state = "playing")
    BY <1>3 DEF QueueChanged
  <2> QED BY <2>1, StartAtFits
<1>4. CASE same = {} /\ o.state # "stopped" /\ q = <<>>
  <2>1. QueueChanged(o, q) = StoppedBy(o)
    BY <1>4 DEF QueueChanged
  <2> QED BY <2>1, StoppedByFits
<1> QED BY <1>1, <1>2, <1>3, <1>4

\* Where a load may come, its epoch is one there is.
LEMMA LoadsAreNumbered ==
    ASSUME BrowserAssumption, BrowserTyped, CanLoad
    PROVE  /\ out.epoch < MaxEpoch
           /\ \A t \in Tab : el[t].epoch # None => el[t].epoch < MaxEpoch
<1>1. Cardinality(Ending) \in Nat
  BY FS_Subset, FS_CardinalityType DEF BrowserTyped, Ending
<1>2. Epochs \subseteq 0..MaxEpoch /\ out.epoch \in Epochs
      /\ \A t \in Tab : el[t].epoch # None => el[t].epoch \in Epochs
  BY DEF BrowserTyped, BrowserTypeOK, Outputs, Renderers, Epoch, Epochs
<1>3. ASSUME NEW n \in Epochs PROVE n < MaxEpoch
  <2>1. Max(Epochs) \in Epochs /\ n <= Max(Epochs)
    BY <1>2, NoneIsGreater DEF BrowserAssumption
  <2>2. Max(Epochs) \in Nat /\ n \in Nat /\ MaxEpoch \in Nat
    <3>1. \A x \in Epochs : x \in Nat
      BY <1>2 DEF BrowserAssumption
    <3> QED BY <2>1, <3>1 DEF BrowserAssumption
  <2>3. Max(Epochs) + Cardinality(Ending) < MaxEpoch
    BY DEF CanLoad
  <2> QED BY ONLY <1>1, <2>1, <2>2, <2>3
<1> QED BY <1>2, <1>3

LEMMA PushedFits ==
    ASSUME NEW ch \in [Channel -> ChannelType], NEW c \in Channel \cup {None}, NEW d \in Directives
    PROVE  Pushed(ch, c, d) \in [Channel -> ChannelType]
<1>1. CASE c # None /\ ch[c].at = "open"
  <2>1. ch[c] \in ChannelType /\ ch[c].inbox \in Seq(Directives)
    BY <1>1 DEF ChannelType
  <2>2. Append(ch[c].inbox, d) \in Seq(Directives)
    BY <2>1, AppendProperties
  <2>3. [ch[c] EXCEPT !.inbox = Append(ch[c].inbox, d)] \in ChannelType
    BY <2>1, <2>2 DEF ChannelType
  <2>4. Pushed(ch, c, d) = [ch EXCEPT ![c] = [ch[c] EXCEPT !.inbox = Append(ch[c].inbox, d)]]
    BY <1>1 DEF Pushed
  <2> QED BY <2>3, <2>4
<1>2. CASE ~(c # None /\ ch[c].at = "open")
  BY <1>2 DEF Pushed
<1> QED BY <1>1, <1>2

LEMMA DoneFits ==
    ASSUME BrowserTyped, NEW r, Fits(r), Done(r)
    PROVE  out' \in Outputs /\ chans' \in [Channel -> ChannelType]
<1>1. out' \in Outputs /\ out' = r.out /\ chans \in [Channel -> ChannelType]
  BY DEF Done, Fits, BrowserTyped, BrowserTypeOK
<1>2. CASE r.push = Nothing
  BY <1>1, <1>2 DEF Done
<1>3. CASE r.push # Nothing
  <2>1. r.push \in Directives /\ r.out.chan \in Channel \cup {None}
    BY <1>1, <1>3 DEF Fits, Outputs
  <2> QED BY <1>1, <1>3, <2>1, PushedFits DEF Done
<1> QED BY <1>2, <1>3

\* What the server does on its own leaves the tabs and what is on its way.
LEMMA ServersOwn ==
    ASSUME BrowserTyped, UNCHANGED tabSide, QueueOK(queue'), out' \in Outputs, grace' \in BOOLEAN,
           chans' \in [Channel -> ChannelType], edits' \in 0..MaxEdits, faults' \in 0..MaxFaults
    PROVE  BrowserTyped'
<1>1. BrowserTypeOK'
  BY DEF BrowserTyped, BrowserTypeOK, tabSide, QueueOK
<1> QED BY <1>1 DEF BrowserTyped, tabSide, Answerable

LEMMA KindsAre ==
    ASSUME BrowserTyped
    PROVE  /\ QueueOK(queue) /\ out \in Outputs /\ grace \in BOOLEAN
           /\ chans \in [Channel -> ChannelType] /\ el \in [Tab -> Renderers]
           /\ posts \subseteq Posted /\ answers \subseteq [tab : Tab, d : Directives]
           /\ edits \in 0..MaxEdits /\ faults \in 0..MaxFaults
BY DEF BrowserTyped, BrowserTypeOK, QueueOK

LEMMA FaultsFit ==
    ASSUME BrowserAssumption, BrowserTyped, Fault
    PROVE  faults' \in 0..MaxFaults
BY KindsAre DEF Fault, BrowserAssumption

LEMMA PersonFits ==
    ASSUME BrowserAssumption, BrowserTyped, Pressed, NEW r, Fits(r), Done(r)
    PROVE  BrowserTyped'
<1>1. UNCHANGED <<queue, grace, edits, faults>> /\ UNCHANGED tabSide
  BY DEF Pressed, edge
<1>2. QueueOK(queue')
  BY <1>1, KindsAre
<1> QED BY <1>1, <1>2, KindsAre, DoneFits, ServersOwn

LEMMA PlayFits ==
    ASSUME BrowserAssumption, BrowserTyped, Play
    PROVE  BrowserTyped'
<1>1. CASE Done(Does(out, Simple("play")))
  <2>1. Fits(Does(out, Simple("play")))
    BY KindsAre, SimpleFits DEF Does, Fits, Entries
  <2> QED BY <1>1, <2>1, PersonFits DEF Play
<1>2. CASE CanLoad /\ Done(StartAt(out, queue, Max({1, out.index}), TRUE))
  <2>1. Fits(StartAt(out, queue, Max({1, out.index}), TRUE))
    BY <1>2, KindsAre, LoadsAreNumbered, StartAtFits
  <2> QED BY <1>2, <2>1, PersonFits DEF Play
<1> QED BY <1>1, <1>2 DEF Play

LEMMA PauseFits ==
    ASSUME BrowserAssumption, BrowserTyped, Pause
    PROVE  BrowserTyped'
<1> DEFINE o == [out EXCEPT !.parked = None,
                 !.state = IF @ = "playing" \/ (@ = "loading" /\ out.parked # None)
                           THEN "paused" ELSE @]
<1>1. o \in Outputs
  BY KindsAre DEF Outputs
<1>2. Done(Does(o, Simple("pause"))) /\ Pressed
  BY DEF Pause
<1> HIDE DEF o
<1>3. Fits(Does(o, Simple("pause")))
  BY <1>1, SimpleFits DEF Does, Fits, Entries
<1> QED BY <1>2, <1>3, PersonFits

LEMMA AddOK ==
    ASSUME NEW q, QueueOK(q), NEW m \in Media, \A i \in 1..Len(q) : q[i].media # m,
           NEW way \in {"open", "pending"}
    PROVE  QueueOK(Append(q, [media |-> m, way |-> way]))
<1> DEFINE item == [media |-> m, way |-> way]
<1>1. item \in Item /\ item.media = m
  BY DEF Item
<1> HIDE DEF item
<1>2. q \in Seq(Item) /\ Len(q) \in Nat /\ Append(q, item) \in Seq(Item)
      /\ Len(Append(q, item)) = Len(q) + 1
      /\ \A i \in 1..Len(q) : Append(q, item)[i] = q[i]
      /\ Append(q, item)[Len(q) + 1] = item
  BY <1>1, AppendProperties DEF QueueOK
<1>3. ASSUME NEW i \in 1..Len(q) + 1, NEW j \in 1..Len(q) + 1,
             Append(q, item)[i].media = Append(q, item)[j].media
      PROVE  i = j
  <2>1. CASE i \in 1..Len(q) /\ j \in 1..Len(q)
    BY <1>2, <1>3, <2>1 DEF QueueOK
  <2>2. CASE i = Len(q) + 1 /\ j \in 1..Len(q)
    BY <1>1, <1>2, <1>3, <2>2
  <2>3. CASE i \in 1..Len(q) /\ j = Len(q) + 1
    BY <1>1, <1>2, <1>3, <2>3
  <2>4. CASE i = Len(q) + 1 /\ j = Len(q) + 1
    BY <2>4
  <2> QED BY <1>2, <2>1, <2>2, <2>3, <2>4
<1> QED BY <1>2, <1>3 DEF QueueOK, item

LEMMA RemoveOK ==
    ASSUME NEW q, QueueOK(q), NEW i \in 1..Len(q)
    PROVE  QueueOK(RemoveAt(q, i))
<1> DEFINE front == SubSeq(q, 1, i - 1)
           back  == SubSeq(q, i + 1, Len(q))
           r     == front \o back
           at(k) == IF k < i THEN k ELSE k + 1
<1>1. q \in Seq(Item) /\ Len(q) \in Nat /\ \A k \in 1..Len(q) : q[k] \in Item
  BY DEF QueueOK
<1>2. /\ front \in Seq(Item) /\ Len(front) = i - 1
      /\ \A k \in 1..(i - 1) : front[k] = q[k]
  <2>1. \A k \in 1..(i - 1) : q[k] \in Item
    BY <1>1
  <2> QED BY <1>1, <2>1, SubSeqProperties
<1>3. /\ back \in Seq(Item) /\ Len(back) = Len(q) - i
      /\ \A k \in 1..(Len(q) - i) : back[k] = q[k + i]
  <2>1. \A k \in (i + 1)..Len(q) : q[k] \in Item
    BY <1>1
  <2> QED BY <1>1, <2>1, SubSeqProperties
<1> HIDE DEF front, back
<1>4. /\ r \in Seq(Item) /\ Len(r) = Len(q) - 1
      /\ \A k \in 1..(Len(q) - 1) : r[k] = IF k <= i - 1 THEN front[k] ELSE back[k - (i - 1)]
  <2>1. /\ r \in Seq(Item) /\ Len(r) = Len(front) + Len(back)
        /\ \A k \in 1..(Len(front) + Len(back)) :
             r[k] = IF k <= Len(front) THEN front[k] ELSE back[k - Len(front)]
    BY <1>2, <1>3, ConcatProperties
  <2>2. Len(front) + Len(back) = Len(q) - 1
    BY <1>1, <1>2, <1>3
  <2> HIDE DEF r
  <2> QED BY <1>2, <2>1, <2>2
<1> HIDE DEF r
<1>5. \A k \in 1..Len(r) : at(k) \in 1..Len(q) /\ r[k] = q[at(k)]
  <2> SUFFICES ASSUME NEW k \in 1..Len(r) PROVE at(k) \in 1..Len(q) /\ r[k] = q[at(k)]
    OBVIOUS
  <2>1. CASE k < i
    <3>1. k \in 1..(i - 1) /\ k \in 1..Len(q) /\ k \in 1..(Len(q) - 1)
      BY <1>1, <1>4, <2>1
    <3> QED BY <1>2, <1>4, <2>1, <3>1
  <2>2. CASE k >= i
    <3>1. k - (i - 1) \in 1..(Len(q) - i) /\ (k - (i - 1)) + i = k + 1
      BY <1>1, <1>4, <2>2
    <3> QED BY <1>1, <1>3, <1>4, <2>2, <3>1
  <2> QED BY <1>1, <1>4, <2>1, <2>2
<1>6. \A k, l \in 1..Len(r) : r[k].media = r[l].media => k = l
  <2> SUFFICES ASSUME NEW k \in 1..Len(r), NEW l \in 1..Len(r), r[k].media = r[l].media PROVE k = l
    OBVIOUS
  <2>1. at(k) = at(l)
    BY <1>5 DEF QueueOK
  <2> QED BY <1>1, <1>4, <2>1
<1> QED BY <1>4, <1>6 DEF QueueOK, RemoveAt, r, front, back

LEMMA LandOK ==
    ASSUME NEW q, QueueOK(q), NEW i \in 1..Len(q), NEW way \in {"open", "closed"}
    PROVE  QueueOK([q EXCEPT ![i].way = way])
<1> DEFINE r == [q EXCEPT ![i].way = way]
<1>1. q \in Seq(Item) /\ Len(q) \in Nat /\ \A k \in 1..Len(q) : q[k] \in Item
  BY DEF QueueOK
<1>2. [q[i] EXCEPT !.way = way] \in Item /\ [q[i] EXCEPT !.way = way].media = q[i].media
  BY <1>1 DEF Item
<1>3. r = [q EXCEPT ![i] = [q[i] EXCEPT !.way = way]]
  OBVIOUS
<1>4. r \in Seq(Item) /\ Len(r) = Len(q)
  BY <1>1, <1>2, <1>3, ExceptSeq
<1>5. \A k \in 1..Len(q) : r[k].media = q[k].media
  <2> SUFFICES ASSUME NEW k \in 1..Len(q) PROVE r[k].media = q[k].media
    OBVIOUS
  <2>1. DOMAIN q = 1..Len(q)
    BY <1>1, LenProperties
  <2> QED BY <1>2, <1>3, <2>1
<1> HIDE DEF r
<1> QED BY <1>4, <1>5 DEF QueueOK, r

LEMMA EditsFit ==
    ASSUME BrowserAssumption, BrowserTyped, NEW q, Edited(q), QueueOK(q), NEW r, Fits(r), Done(r)
    PROVE  BrowserTyped'
<1>1. queue' = q /\ grace' = grace /\ faults' = faults /\ UNCHANGED tabSide
  BY DEF Edited
<1>2. edits' \in 0..MaxEdits
  BY KindsAre DEF Edited, BrowserAssumption
<1>3. QueueOK(queue')
  BY <1>1
<1> QED BY <1>1, <1>2, <1>3, KindsAre, DoneFits, ServersOwn

LEMMA QueueEditsFit ==
    ASSUME BrowserAssumption, BrowserTyped, NEW q, Edited(q), QueueOK(q),
           Done(QueueChanged(out, q))
    PROVE  BrowserTyped'
<1>1. out.epoch < MaxEpoch
  BY LoadsAreNumbered DEF Edited
<1> QED BY <1>1, KindsAre, QueueChangedFits, EditsFit

LEMMA AddFits ==
    ASSUME BrowserAssumption, BrowserTyped, NEW m \in Media, NEW way \in {"open", "pending"},
           Add(m, way)
    PROVE  BrowserTyped'
<1> DEFINE q == Append(queue, [media |-> m, way |-> way])
<1>1. QueueOK(q)
  BY AddOK, KindsAre DEF Add
<1>2. Edited(q) /\ queue' = q /\ Done(QueueChanged(out, queue'))
  BY DEF Add, Edited
<1> HIDE DEF q
<1>3. Done(QueueChanged(out, q))
  BY <1>2
<1> QED BY <1>1, <1>2, <1>3, QueueEditsFit

LEMMA TakeOutFits ==
    ASSUME BrowserAssumption, BrowserTyped, NEW i \in 1..Len(queue), TakeOut(i)
    PROVE  BrowserTyped'
<1> DEFINE q == RemoveAt(queue, i)
<1>1. QueueOK(q)
  BY RemoveOK, KindsAre
<1>2. Edited(q) /\ queue' = q /\ Done(QueueChanged(out, queue'))
  BY DEF TakeOut, Edited
<1> HIDE DEF q
<1>3. Done(QueueChanged(out, q))
  BY <1>2
<1> QED BY <1>1, <1>2, <1>3, QueueEditsFit

LEMMA ReplaceFits ==
    ASSUME BrowserAssumption, BrowserTyped, NEW m \in Media, NEW play \in BOOLEAN, Replace(m, play)
    PROVE  BrowserTyped'
<1> DEFINE item == [media |-> m, way |-> "open"]
           q == <<item>>
<1>1. QueueOK(q)
  <2>1. item \in Item
    BY DEF Item
  <2> HIDE DEF item
  <2>2. q \in Seq(Item) /\ Len(q) = 1
    BY <2>1
  <2>3. \A i, j \in 1..1 : i = j
    OBVIOUS
  <2> QED BY <2>2, <2>3 DEF QueueOK
<1>2. Edited(q) /\ queue' = q
      /\ Done(IF play THEN StartAt(out, queue', 1, TRUE) ELSE StoppedBy(out))
  BY DEF Replace, Edited
<1> HIDE DEF q
<1>3. out.epoch < MaxEpoch
  BY <1>2, LoadsAreNumbered DEF Edited
<1>4. CASE play
  <2>1. Done(StartAt(out, q, 1, TRUE))
    BY <1>2, <1>4
  <2> QED BY <1>1, <1>2, <1>3, <2>1, KindsAre, StartAtFits, EditsFit
<1>5. CASE ~play
  <2>1. Done(StoppedBy(out))
    BY <1>2, <1>5
  <2> QED BY <1>1, <1>2, <2>1, KindsAre, StoppedByFits, EditsFit
<1> QED BY <1>4, <1>5

LEMMA LandFits ==
    ASSUME BrowserAssumption, BrowserTyped, NEW i \in 1..Len(queue), NEW way \in {"open", "closed"},
           Land(i, way)
    PROVE  BrowserTyped'
<1> DEFINE q == [queue EXCEPT ![i].way = way]
           free == [out EXCEPT !.parked = None]
           r == IF out.parked = i /\ out.index = i THEN StartAt(free, queue', i, TRUE)
                ELSE Does(out, Nothing)
<1>1. QueueOK(q)
  BY LandOK, KindsAre
<1>2. queue' = q /\ Done(r) /\ UNCHANGED edge /\ UNCHANGED tabSide
  BY DEF Land
<1> HIDE DEF q
<1>3. out.epoch < MaxEpoch
  BY LoadsAreNumbered DEF Land
<1>4. free \in Outputs /\ free.epoch = out.epoch
  BY KindsAre DEF Outputs
<1>5. Fits(r)
  <2>1. Fits(Does(out, Nothing))
    BY KindsAre DEF Does, Fits
  <2>2. Fits(StartAt(free, queue', i, TRUE))
    <3> HIDE DEF free
    <3> QED BY <1>1, <1>2, <1>3, <1>4, StartAtFits
  <2> QED BY <2>1, <2>2
<1> HIDE DEF r
<1>6. /\ QueueOK(queue') /\ grace' \in BOOLEAN /\ edits' \in 0..MaxEdits
      /\ faults' \in 0..MaxFaults
  BY <1>1, <1>2, KindsAre DEF edge
<1> QED BY <1>2, <1>5, <1>6, DoneFits, ServersOwn

LEMMA ConnectFits ==
    ASSUME BrowserAssumption, BrowserTyped, NEW t \in Tab, NEW c \in Channel, Connect(t, c)
    PROVE  BrowserTyped'
<1> DEFINE gone == IF out.chan # None /\ out.tab # t
                   THEN Pushed(chans, out.chan, Simple("released")) ELSE chans
           first == [tab |-> t, at |-> "open", inbox |-> <<>>]
           opened == [gone EXCEPT ![c] = first]
           o == [out EXCEPT !.tab = t, !.chan = c]
           free == [o EXCEPT !.parked = None]
<1>1. opened \in [Channel -> ChannelType]
  <2>1. gone \in [Channel -> ChannelType]
    <3>1. Simple("released") \in Directives /\ out.chan \in Channel \cup {None}
      BY SimpleFits, KindsAre DEF Entries, Outputs
    <3> QED BY <3>1, KindsAre, PushedFits
  <2>2. first \in ChannelType
    BY EmptySeq DEF ChannelType
  <2> HIDE DEF gone, first
  <2> QED BY <2>1, <2>2
<1>2. o \in Outputs /\ o.epoch = out.epoch /\ o.parked = out.parked /\ o.index = out.index
      /\ free \in Outputs /\ free.epoch = out.epoch
  BY KindsAre DEF Outputs
<1>3. AttachTab(t, c) /\ (out.parked # None => CanLoad) /\ grace' = FALSE
      /\ UNCHANGED <<queue, edits, faults>> /\ UNCHANGED tabSide
  BY DEF Connect
<1>4. PICK r : /\ Fits(r) /\ out' = r.out
               /\ chans' = IF r.push = Nothing THEN opened ELSE Pushed(opened, c, r.push)
  <2>1. PICK r \in IF out.parked # None
                 THEN {StartAt(free, queue, out.parked, TRUE)}
                 ELSE IF out.index \in 1..Len(queue)
                 THEN {Does(p, Load(queue, out.index, FALSE, out.epoch)) : p \in Primed(o)}
                 ELSE {Does(o, Nothing)} :
            /\ out' = r.out
            /\ chans' = IF r.push = Nothing THEN opened ELSE Pushed(opened, c, r.push)
    BY <1>3 DEF AttachTab
  <2> HIDE DEF opened, free, o
  <2>2. CASE out.parked # None
    <3>1. r = StartAt(free, queue, out.parked, TRUE) /\ out.epoch < MaxEpoch
      BY <1>3, <2>1, <2>2, LoadsAreNumbered
    <3> QED BY <1>2, <2>1, <3>1, KindsAre, StartAtFits
  <2>3. CASE out.parked = None /\ out.index \in 1..Len(queue)
    <3>1. PICK p \in Primed(o) : r = Does(p, Load(queue, out.index, FALSE, out.epoch))
      BY <2>1, <2>3
    <3>2. PICK s : p = [o EXCEPT !.state = s] /\ s \in {"stopped", "loading", "playing", "paused"}
      <4>1. o.state \in {"stopped", "loading", "playing", "paused"}
        BY <1>2 DEF Outputs
      <4> QED BY <3>1, <4>1 DEF Primed
    <3>3. p \in Outputs
      BY <1>2, <3>2 DEF Outputs
    <3>4. Load(queue, out.index, FALSE, out.epoch) \in Directives
      <4>1. out.epoch \in Epoch
        BY KindsAre DEF Outputs
      <4> QED BY <2>3, <4>1, KindsAre, LoadFits
    <3>5. Fits(r)
      BY <3>1, <3>3, <3>4 DEF Does, Fits
    <3> QED BY <2>1, <3>5
  <2>4. CASE out.parked = None /\ out.index \notin 1..Len(queue)
    <3>1. r = Does(o, Nothing)
      BY <2>1, <2>4
    <3>2. Fits(r)
      BY <1>2, <3>1 DEF Does, Fits
    <3> QED BY <2>1, <3>2
  <2> QED BY <2>2, <2>3, <2>4
<1> HIDE DEF opened
<1>5. chans' \in [Channel -> ChannelType]
  BY <1>1, <1>4, PushedFits DEF Fits
<1>6. out' \in Outputs
  BY <1>4 DEF Fits
<1>7. QueueOK(queue') /\ edits' \in 0..MaxEdits /\ faults' \in 0..MaxFaults
  BY <1>3, KindsAre
<1> QED BY <1>3, <1>5, <1>6, <1>7, ServersOwn

LEMMA HungFits ==
    ASSUME BrowserTyped, NEW c \in Channel
    PROVE  Hung(c) \in [Channel -> ChannelType] /\ NoChannel \in ChannelType
<1>1. chans \in [Channel -> ChannelType] /\ chans[c] \in ChannelType
  BY KindsAre
<1> DEFINE u == [chans[c] EXCEPT !.at = "ending"]
           v == [u EXCEPT !.inbox = <<>>]
<1>2. u \in ChannelType
  BY <1>1 DEF ChannelType
<1>3. v \in ChannelType
  <2> HIDE DEF u
  <2> QED BY <1>2, EmptySeq DEF ChannelType
<1>4. Hung(c) = [chans EXCEPT ![c] = v]
  BY <1>1 DEF Hung
<1> HIDE DEF v
<1> QED BY <1>1, <1>3, <1>4, EmptySeq DEF NoChannel, ChannelType

LEMMA EndFits ==
    ASSUME BrowserAssumption, BrowserTyped, NEW c \in Channel, End(c)
    PROVE  BrowserTyped'
<1>1. /\ chans' = [chans EXCEPT ![c] = NoChannel] /\ UNCHANGED <<queue, edits, faults>>
      /\ UNCHANGED tabSide
      /\ out' \in {out, [out EXCEPT !.chan = None]} /\ grace' \in {grace, TRUE}
  BY DEF End, DetachTab
<1>2. out' \in Outputs
  BY <1>1, KindsAre DEF Outputs
<1>3. chans' \in [Channel -> ChannelType]
  BY <1>1, HungFits, KindsAre
<1>4. QueueOK(queue') /\ grace' \in BOOLEAN /\ edits' \in 0..MaxEdits /\ faults' \in 0..MaxFaults
  BY <1>1, KindsAre
<1> QED BY <1>1, <1>2, <1>3, <1>4, ServersOwn

LEMMA GraceFits ==
    ASSUME BrowserAssumption, BrowserTyped, GraceExpired
    PROVE  BrowserTyped'
<1>1. /\ out' \in {out, [out EXCEPT !.state = "stopped"]} /\ grace' = FALSE
      /\ UNCHANGED <<queue, chans, edits, faults>> /\ UNCHANGED tabSide
  BY DEF GraceExpired
<1>2. out' \in Outputs
  BY <1>1, KindsAre DEF Outputs
<1>3. /\ QueueOK(queue') /\ chans' \in [Channel -> ChannelType]
      /\ edits' \in 0..MaxEdits /\ faults' \in 0..MaxFaults
  BY <1>1, KindsAre
<1> QED BY <1>1, <1>2, <1>3, ServersOwn

LEMMA DropFits ==
    ASSUME BrowserAssumption, BrowserTyped, NEW c \in Channel, Drop(c)
    PROVE  BrowserTyped'
<1>1. chans' = Hung(c) /\ UNCHANGED <<queue, out, grace, edits>> /\ UNCHANGED tabSide
  BY DEF Drop
<1>2. QueueOK(queue') /\ out' \in Outputs /\ grace' \in BOOLEAN /\ edits' \in 0..MaxEdits
  BY <1>1, KindsAre
<1>3. faults' \in 0..MaxFaults
  BY FaultsFit DEF Drop
<1> QED BY <1>1, <1>2, <1>3, HungFits, ServersOwn

-----------------------------------------------------------------------------
\* A renderer after a directive or an event of its element, and what it says.
Lawful(r, words) == r.el \in Renderers /\ FromALoad(r.el) /\ r.says \subseteq words

Replies == Says \ {"ended"}

LEMMA TriedFits ==
    ASSUME NEW e \in Renderers, FromALoad(e), NEW r \in Tried(e)
    PROVE  Lawful(r, {"playing", "paused"})
<1>1. CASE e.playing
  <2>1. r = Becomes(e, {})
    BY <1>1 DEF Tried
  <2> QED BY <2>1 DEF Becomes, Lawful
<1>2. CASE ~e.playing /\ e.media = None
  <2>1. r = Becomes(e, {"paused"})
    BY <1>2 DEF Tried
  <2> QED BY <2>1 DEF Becomes, Lawful
<1>3. CASE ~e.playing /\ e.media # None
  <2> DEFINE f == [e EXCEPT !.playing = TRUE]
  <2>1. r = Becomes(f, {"playing"}) \/ r = Becomes(e, {"paused"})
    BY <1>3 DEF Tried
  <2>2. f \in Renderers /\ FromALoad(f)
    BY <1>3 DEF Renderers, FromALoad
  <2> HIDE DEF f
  <2> QED BY <2>1, <2>2 DEF Becomes, Lawful
<1> QED BY <1>1, <1>2, <1>3

LEMMA RelocatedFits ==
    ASSUME NEW e \in Renderers, FromALoad(e), NEW l \in Entries
    PROVE  /\ Relocated([e EXCEPT !.list = l]) \in Renderers
           /\ FromALoad(Relocated([e EXCEPT !.list = l]))
<1> DEFINE f == [e EXCEPT !.list = l]
           same == {n \in f.list : n.media = f.media}
<1>1. f \in Renderers /\ FromALoad(f)
  BY DEF Renderers, FromALoad
<1> SUFFICES Relocated(f) \in Renderers /\ FromALoad(Relocated(f))
  OBVIOUS
<1> HIDE DEF f
<1>2. CASE f.slot = None \/ f.media = None \/ same = {}
  BY <1>1, <1>2 DEF Relocated
<1>3. CASE ~(f.slot = None \/ f.media = None \/ same = {})
  <2>1. PICK n \in same : Relocated(f) = [f EXCEPT !.slot = n.slot]
    BY <1>3 DEF Relocated
  <2>2. n.slot \in Place
    BY <1>1 DEF Renderers, Entries
  <2> QED BY <1>1, <2>1, <2>2 DEF Renderers, FromALoad
<1> QED BY <1>2, <1>3

LEMMA LoadedFits ==
    ASSUME NEW e \in Renderers, FromALoad(e), NEW d \in Directives, d.cmd = "load",
           NEW r \in Loaded(e, d)
    PROVE  Lawful(r, Replies)
<1> DEFINE told == [e EXCEPT !.epoch = d.epoch, !.list = d.list]
           put  == [told EXCEPT !.slot = d.slot, !.media = d.media, !.src = TRUE, !.playing = FALSE]
<1>1. told \in Renderers /\ FromALoad(told)
  BY DEF Renderers, FromALoad, Directives
<1>2. put \in Renderers /\ FromALoad(put)
  <2>1. told.epoch = d.epoch /\ d.epoch # None
    BY DEF Renderers, Directives
  <2> HIDE DEF told
  <2> QED BY <1>1, <2>1 DEF Renderers, FromALoad, Directives
<1>3. \/ r = Becomes(told, {})
      \/ r = Becomes(put, IF d.play THEN {"error", "paused"} ELSE {"error"})
      \/ r \in Tried(put)
      \/ r = Becomes(put, {})
  <2> HIDE DEF told
  <2>1. CASE ~d.play /\ d.slot = e.slot /\ d.media = e.media /\ e.src
    <3>1. r = Becomes(told, {})
      BY <2>1 DEF Loaded, told
    <3> QED BY <3>1
  <2>2. CASE /\ ~(~d.play /\ d.slot = e.slot /\ d.media = e.media /\ e.src)
             /\ d.media = None /\ (d.play \/ d.slot # e.slot \/ e.media # None \/ ~e.src)
    <3>1. r = Becomes(put, IF d.play THEN {"error", "paused"} ELSE {"error"})
      BY <2>2 DEF Loaded, told
    <3> QED BY <3>1
  <2>3. CASE /\ ~(~d.play /\ d.slot = e.slot /\ d.media = e.media /\ e.src)
             /\ ~(d.media = None /\ (d.play \/ d.slot # e.slot \/ e.media # None \/ ~e.src))
    <3>1. r \in IF d.play THEN Tried(put) ELSE {Becomes(put, {})}
      BY <2>3 DEF Loaded, told
    <3> QED BY <3>1
  <2> QED BY <2>1, <2>2, <2>3
<1> HIDE DEF told, put
<1>4. CASE r \in Tried(put)
  <2>1. Lawful(r, {"playing", "paused"})
    BY <1>2, <1>4, TriedFits
  <2> QED BY <2>1 DEF Lawful, Replies, Says
<1> QED BY <1>1, <1>2, <1>3, <1>4 DEF Becomes, Lawful, Replies, Says

LEMMA OnDirectiveFits ==
    ASSUME BrowserAssumption, NEW e \in Renderers, FromALoad(e), NEW d \in Directives,
           NEW r \in OnDirective(e, d)
    PROVE  Lawful(r, Replies)
<1>1. CASE d.cmd = "load"
  <2>1. r \in Loaded(e, d)
    BY <1>1 DEF OnDirective
  <2> QED BY <1>1, <2>1, LoadedFits
<1>2. CASE d.cmd = "queue"
  <2>1. r = Becomes(Relocated([e EXCEPT !.list = d.list]), {})
    BY <1>2 DEF OnDirective
  <2>2. d.list \in Entries
    BY DEF Directives
  <2> QED BY <2>1, <2>2, RelocatedFits DEF Becomes, Lawful
<1>3. CASE d.cmd = "play"
  <2>1. r \in Tried(e)
    BY <1>3 DEF OnDirective
  <2>2. Lawful(r, {"playing", "paused"})
    BY <2>1, TriedFits
  <2> QED BY <2>2 DEF Lawful, Replies, Says
<1>4. CASE d.cmd = "pause"
  <2>1. r = Becomes([e EXCEPT !.playing = FALSE], IF e.playing THEN {"paused"} ELSE {})
    BY <1>4 DEF OnDirective
  <2>2. [e EXCEPT !.playing = FALSE] \in Renderers /\ FromALoad([e EXCEPT !.playing = FALSE])
    BY DEF Renderers, FromALoad
  <2> QED BY <2>1, <2>2 DEF Becomes, Lawful, Replies, Says
<1>5. CASE d.cmd = "stop"
  <2> DEFINE f == [e EXCEPT !.slot = None, !.media = None, !.src = FALSE, !.playing = FALSE]
  <2>1. r = Becomes(f, {})
    BY <1>5 DEF OnDirective
  <2>2. f \in Renderers /\ FromALoad(f)
    BY DEF Renderers, FromALoad
  <2> HIDE DEF f
  <2> QED BY <2>1, <2>2 DEF Becomes, Lawful
<1>6. CASE d.cmd = "released"
  <2>1. r = Becomes(NoRenderer, {})
    BY <1>6 DEF OnDirective
  <2>2. NoRenderer \in Renderers /\ FromALoad(NoRenderer)
    BY DEF Renderers, FromALoad, NoRenderer, Entries
  <2> QED BY <2>1, <2>2 DEF Becomes, Lawful
<1> QED BY <1>1, <1>2, <1>3, <1>4, <1>5, <1>6 DEF Directives

\* What a tab posts.
Said(t, r) == {[tab |-> t, event |-> s, slot |-> r.el.slot, epoch |-> r.el.epoch] : s \in r.says}

LEMMA SaidFits ==
    ASSUME NEW t \in Tab, NEW r, Lawful(r, Says),
           "ended" \in r.says => r.el.epoch # None /\ r.el.epoch < MaxEpoch
    PROVE  /\ Said(t, r) \subseteq Posted /\ IsFiniteSet(Said(t, r))
           /\ \A p \in Said(t, r) : Answerable(p)
<1>1. r.el.slot \in Place \cup {None} /\ r.el.epoch \in Epoch \cup {None} /\ r.says \subseteq Says
  BY DEF Lawful, Renderers
<1>2. Said(t, r) \subseteq Posted /\ \A p \in Said(t, r) : Answerable(p)
  BY <1>1 DEF Said, Posted, Answerable
<1>3. IsFiniteSet(r.says)
  <2>1. IsFiniteSet(Says)
    <3>1. \A S, x : IsFiniteSet(S) => IsFiniteSet(S \cup {x})
      BY FS_AddElement
    <3>2. Says = {} \cup {"playing"} \cup {"paused"} \cup {"ended"} \cup {"error"} \cup {"advanced"}
                 \cup {"timeupdate"}
      BY DEF Says
    <3> QED BY <3>1, <3>2, FS_EmptySet
  <2> QED BY <1>1, <2>1, FS_Subset
<1>4. IsFiniteSet(Said(t, r))
  <2> DEFINE f == [s \in r.says |-> [tab |-> t, event |-> s, slot |-> r.el.slot,
                                    epoch |-> r.el.epoch]]
  <2>1. f \in Surjection(r.says, Said(t, r))
    BY DEF Surjection, Said
  <2> HIDE DEF f
  <2> QED BY <1>3, <2>1, FS_Surjection
<1> QED BY <1>2, <1>4

\* A tab does something, and posts it.
LEMMA TabsOwn ==
    ASSUME BrowserTyped, NEW t \in Tab, NEW r, Lawful(r, Says),
           "ended" \in r.says => r.el.epoch # None /\ r.el.epoch < MaxEpoch,
           el' = [el EXCEPT ![t] = r.el], posts' = posts \cup Said(t, r),
           UNCHANGED <<queue, out, grace, edits>>, chans' \in [Channel -> ChannelType],
           answers' \subseteq answers, faults' \in 0..MaxFaults
    PROVE  BrowserTyped'
<1>1. /\ Said(t, r) \subseteq Posted /\ IsFiniteSet(Said(t, r))
      /\ \A p \in Said(t, r) : Answerable(p)
  BY SaidFits
<1>2. /\ posts' \subseteq Posted /\ IsFiniteSet(posts')
      /\ \A p \in posts' : Answerable(p)
  BY <1>1, KindsAre, FS_Union DEF BrowserTyped
<1>3. el' \in [Tab -> Renderers] /\ \A u \in Tab : FromALoad(el'[u])
  BY KindsAre DEF BrowserTyped, Lawful
<1>4. BrowserTypeOK'
  BY <1>2, <1>3, KindsAre DEF QueueOK, BrowserTypeOK
<1> QED BY <1>2, <1>3, <1>4 DEF BrowserTyped, Answerable

LEMMA TurnsFit ==
    ASSUME BrowserTyped, NEW t \in Tab, NEW outcomes, Turns(t, outcomes),
           \A r \in outcomes : /\ Lawful(r, Says)
                               /\ "ended" \in r.says => r.el.epoch # None /\ r.el.epoch < MaxEpoch,
           UNCHANGED <<queue, out, grace, edits, answers>>, chans' \in [Channel -> ChannelType],
           faults' \in 0..MaxFaults
    PROVE  BrowserTyped'
<1>1. PICK r \in outcomes : el' = [el EXCEPT ![t] = r.el] /\ posts' = posts \cup Said(t, r)
  BY DEF Turns, Said
<1>2. answers' \subseteq answers
  OBVIOUS
<1> QED BY <1>1, <1>2, TabsOwn

LEMMA ReadFits ==
    ASSUME BrowserAssumption, BrowserTyped, NEW c \in Channel, Read(c)
    PROVE  BrowserTyped'
<1> DEFINE s == chans[c].inbox
           d == Head(s)
           t == chans[c].tab
<1>1. /\ s # <<>> /\ Turns(t, OnDirective(el[t], d))
      /\ chans' = IF d.cmd = "released" THEN Hung(c) ELSE [chans EXCEPT ![c].inbox = Tail(s)]
      /\ UNCHANGED <<queue, out, grace, edits, faults, answers>>
  <2>1. chans \in [Channel -> ChannelType]
    BY KindsAre
  <2> QED BY <2>1 DEF Read, edge
<1>2. /\ chans \in [Channel -> ChannelType] /\ chans[c] \in ChannelType /\ s \in Seq(Directives)
      /\ d \in Directives /\ Tail(s) \in Seq(Directives)
  <2>1. chans \in [Channel -> ChannelType] /\ chans[c] \in ChannelType
    BY KindsAre
  <2>2. s \in Seq(Directives)
    BY <2>1 DEF ChannelType
  <2> HIDE DEF s
  <2>3. Head(s) \in Directives /\ Tail(s) \in Seq(Directives)
    BY <1>1, <2>2, HeadTailProperties
  <2> QED BY <2>1, <2>2, <2>3
<1>3. chans' \in [Channel -> ChannelType]
  <2>1. [chans[c] EXCEPT !.inbox = Tail(s)] \in ChannelType
    <3> HIDE DEF s
    <3> QED BY <1>2 DEF ChannelType
  <2>2. [chans EXCEPT ![c].inbox = Tail(s)] = [chans EXCEPT ![c] = [chans[c] EXCEPT !.inbox = Tail(s)]]
    BY <1>2
  <2> HIDE DEF s
  <2> QED BY <1>1, <1>2, <2>1, <2>2, HungFits
<1>6. t \in Tab /\ faults' \in 0..MaxFaults
  BY <1>1, <1>2, KindsAre DEF Read, ChannelType
<1> HIDE DEF d, t
<1>4. el[t] \in Renderers /\ FromALoad(el[t])
  BY <1>6, KindsAre DEF BrowserTyped
<1>5. \A r \in OnDirective(el[t], d) :
        /\ Lawful(r, Says)
        /\ "ended" \in r.says => r.el.epoch # None /\ r.el.epoch < MaxEpoch
  <2> SUFFICES ASSUME NEW r \in OnDirective(el[t], d) PROVE Lawful(r, Says) /\ "ended" \notin r.says
    OBVIOUS
  <2>1. Lawful(r, Replies)
    BY <1>2, <1>4, OnDirectiveFits
  <2> QED BY <2>1 DEF Lawful, Replies
<1> QED BY <1>1, <1>3, <1>5, <1>6, TurnsFit

LEMMA AnsweredFits ==
    ASSUME BrowserAssumption, BrowserTyped, NEW a \in answers, Answered(a)
    PROVE  BrowserTyped'
<1>1. a.tab \in Tab /\ a.d \in Directives
  BY KindsAre
<1>2. PICK r \in OnDirective(el[a.tab], a.d) :
             el' = [el EXCEPT ![a.tab] = r.el] /\ posts' = posts \cup Said(a.tab, r)
  BY DEF Answered, Said
<1>3. Lawful(r, Says) /\ "ended" \notin r.says
  <2>1. el[a.tab] \in Renderers /\ FromALoad(el[a.tab])
    BY <1>1, KindsAre DEF BrowserTyped
  <2>2. Lawful(r, Replies)
    BY <1>1, <1>2, <2>1, OnDirectiveFits
  <2> QED BY <2>2 DEF Lawful, Replies
<1>4. /\ UNCHANGED <<queue, out, grace, edits>> /\ chans' \in [Channel -> ChannelType]
      /\ answers' \subseteq answers /\ faults' \in 0..MaxFaults
  BY KindsAre DEF Answered, edge
<1> QED BY <1>1, <1>2, <1>3, <1>4, TabsOwn

\* The page of a tab comes or goes.
LEMMA PagesFit ==
    ASSUME BrowserAssumption, BrowserTyped, NEW t \in Tab, Claim(t) \/ Close(t)
    PROVE  BrowserTyped'
<1> DEFINE e == [el[t] EXCEPT !.on = TRUE]
<1>1. el[t] \in Renderers /\ FromALoad(el[t]) /\ chans \in [Channel -> ChannelType]
  BY KindsAre DEF BrowserTyped
<1>2. e \in Renderers /\ FromALoad(e) /\ NoRenderer \in Renderers /\ FromALoad(NoRenderer)
  BY <1>1 DEF Renderers, FromALoad, NoRenderer, Entries
<1>3. chans' \in [Channel -> ChannelType]
  <2>1. CASE Claim(t)
    BY <1>1, <2>1 DEF Claim
  <2>2. CASE Close(t)
    <3>1. \A c \in Channel : chans[c] \in ChannelType /\ Hung(c)[c] \in ChannelType
      BY <1>1, HungFits
    <3> QED BY <2>2, <3>1 DEF Close
  <2> QED BY <2>1, <2>2
<1>4. el' \in {[el EXCEPT ![t] = e], [el EXCEPT ![t] = NoRenderer]}
  BY KindsAre DEF Claim, Close
<1> HIDE DEF e
<1>5. el' \in [Tab -> Renderers] /\ \A u \in Tab : FromALoad(el'[u])
  BY <1>2, <1>4, KindsAre DEF BrowserTyped
<1>6. faults' \in 0..MaxFaults /\ UNCHANGED <<queue, out, grace, edits, posts, answers>>
  BY KindsAre, FaultsFit DEF Claim, Close, edge
<1>7. BrowserTypeOK'
  BY <1>3, <1>5, <1>6, KindsAre DEF QueueOK, BrowserTypeOK
<1> QED BY <1>5, <1>6, <1>7 DEF BrowserTyped, Answerable

LEMMA TapFits ==
    ASSUME BrowserAssumption, BrowserTyped, NEW t \in Tab, Tap(t)
    PROVE  BrowserTyped'
<1> DEFINE e == [el[t] EXCEPT !.playing = TRUE]
           r == Becomes(e, {"playing"})
<1>1. el[t] \in Renderers /\ FromALoad(el[t])
  BY KindsAre DEF BrowserTyped
<1>2. Turns(t, {r}) /\ el[t].media # None
  BY DEF Tap
<1>3. e \in Renderers /\ FromALoad(e)
  BY <1>1, <1>2 DEF Renderers, FromALoad
<1> HIDE DEF e
<1>4. Lawful(r, Says) /\ "ended" \notin r.says
  BY <1>3 DEF Becomes, Lawful, Says
<1>5. /\ UNCHANGED <<queue, out, grace, edits, answers>> /\ chans' \in [Channel -> ChannelType]
      /\ faults' \in 0..MaxFaults
  BY KindsAre DEF Tap, Alone, edge
<1> HIDE DEF r
<1>6. \A x \in {r} : /\ Lawful(x, Says)
                     /\ "ended" \in x.says => x.el.epoch # None /\ x.el.epoch < MaxEpoch
  BY <1>4
<1> QED BY <1>2, <1>5, <1>6, TurnsFit

LEMMA ElementFits ==
    ASSUME BrowserAssumption, BrowserTyped, NEW t \in Tab, Fails(t) \/ TimeUpdate(t)
    PROVE  BrowserTyped'
<1> DEFINE e == [el[t] EXCEPT !.playing = FALSE]
           r == Becomes(e, {"error"})
           w == Becomes(el[t], {"timeupdate"})
<1>1. el[t] \in Renderers /\ FromALoad(el[t])
  BY KindsAre DEF BrowserTyped
<1>2. Turns(t, {r}) \/ Turns(t, {w})
  BY DEF Fails, TimeUpdate
<1>3. e \in Renderers /\ FromALoad(e)
  BY <1>1 DEF Renderers, FromALoad
<1> HIDE DEF e
<1>4. /\ Lawful(r, Says) /\ "ended" \notin r.says
      /\ Lawful(w, Says) /\ "ended" \notin w.says
  BY <1>1, <1>3 DEF Becomes, Lawful, Says
<1>5. /\ UNCHANGED <<queue, out, grace, edits, answers>> /\ chans' \in [Channel -> ChannelType]
      /\ faults' \in 0..MaxFaults
  BY KindsAre, FaultsFit DEF Fails, TimeUpdate, Alone, edge
<1> HIDE DEF r, w
<1>6. \A y \in {r, w} : /\ Lawful(y, Says)
                        /\ "ended" \in y.says => y.el.epoch # None /\ y.el.epoch < MaxEpoch
  BY <1>4
<1>7. (\A y \in {r} : /\ Lawful(y, Says)
                      /\ "ended" \in y.says => y.el.epoch # None /\ y.el.epoch < MaxEpoch)
      /\ (\A y \in {w} : /\ Lawful(y, Says)
                         /\ "ended" \in y.says => y.el.epoch # None /\ y.el.epoch < MaxEpoch)
  BY <1>6
<1> QED BY <1>2, <1>5, <1>7, TurnsFit

\* A tab goes on to a medium of its list, or asks, from an epoch that is not the last.
LEMMA EndedFits ==
    ASSUME BrowserAssumption, BrowserTyped, NEW t \in Tab, Ended(t)
    PROVE  BrowserTyped'
<1> DEFINE e == [el[t] EXCEPT !.playing = FALSE]
           onto(n) == [e EXCEPT !.slot = n.slot, !.media = n.media]
           further == UNION {{[r EXCEPT !.says = @ \cup {"advanced"}] : r \in Tried(onto(n))}
                             : n \in NextEntry(e)}
           outcomes == IF NextEntry(e) = {} THEN {Becomes(e, {"ended"})} ELSE further
<1>1. el[t] \in Renderers /\ FromALoad(el[t])
  BY KindsAre DEF BrowserTyped
<1>2. Turns(t, outcomes) /\ el[t].playing /\ (NextEntry(e) = {} => CanLoad)
  BY DEF Ended
<1>3. e \in Renderers /\ FromALoad(e) /\ e.epoch # None /\ e.epoch = el[t].epoch /\ e.playing = FALSE
  BY <1>1, <1>2 DEF Renderers, FromALoad
<1> HIDE DEF e
<1>4. \A n \in NextEntry(e) : n.slot \in Place /\ n.media \in Media
  BY <1>3 DEF NextEntry, Renderers, Entries
<1>5. ASSUME NEW r \in outcomes
      PROVE  Lawful(r, Says) /\ ("ended" \in r.says => r.el.epoch # None /\ r.el.epoch < MaxEpoch)
  <2>1. CASE NextEntry(e) = {}
    <3>1. e.epoch < MaxEpoch
      BY <1>2, <1>3, <2>1, LoadsAreNumbered
    <3>2. r = Becomes(e, {"ended"})
      BY <2>1
    <3> QED BY <1>3, <3>1, <3>2 DEF Becomes, Lawful, Says
  <2>2. CASE NextEntry(e) # {}
    <3>1. PICK n \in NextEntry(e) : \E x \in Tried(onto(n)) : r = [x EXCEPT !.says = @ \cup {"advanced"}]
      BY <2>2
    <3>2. onto(n) \in Renderers /\ FromALoad(onto(n))
      BY <1>3, <1>4 DEF Renderers, FromALoad
    <3> HIDE DEF onto
    <3>6. PICK x \in Tried(onto(n)) : r = [x EXCEPT !.says = @ \cup {"advanced"}]
      BY <3>1
    <3>3. Lawful(x, {"playing", "paused"})
      BY <3>2, <3>6, TriedFits
    <3>4. PICK f, w : x = Becomes(f, w)
      BY <3>6 DEF Tried
    <3>5. r.el = x.el /\ r.says = x.says \cup {"advanced"}
      BY <3>4, <3>6 DEF Becomes
    <3> QED BY <3>3, <3>5 DEF Lawful, Says
  <2> QED BY <2>1, <2>2
<1>6. /\ UNCHANGED <<queue, out, grace, edits, answers>> /\ chans' \in [Channel -> ChannelType]
      /\ faults' \in 0..MaxFaults
  BY KindsAre DEF Ended, Alone, edge
<1> HIDE DEF outcomes
<1> QED BY <1>2, <1>5, <1>6, TurnsFit

LEMMA EventFits ==
    ASSUME BrowserAssumption, BrowserTyped, NEW p \in posts, Event(p)
    PROVE  BrowserTyped'
<1> DEFINE adopted == IF Adopts(p) THEN [out EXCEPT !.epoch = p.epoch] ELSE out
           o == Resynced(adopted, p)
<1>1. p \in Posted /\ Answerable(p) /\ out \in Outputs /\ QueueOK(queue)
      /\ answers \subseteq [tab : Tab, d : Directives]
  BY KindsAre DEF BrowserTyped
<1>2. p.tab \in Tab /\ p.slot \in Place \cup {None} /\ p.epoch \in Epoch \cup {None} /\ p.event \in Says
  BY <1>1 DEF Posted
<1>3. adopted \in Outputs /\ (Counts(p) /\ p.epoch # None => adopted.epoch = p.epoch)
  BY <1>1, <1>2 DEF Outputs, Adopts, Counts
<1> HIDE DEF adopted
<1>4. o \in Outputs /\ o.epoch = adopted.epoch
  <2>1. CASE p.slot \in {None, adopted.index}
    BY <1>3, <2>1 DEF Resynced
  <2>2. CASE p.slot \notin {None, adopted.index}
    <3>1. o = [adopted EXCEPT !.index = p.slot,
                     !.ident = IF p.slot \in 1..Len(queue) THEN Ident(queue[p.slot]) ELSE None]
      BY <2>2 DEF Resynced, Follows
    <3>2. p.slot \in Place
          /\ (IF p.slot \in 1..Len(queue) THEN Ident(queue[p.slot]) ELSE None) \in Media \cup {None}
      BY <1>1, <1>2, <2>2, QueueFits
    <3> HIDE DEF o
    <3> QED BY <1>3, <3>1, <3>2 DEF Outputs
  <2> QED BY <2>1, <2>2
<1> SUFFICES out' \in Outputs /\ answers' \subseteq [tab : Tab, d : Directives]
  <2>1. UNCHANGED <<queue, grace, edits, faults, chans, el>> /\ posts' = posts \ {p}
    BY DEF Event, edge
  <2>2. IsFiniteSet(posts')
    BY <2>1, FS_Subset DEF BrowserTyped
  <2> HIDE DEF o
  <2>3. (out' \in Outputs /\ answers' \subseteq [tab : Tab, d : Directives]) => BrowserTypeOK'
    BY <2>1, KindsAre DEF QueueOK, BrowserTypeOK
  <2> QED BY <2>1, <2>2, <2>3 DEF BrowserTyped, Answerable
<1>5. CASE Counts(p) /\ p.event = "ended"
  <2>1. Advance(o, p.tab)
    BY <1>5 DEF Event, OnClientEvent, adopted
  <2> HIDE DEF o
  <2>2. o.epoch + 1 \in Epoch
    <3>1. o.epoch = p.epoch /\ p.epoch \in Epoch /\ p.epoch < MaxEpoch
      BY <1>1, <1>2, <1>3, <1>4, <1>5 DEF Answerable
    <3> QED BY <3>1 DEF Epoch, BrowserAssumption
  <2>3. CASE HasNext(o)
    <3> DEFINE i == o.index + 1
    <3>1. i \in 1..Len(queue) /\ i \in Place /\ Ident(queue[i]) \in Media \cup {None}
      <4>1. o.index \in Nat
        BY <1>4, Places DEF Outputs
      <4>2. i \in 1..Len(queue)
        BY <1>1, <2>3, <4>1, QueueFits DEF HasNext
      <4> QED BY <1>1, <4>2, QueueFits
    <3>2. out' = [o EXCEPT !.index = i, !.ident = Ident(queue[i]), !.epoch = @ + 1,
                           !.state = "playing"]
          /\ answers' = answers \cup {[tab |-> p.tab, d |-> Load(queue, i, TRUE, o.epoch + 1)]}
      BY <2>1, <2>3 DEF Advance
    <3> HIDE DEF i
    <3>3. Load(queue, i, TRUE, o.epoch + 1) \in Directives
      BY <1>1, <2>2, <3>1, LoadFits
    <3>4. out' \in Outputs
      BY <1>4, <2>2, <3>1, <3>2 DEF Outputs
    <3>5. [tab |-> p.tab, d |-> Load(queue, i, TRUE, o.epoch + 1)] \in [tab : Tab, d : Directives]
      BY <1>2, <3>3
    <3>6. answers' \subseteq [tab : Tab, d : Directives]
      BY <1>1, <3>2, <3>5
    <3> QED BY <3>4, <3>6
  <2>4. CASE ~HasNext(o)
    <3>1. out' = [o EXCEPT !.state = "stopped"] /\ answers' = answers
      BY <2>1, <2>4 DEF Advance
    <3> QED BY <1>1, <1>4, <3>1 DEF Outputs
  <2> QED BY <2>3, <2>4
<1>6. CASE Counts(p) /\ p.event # "ended"
  <2>1. \E s \in {"paused", "stopped", "playing"} : out' = [o EXCEPT !.state = s]
    BY <1>6 DEF Event, OnClientEvent, adopted
  <2>2. answers' \in {answers, answers \cup {[tab |-> p.tab, d |-> TailOf(queue, o.index)]}}
    BY <1>6 DEF Event, OnClientEvent, adopted
  <2> HIDE DEF o
  <2>3. TailOf(queue, o.index) \in Directives
    <3>1. o.index \in Place \cup {0}
      BY <1>4 DEF Outputs
    <3> QED BY <1>1, <3>1, TailOfFits
  <2>4. out' \in Outputs
    BY <1>4, <2>1 DEF Outputs
  <2> QED BY <1>1, <1>2, <2>2, <2>3, <2>4
<1>7. CASE ~Counts(p)
  BY <1>1, <1>7 DEF Event
<1> QED BY <1>5, <1>6, <1>7

LEMMA LostFits ==
    ASSUME BrowserAssumption, BrowserTyped, Lost
    PROVE  BrowserTyped'
<1>1. /\ posts' \subseteq posts /\ answers' \subseteq answers
      /\ UNCHANGED <<queue, out, grace, edits, chans, el>>
  BY DEF Lost
<1>2. IsFiniteSet(posts')
  BY <1>1, FS_Subset DEF BrowserTyped
<1>3. faults' \in 0..MaxFaults
  BY FaultsFit DEF Lost
<1>4. BrowserTypeOK'
  BY <1>1, <1>3, KindsAre DEF QueueOK, BrowserTypeOK
<1> QED BY <1>1, <1>2, <1>4 DEF BrowserTyped, Answerable

LEMMA RestartFits ==
    ASSUME BrowserAssumption, BrowserTyped, Restart
    PROVE  BrowserTyped'
<1>1. /\ out' = NewOutput /\ grace' = FALSE /\ chans' = [c \in Channel |-> NoChannel]
      /\ posts' = {} /\ answers' = {} /\ UNCHANGED <<queue, el, edits>>
  BY DEF Restart
<1>2. NewOutput \in Outputs /\ NoChannel \in ChannelType
  BY EmptySeq DEF NewOutput, NoChannel, Outputs, ChannelType, Epoch, BrowserAssumption
<1>3. faults' \in 0..MaxFaults
  BY FaultsFit DEF Restart
<1>4. chans' \in [Channel -> ChannelType]
  BY <1>1, <1>2
<1>5. BrowserTypeOK'
  BY <1>1, <1>2, <1>3, <1>4, KindsAre DEF QueueOK, BrowserTypeOK
<1> QED BY <1>1, <1>5, FS_EmptySet DEF BrowserTyped

LEMMA StartsTyped ==
    ASSUME BrowserAssumption, BrowserInit
    PROVE  BrowserTyped
<1>1. QueueOK(queue)
  <2> DEFINE m == SetToSeq(Media)
  <2>1. m \in [1..Cardinality(Media) -> Media] /\ \A i, j \in 1..Cardinality(Media) : m[i] = m[j] => i = j
    <3>1. \E f \in [1..Cardinality(Media) -> Media] : IsInjective(f)
      <4>1. ExistsBijection(1..Cardinality(Media), Media)
        BY FS_CardinalityType DEF BrowserAssumption
      <4> QED BY <4>1 DEF ExistsBijection, Bijection, Injection, IsInjective
    <3>2. m \in [1..Cardinality(Media) -> Media] /\ IsInjective(m)
      BY <3>1 DEF SetToSeq
    <3> QED BY <3>2 DEF IsInjective
  <2>2. Cardinality(Media) \in Nat
    BY Places
  <2> HIDE DEF m
  <2>3. m \in Seq(Media) /\ Len(m) = Cardinality(Media)
    BY <2>1, <2>2
  <2>4. PICK ways \in [Media -> {"open", "pending", "closed"}] :
               queue = [i \in 1..Len(m) |-> [media |-> m[i], way |-> ways[m[i]]]]
    BY DEF BrowserInit, m
  <2>5. queue \in [1..Len(m) -> Item]
    BY <2>1, <2>3, <2>4 DEF Item
  <2>6. queue \in Seq(Item) /\ Len(queue) = Len(m)
    BY <2>2, <2>3, <2>5
  <2>7. \A i \in 1..Len(queue) : queue[i].media = m[i]
    BY <2>4, <2>6
  <2> QED BY <2>1, <2>3, <2>6, <2>7 DEF QueueOK
<1>2. NewOutput \in Outputs /\ NoChannel \in ChannelType /\ NoRenderer \in Renderers
      /\ FromALoad(NoRenderer)
  BY EmptySeq DEF NewOutput, NoChannel, NoRenderer, Outputs, ChannelType, Renderers, FromALoad,
                  Entries, Epoch, BrowserAssumption
<1>3. /\ out = NewOutput /\ grace = FALSE /\ chans = [c \in Channel |-> NoChannel]
      /\ el = [t \in Tab |-> NoRenderer] /\ posts = {} /\ answers = {}
      /\ edits \in 0..MaxEdits /\ faults \in 0..MaxFaults
  BY DEF BrowserInit
<1>4. /\ chans \in [Channel -> ChannelType] /\ el \in [Tab -> Renderers]
      /\ \A t \in Tab : FromALoad(el[t])
  BY <1>2, <1>3
<1>5. BrowserTypeOK
  BY <1>1, <1>2, <1>3, <1>4 DEF QueueOK, BrowserTypeOK
<1> QED BY <1>3, <1>4, <1>5, FS_EmptySet DEF BrowserTyped

LEMMA StepTyped ==
    ASSUME BrowserAssumption, BrowserTyped, BrowserNext
    PROVE  BrowserTyped'
<1>1. CASE Person
  <2>1. CASE Stop
    BY <2>1, KindsAre, StoppedByFits, PersonFits DEF Stop
  <2>2. ASSUME NEW i \in 1..Len(queue), Jump(i) PROVE BrowserTyped'
    <3>1. Pressed /\ CanLoad /\ Done(StartAt(out, queue, i, TRUE))
      BY <2>2 DEF Jump
    <3>2. Fits(StartAt(out, queue, i, TRUE))
      BY <3>1, KindsAre, LoadsAreNumbered, StartAtFits
    <3> QED BY <3>1, <3>2, PersonFits
  <2> QED BY <1>1, <2>1, <2>2, PlayFits, PauseFits, TakeOutFits, AddFits, ReplaceFits, PagesFit, TapFits
          DEF Person
<1>2. CASE Streams
  BY <1>2, LandFits, ReadFits, EndFits, DropFits, ConnectFits, GraceFits, RestartFits, LostFits DEF Streams
<1>3. CASE Renders
  BY <1>3, EndedFits, ElementFits DEF Renders
<1>4. CASE Events
  BY <1>4, EventFits DEF Events
<1>5. CASE Answering
  BY <1>5, AnsweredFits DEF Answering
<1> QED BY <1>1, <1>2, <1>3, <1>4, <1>5 DEF BrowserNext

LEMMA RestTyped ==
    ASSUME BrowserTyped, UNCHANGED browserVars
    PROVE  BrowserTyped'
BY DEF browserVars, BrowserTyped, BrowserTypeOK, Answerable

\* Every variable holds a value of its kind, whatever the streams, the tabs and the
\* events do: a slot is one the queue may have, and a load's epoch never runs out,
\* since a track that ends asks for one only while there is one left.
THEOREM BrowserTypeCorrect ==
    ASSUME BrowserAssumption
    PROVE  BrowserInit /\ [][BrowserNext]_browserVars => []BrowserTypeOK
<1>1. BrowserInit => BrowserTyped
  BY StartsTyped
<1>2. BrowserTyped /\ [BrowserNext]_browserVars => BrowserTyped'
  BY StepTyped, RestTyped
<1>3. BrowserTyped => BrowserTypeOK
  BY DEF BrowserTyped
<1> QED BY <1>1, <1>2, <1>3, PTL
=============================================================================
