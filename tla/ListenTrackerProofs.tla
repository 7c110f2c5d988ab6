------------------------ MODULE ListenTrackerProofs ------------------------
(***************************************************************************)
(* What holds of play tracking for any tracks, plays and listens, with one *)
(* thread that delivers ticks.                                             *)
(*                                                                         *)
(* The inductive invariant follows a tick through its steps: what the      *)
(* thread has read of the listen and of the output is still so when it     *)
(* writes, although the output goes on meanwhile.                          *)
(***************************************************************************)
EXTENDS ListenTracker, TLAPS, SequenceTheorems

\* The outputs deliver their ticks one after the other. With two threads at it
\* NoListenTwice fails (listens_two_threads.cfg).
OneThread == \A s, t \in Speaker : s = t

-----------------------------------------------------------------------------
\* The play in progress can still be heard.
Alive == ~Now({"stopped", "external"})

\* A listen of no row yet, nor of one the database refused.
Fresh(i) == rows[i] = 0 /\ i \notin lost

\* The open listen is of the play in progress.
OfThisPlay == session # 0 /\ listens[session].play = play

WorldSound == Alive => play \in 1..MaxPlays /\ player.track \in Track

\* What is known of each listen. One whose row is not written is scrobbled for
\* its half alone, which it keeps however it goes on.
ListensSound ==
    \A i \in DOMAIN listens :
        /\ listens[i].track \notin Excerpt /\ listens[i].play <= play
        /\ sent[i] = (IF listens[i].scrobbled THEN 1 ELSE 0)
        /\ listens[i].scrobbled => Completed(listens[i]) /\ (Fresh(i) => ScrobbleReady(listens[i]))

\* As long as it can be heard, a play that has its listen has it open; it
\* plays the listen's track, and stands no earlier than the listen has heard.
OpenIfHeard == Alive /\ (\E i \in DOMAIN listens : listens[i].play = play) /\ play \notin cut => OfThisPlay
SameTrack   == Alive /\ OfThisPlay => player.track = listens[session].track
NoLater     == Alive /\ OfThisPlay /\ ~owes => listens[session].reached <= player.pos
Carries     == Now({"attaching", "holding"}) /\ OfThisPlay => carried

\* A listen that is over: the thread writes its row, then drops it or opens
\* the next in its place.
Saving(s)  == pc[s] \in {"ending", "changing"}
Bearing(s) == pc[s] \in {"changing", "opening", "counting"}

RowsOf(s) ==
    /\ Saving(s) => held[s] = session /\ session # 0 /\ Fresh(session)
    /\ pc[s] = "dropping" => session # 0 /\ ~Fresh(session)
    /\ pc[s] = "opening" => session = 0 \/ ~Fresh(session)
    /\ pc[s] = "counting" => session # 0 /\ Fresh(session)
    /\ pc[s] = "idle" => session = 0 \/ Fresh(session)

\* A listen that ends is not of a play that can still be heard.
EndsWell(s) ==
    pc[s] \in {"ending", "dropping"} /\ OfThisPlay /\ play \notin cut => ~Alive

\* The tick that opens a listen, or goes into one, is of a play no listen is
\* later than; one that opens a listen is of a play that has none.
BearsWell(s) ==
    Bearing(s) =>
        /\ tick[s].track \in Track \ Excerpt /\ tick[s].play \in 1..play
        /\ ~Now({"attaching", "holding"})
        /\ \A i \in DOMAIN listens : listens[i].play <= tick[s].play
        /\ Alive /\ tick[s].play = play => player.track = tick[s].track
        /\ Alive /\ tick[s].play = play /\ ~owes => tick[s].pos <= player.pos
        /\ pc[s] # "counting" =>
             \A i \in DOMAIN listens : listens[i].play \in {play, tick[s].play} => listens[i].play \in cut

TrackerSound ==
    /\ TypeOK /\ WorldSound /\ ListensSound
    /\ OpenIfHeard /\ SameTrack /\ NoLater /\ Carries
    /\ OneRowPerListen /\ OneListenPerPlay
    /\ \A s \in Speaker : RowsOf(s) /\ EndsWell(s) /\ BearsWell(s)

-----------------------------------------------------------------------------
ListenType ==
    [track : Track, play : 1..MaxPlays, max : Position, reached : Position, scrobbled : BOOLEAN]

PlayerType ==
    [state : {"playing", "paused", "loading", "stopped", "attaching", "holding", "external"},
     track : Track \cup {None}, pos : Position]

LEMMA Typed ==
    ASSUME TypeOK
    PROVE  /\ player \in PlayerType /\ play \in Nat /\ play <= MaxPlays /\ MaxPlays \in Nat
           /\ listens \in Seq(ListenType) /\ Len(listens) \in Nat /\ DOMAIN listens = 1..Len(listens)
           /\ \A i \in DOMAIN listens : listens[i] \in ListenType
           /\ session \in 0..Len(listens) /\ (session # 0 => session \in DOMAIN listens)
           /\ rows \in [1..Len(listens) -> Nat] /\ sent \in [1..Len(listens) -> Nat]
           /\ Position = 0..3
<1>1. Position = 0..3
  BY DEF Position, Top, Half
<1>2. listens \in Seq(ListenType) /\ session \in 0..Len(listens)
  BY DEF TypeOK, ListenType
<1>3. Len(listens) \in Nat /\ DOMAIN listens = 1..Len(listens) /\ \A i \in DOMAIN listens : listens[i] \in ListenType
  BY <1>2
<1>4. session # 0 => session \in DOMAIN listens
  BY <1>2, <1>3
<1>5. player \in PlayerType /\ play \in Nat /\ play <= MaxPlays /\ MaxPlays \in Nat
  BY TrackerAssumption DEF TypeOK, PlayerType
<1> QED BY <1>1, <1>2, <1>3, <1>4, <1>5 DEF TypeOK

\* What a tick says of the output.
LEMMA SaidIs ==
    ASSUME TypeOK, NEW t \in Said
    PROVE  /\ t \in TickType
           /\ t.play = play /\ t.pos = player.pos /\ t.corrected = owes
           /\ t.external <=> Now({"external"})
           /\ t.holds <=> Now({"holding"})
           /\ t.track \in {None, player.track}
           /\ Now({"attaching", "external"}) => t.track = None
           /\ t.state = "playing" => Now({"playing", "external"})
           /\ t.state = "loading" => Now({"loading"})
           /\ t.state = "paused" => Now({"paused"})
           /\ t.state = "stopped" => Now({"attaching", "holding", "stopped"})
<1>1. player \in PlayerType /\ play \in 0..MaxPlays /\ owes \in BOOLEAN
  BY Typed DEF TypeOK
<1> DEFINE says == CASE Now({"attaching", "holding", "stopped"}) -> "stopped"
                     [] Now({"external"})                        -> "playing"
                     [] OTHER                                    -> player.state
<1>2. /\ t = [state |-> t.state, track |-> t.track, pos |-> t.pos, corrected |-> t.corrected,
              play |-> t.play, external |-> t.external, holds |-> t.holds]
      /\ t.state = says /\ t.pos = player.pos /\ t.corrected = owes /\ t.play = play
      /\ t.external = Now({"external"}) /\ t.holds = Now({"holding"})
      /\ t.track \in (IF Now({"attaching", "external"}) THEN {None} ELSE {None, player.track})
  BY DEF Said
<1>3. /\ player.state \in {"playing", "paused", "loading", "stopped", "attaching", "holding", "external"}
      /\ player.track \in Track \cup {None} /\ player.pos \in Position
  BY <1>1 DEF PlayerType
<1>4. /\ says \in {"playing", "paused", "loading", "stopped"}
      /\ says = "playing" => Now({"playing", "external"})
      /\ says = "loading" => Now({"loading"})
      /\ says = "paused" => Now({"paused"})
      /\ says = "stopped" => Now({"attaching", "holding", "stopped"})
  BY <1>3 DEF Now
<1> HIDE DEF says
<1>5. t.track \in {None, player.track} /\ t.track \in Track \cup {None}
      /\ (Now({"attaching", "external"}) => t.track = None)
  BY <1>2, <1>3
<1>6. t.external \in BOOLEAN /\ t.holds \in BOOLEAN
  BY <1>2 DEF Now
<1>7. t \in TickType
  BY <1>1, <1>2, <1>3, <1>4, <1>5, <1>6 DEF TickType
<1> QED BY <1>2, <1>4, <1>5, <1>7

\* The clock the output set changes no more than how far the listen has heard.
LEMMA CorrectedIs ==
    ASSUME TypeOK, NEW t \in TickType
    PROVE  /\ Corrected(t) \in Seq(ListenType) /\ Len(Corrected(t)) = Len(listens)
           /\ DOMAIN Corrected(t) = DOMAIN listens
           /\ \A i \in DOMAIN listens :
                /\ Corrected(t)[i].track = listens[i].track /\ Corrected(t)[i].play = listens[i].play
                /\ Corrected(t)[i].max = listens[i].max /\ Corrected(t)[i].scrobbled = listens[i].scrobbled
           /\ session # 0 => Corrected(t)[session].reached =
                IF t.corrected /\ t.track \in {None, listens[session].track}
                THEN t.pos ELSE listens[session].reached
<1>1. /\ listens \in Seq(ListenType) /\ Len(listens) \in Nat /\ DOMAIN listens = 1..Len(listens)
      /\ \A i \in DOMAIN listens : listens[i] \in ListenType
      /\ session # 0 => session \in DOMAIN listens
  BY Typed
<1>2. t.pos \in Position
  BY DEF TickType
<1>3. CASE t.corrected /\ session # 0 /\ t.track \in {None, listens[session].track}
  <2> DEFINE l == [listens[session] EXCEPT !.reached = t.pos]
  <2>1. /\ l \in ListenType /\ l.track = listens[session].track /\ l.play = listens[session].play
        /\ l.max = listens[session].max /\ l.scrobbled = listens[session].scrobbled /\ l.reached = t.pos
    BY <1>1, <1>2, <1>3 DEF ListenType
  <2>2. Corrected(t) = [listens EXCEPT ![session] = l]
    BY <1>3 DEF Corrected
  <2> HIDE DEF l
  <2>3. /\ Corrected(t) \in Seq(ListenType) /\ Len(Corrected(t)) = Len(listens)
        /\ \A i \in DOMAIN listens : Corrected(t)[i] = IF i = session THEN l ELSE listens[i]
    BY <1>1, <1>3, <2>1, <2>2, ExceptSeq
  <2>4. DOMAIN Corrected(t) = DOMAIN listens
    BY <1>1, <2>3
  <2> QED BY <1>1, <1>3, <2>1, <2>3, <2>4
<1>4. CASE ~(t.corrected /\ session # 0 /\ t.track \in {None, listens[session].track})
  <2>1. Corrected(t) = listens
    BY <1>4 DEF Corrected
  <2> QED BY <1>1, <1>4, <2>1
<1> QED BY <1>3, <1>4

\* A listen takes a tick: it never counts less, nor past the half.
LEMMA AdvanceIs ==
    ASSUME NEW l \in ListenType, NEW t \in TickType
    PROVE  /\ Advance(l, t) \in ListenType
           /\ Advance(l, t).track = l.track /\ Advance(l, t).play = l.play
           /\ Advance(l, t).scrobbled = l.scrobbled
           /\ l.max = Half => Advance(l, t).max = Half
           /\ Advance(l, t).reached \in {l.reached, t.pos}
<1>1. /\ l.max \in 0..3 /\ l.reached \in 0..3 /\ t.pos \in 0..3 /\ Half = 3 /\ Position = 0..3
  BY DEF ListenType, TickType, Position, Top, Half
<1> DEFINE max == IF t.pos > l.max THEN t.pos ELSE l.max
           reached == IF t.pos > l.reached THEN t.pos ELSE l.reached
<1>2. Advance(l, t) = [l EXCEPT !.max = max, !.reached = reached]
  BY <1>1 DEF Advance, ListenType
<1>3. max \in 0..3 /\ reached \in 0..3 /\ reached \in {l.reached, t.pos} /\ (l.max = 3 => max = 3)
  BY <1>1
<1> HIDE DEF max, reached
<1> QED BY <1>1, <1>2, <1>3 DEF ListenType

-----------------------------------------------------------------------------
(* The outputs go on, whatever the thread is at.                           *)

LEMMA WorldTyped ==
    ASSUME TrackerSound, World
    PROVE  TypeOK'
<1>1. TypeOK /\ player \in PlayerType /\ play \in Nat /\ play <= MaxPlays /\ MaxPlays \in Nat /\ Position = 0..3
  BY Typed DEF TrackerSound
<1>2. player' \in PlayerType /\ play' \in 0..MaxPlays /\ owes' \in BOOLEAN
  <2>1. ASSUME NEW t \in Track, Begin(t) PROVE player' \in PlayerType /\ play' \in 0..MaxPlays /\ owes' \in BOOLEAN
    <3>1. PICK state \in {"loading", "playing"} : player' = [state |-> state, track |-> t, pos |-> 0]
      BY <2>1 DEF Begin, Does, Top
    <3>2. player' \in PlayerType
      BY <1>1, <3>1 DEF PlayerType
    <3>3. play' \in 0..MaxPlays
      BY <1>1, <2>1 DEF Begin
    <3> QED BY <2>1, <3>2, <3>3 DEF Begin
  <2>2. CASE RunOn
    <3>1. player.pos + 1 \in Position
      BY <1>1, <2>2 DEF RunOn, Ends, PlayerType, Half, Early
    <3> QED BY <1>1, <2>2, <3>1 DEF RunOn, PlayerType, TypeOK
  <2>3. CASE Turn
    BY <1>1, <2>3 DEF Turn, PlayerType, TypeOK
  <2>4. CASE Correct
    <3>1. PICK p \in Top..(player.pos - 1) : player' = [player EXCEPT !.pos = p]
      BY <2>4 DEF Correct
    <3>2. p \in Position
      BY <1>1, <3>1 DEF PlayerType, Top
    <3> QED BY <1>1, <2>4, <3>1, <3>2 DEF Correct, PlayerType
  <2>5. CASE Stop
    <3>1. player' = [player EXCEPT !.state = "stopped", !.pos = 0]
      BY <2>5 DEF Stop, Top
    <3>2. player' \in PlayerType
      <4>1. [player EXCEPT !.state = "stopped"] \in PlayerType /\ 0 \in Position
        BY <1>1 DEF PlayerType
      <4>2. player' = [[player EXCEPT !.state = "stopped"] EXCEPT !.pos = 0]
        BY <1>1, <3>1 DEF PlayerType
      <4> QED BY <4>1, <4>2 DEF PlayerType
    <3>3. play' \in 0..MaxPlays
      BY <1>1, <2>5 DEF Stop
    <3> QED BY <2>5, <3>2, <3>3 DEF Stop
  <2>6. CASE Foreign
    <3>1. player' = [state |-> "external", track |-> None, pos |-> 0]
      BY <2>6 DEF Foreign, Does, Top
    <3>2. player' \in PlayerType
      BY <1>1, <3>1 DEF PlayerType
    <3>3. play' \in 0..MaxPlays
      BY <1>1, <2>6 DEF Foreign
    <3> QED BY <2>6, <3>2, <3>3 DEF Foreign
  <2> QED BY <2>1, <2>2, <2>3, <2>4, <2>5, <2>6 DEF World
<1> QED BY <1>1, <1>2 DEF World, TypeOK, PlayerType, tracker, reports, threads

\* The play goes on, or it is over.
LEMMA SamePlay ==
    ASSUME TrackerSound, World, play' = play
    PROVE  /\ Alive' => Alive /\ player'.track = player.track
           /\ Alive' /\ ~owes' => ~owes /\ player.pos <= player'.pos
           /\ Now({"attaching", "holding"})' => Now({"attaching", "holding"})
<1>1. player \in PlayerType /\ play \in Nat /\ Position = 0..3
  BY Typed DEF TrackerSound
<1>2. ~\E t \in Track : Begin(t)
  BY <1>1 DEF Begin
<1>3. player.pos \in 0..3
  BY <1>1 DEF PlayerType
<1>4. CASE RunOn
  BY <1>1, <1>3, <1>4 DEF RunOn, Alive, Now, PlayerType
<1>5. CASE Turn
  BY <1>1, <1>3, <1>5 DEF Turn, Alive, Now, PlayerType
<1>6. CASE Correct
  BY <1>1, <1>3, <1>6 DEF Correct, Alive, Now, PlayerType
<1>7. CASE Stop \/ Foreign
  <2>1. player'.state \in {"stopped", "external"}
    <3>1. CASE Stop
      BY <1>1, <3>1 DEF Stop, PlayerType
    <3>2. CASE Foreign
      BY <3>2 DEF Foreign, Does
    <3> QED BY <1>7, <3>1, <3>2
  <2> QED BY <2>1 DEF Alive, Now
<1> QED BY <1>2, <1>4, <1>5, <1>6, <1>7 DEF World

LEMMA NewPlay ==
    ASSUME TrackerSound, World, play' # play
    PROVE  /\ play' = play + 1 /\ play' <= MaxPlays
           /\ player'.track \in Track /\ ~Now({"attaching", "holding"})'
<1>1. PICK t \in Track : Begin(t)
  BY DEF World, RunOn, Turn, Correct, Stop, Foreign
<1>2. PICK state \in {"loading", "playing"} : player' = [state |-> state, track |-> t, pos |-> Top]
  BY <1>1 DEF Begin, Does
<1>3. play' = play + 1 /\ play < MaxPlays /\ play \in Nat /\ MaxPlays \in Nat
  BY <1>1, Typed DEF Begin, TrackerSound
<1> QED BY <1>2, <1>3 DEF Now

LEMMA WorldKeeps ==
    ASSUME TrackerSound, World
    PROVE  TrackerSound'
<1>1. TypeOK' /\ TypeOK
  BY WorldTyped DEF TrackerSound
<1>2. /\ play \in Nat /\ MaxPlays \in Nat /\ DOMAIN listens = 1..Len(listens)
      /\ \A i \in DOMAIN listens : listens[i].play \in 1..MaxPlays /\ listens[i].play <= play
      /\ session # 0 => session \in DOMAIN listens
      /\ \A s \in Speaker : tick[s].play \in 0..MaxPlays /\ tick[s].pos \in 0..3
      /\ \A i \in DOMAIN listens : listens[i].reached \in 0..3
      /\ player.pos \in 0..3 /\ player'.pos \in 0..3
  <2>1. \A i \in DOMAIN listens : listens[i].play <= play
    BY DEF TrackerSound, ListensSound
  <2>2. \A s \in Speaker : tick[s].play \in 0..MaxPlays /\ tick[s].pos \in 0..3
    BY <1>1 DEF TypeOK, TickType, Position, Top, Half
  <2>3. player'.pos \in 0..3
    BY <1>1 DEF TypeOK, Position, Top, Half
  <2> QED BY <1>1, <2>1, <2>2, <2>3, Typed DEF ListenType, PlayerType
<1>3. UNCHANGED <<session, carried, listens, cut, rows, sent, lost, pc, tick, held>>
  BY DEF World, tracker, reports, threads
<1>4. OneRowPerListen' /\ OneListenPerPlay' /\ \A s \in Speaker : RowsOf(s)'
  <2>1. OneRowPerListen /\ OneListenPerPlay /\ \A s \in Speaker : RowsOf(s)
    BY DEF TrackerSound
  <2> QED BY <1>3, <2>1 DEF OneRowPerListen, NoListenTwice, OneListenPerPlay, RowsOf, Saving, Fresh
<1>5. play <= play' /\ play' \in Nat
  BY <1>2, NewPlay
<1>6. ListensSound'
  <2>1. ListensSound
    BY DEF TrackerSound
  <2> QED BY <1>2, <1>3, <1>5, <2>1 DEF ListensSound, Fresh
<1>7. CASE play' = play
  <2>1. OfThisPlay' <=> OfThisPlay
    BY <1>3, <1>7 DEF OfThisPlay
  <2>2. /\ Alive' => Alive /\ player'.track = player.track
        /\ Alive' /\ ~owes' => ~owes /\ player.pos <= player'.pos
        /\ Now({"attaching", "holding"})' => Now({"attaching", "holding"})
    BY <1>7, SamePlay
  <2>3. WorldSound' /\ OpenIfHeard' /\ SameTrack' /\ Carries'
    BY <1>3, <1>7, <2>1, <2>2 DEF TrackerSound, WorldSound, OpenIfHeard, SameTrack, Carries
  <2>4. NoLater'
    BY <1>2, <1>3, <2>1, <2>2 DEF TrackerSound, NoLater, OfThisPlay
  <2>5. \A s \in Speaker : EndsWell(s)'
    BY <1>3, <1>7, <2>1, <2>2 DEF TrackerSound, EndsWell
  <2>6. ASSUME NEW s \in Speaker PROVE BearsWell(s)'
    <3>1. BearsWell(s)
      BY DEF TrackerSound
    <3> QED BY <1>2, <1>3, <1>7, <2>2, <3>1 DEF BearsWell, Bearing
  <2> QED BY <1>1, <1>4, <1>6, <2>3, <2>4, <2>5, <2>6 DEF TrackerSound
<1>8. CASE play' # play
  <2>1. /\ play' = play + 1 /\ play' <= MaxPlays
        /\ player'.track \in Track /\ ~Now({"attaching", "holding"})'
    BY <1>8, NewPlay
  <2>2. ~OfThisPlay' /\ \A i \in DOMAIN listens' : listens'[i].play # play'
    BY <1>2, <1>3, <2>1 DEF OfThisPlay
  <2>3. WorldSound' /\ OpenIfHeard' /\ SameTrack' /\ NoLater' /\ Carries' /\ \A s \in Speaker : EndsWell(s)'
    BY <1>2, <2>1, <2>2 DEF WorldSound, OpenIfHeard, SameTrack, NoLater, Carries, EndsWell
  <2>4. ASSUME NEW s \in Speaker PROVE BearsWell(s)'
    <3>1. BearsWell(s)
      BY DEF TrackerSound
    <3> QED BY <1>2, <1>3, <2>1, <2>2, <3>1 DEF BearsWell, Bearing
  <2> QED BY <1>1, <1>4, <1>6, <2>3, <2>4 DEF TrackerSound
<1> QED BY <1>7, <1>8

-----------------------------------------------------------------------------
(* A tick.                                                                 *)

\* The listens keep what they are of, and only the open one counts on.
LEMMA ListensKept ==
    ASSUME TrackerSound, UNCHANGED <<player, play, session, rows, lost>>, cut \subseteq cut',
           DOMAIN listens' = DOMAIN listens,
           \A i \in DOMAIN listens : listens'[i].track = listens[i].track /\ listens'[i].play = listens[i].play,
           \A i \in DOMAIN listens :
             \/ /\ listens'[i].scrobbled = listens[i].scrobbled /\ sent'[i] = sent[i]
                /\ \/ listens'[i].max = listens[i].max
                   \/ Fresh(i) /\ (listens[i].max = Half => listens'[i].max = Half)
             \/ sent'[i] = 1 /\ listens'[i].scrobbled = TRUE /\ listens'[i].max = Half
    PROVE  /\ ListensSound' /\ OneRowPerListen' /\ OneListenPerPlay' /\ WorldSound'
           /\ OpenIfHeard' /\ SameTrack' /\ (OfThisPlay' <=> OfThisPlay)
<1>1. session # 0 => session \in DOMAIN listens
  BY Typed DEF TrackerSound
<1>2. \A i \in DOMAIN listens : Fresh(i)' <=> Fresh(i)
  BY DEF Fresh
<1>3. ListensSound'
  <2>1. \A i \in DOMAIN listens :
          /\ listens[i].track \notin Excerpt /\ listens[i].play <= play
          /\ sent[i] = (IF listens[i].scrobbled THEN 1 ELSE 0)
          /\ listens[i].scrobbled => Completed(listens[i]) /\ (Fresh(i) => listens[i].max = Half)
    BY DEF TrackerSound, ListensSound, ScrobbleReady
  <2> SUFFICES ASSUME NEW i \in DOMAIN listens
               PROVE  /\ listens'[i].track \notin Excerpt /\ listens'[i].play <= play'
                      /\ sent'[i] = (IF listens'[i].scrobbled THEN 1 ELSE 0)
                      /\ listens'[i].scrobbled =>
                            Completed(listens'[i]) /\ (Fresh(i)' => ScrobbleReady(listens'[i]))
    BY DEF ListensSound
  <2>2. CASE listens'[i].scrobbled = listens[i].scrobbled /\ sent'[i] = sent[i] /\ listens'[i].max = listens[i].max
    BY <1>2, <2>1, <2>2 DEF Completed, ScrobbleReady
  <2>3. CASE listens'[i].scrobbled = listens[i].scrobbled /\ sent'[i] = sent[i]
             /\ Fresh(i) /\ (listens[i].max = Half => listens'[i].max = Half)
    BY <1>2, <2>1, <2>3 DEF Completed, ScrobbleReady
  <2>4. CASE sent'[i] = 1 /\ listens'[i].scrobbled = TRUE /\ listens'[i].max = Half
    BY <1>2, <2>1, <2>4 DEF Completed, ScrobbleReady
  <2> QED BY <2>2, <2>3, <2>4
<1>4. OneRowPerListen' /\ OneListenPerPlay'
  BY DEF TrackerSound, OneRowPerListen, NoListenTwice, OneListenPerPlay
<1>5. OfThisPlay' <=> OfThisPlay
  BY <1>1 DEF OfThisPlay
<1>6. (Alive' <=> Alive) /\ WorldSound'
  BY DEF TrackerSound, WorldSound, Alive, Now
<1>7. OpenIfHeard' /\ SameTrack'
  <2>1. OpenIfHeard /\ SameTrack
    BY DEF TrackerSound
  <2> QED BY <1>1, <1>5, <1>6, <2>1 DEF OpenIfHeard, SameTrack, OfThisPlay
<1> QED BY <1>3, <1>4, <1>5, <1>6, <1>7

\* Correcting the clock is of that kind, and the listen has heard no more than
\* is played.
LEMMA Corrects ==
    ASSUME TrackerSound, NEW t \in Said, UNCHANGED <<player, play, session, rows, lost, sent>>,
           cut' \in {cut, cut \cup {play}},
           listens' = Corrected(t) \/ (t.external /\ listens' = listens)
    PROVE  /\ listens' \in Seq(ListenType) /\ Len(listens') = Len(listens) /\ DOMAIN listens' = DOMAIN listens
           /\ \A i \in DOMAIN listens :
                /\ listens'[i].track = listens[i].track /\ listens'[i].play = listens[i].play
                /\ listens'[i].max = listens[i].max /\ listens'[i].scrobbled = listens[i].scrobbled
           /\ Alive /\ OfThisPlay => listens'[session].reached <= player.pos
<1>1. /\ TypeOK /\ t \in TickType /\ listens \in Seq(ListenType) /\ (OfThisPlay => session # 0)
      /\ player.pos \in 0..3
  BY SaidIs, Typed DEF TrackerSound, OfThisPlay, PlayerType
<1>2. CASE t.external /\ listens' = listens
  <2>1. ~Alive
    BY <1>1, <1>2, SaidIs DEF Alive, Now
  <2> QED BY <1>1, <1>2, <2>1
<1>3. CASE listens' = Corrected(t)
  <2>1. ASSUME Alive, OfThisPlay PROVE listens'[session].reached <= player.pos
    <3>1. player.track = listens[session].track
      BY <2>1 DEF TrackerSound, SameTrack
    <3>2. t.track \in {None, listens[session].track} /\ t.corrected = owes /\ t.pos = player.pos /\ owes \in BOOLEAN
      BY <1>1, <3>1, SaidIs DEF TypeOK
    <3>3. CASE owes
      <4>1. t.corrected /\ session # 0
        BY <1>1, <2>1, <3>2, <3>3
      <4>2. Corrected(t)[session].reached = t.pos
        BY <1>1, <3>2, <4>1, CorrectedIs
      <4> QED BY <1>1, <1>3, <3>2, <4>2
    <3>4. CASE ~owes
      BY <1>1, <1>3, <2>1, <3>2, <3>4, CorrectedIs DEF TrackerSound, NoLater
    <3> QED BY <3>2, <3>3, <3>4
  <2> QED BY <1>1, <1>3, <2>1, CorrectedIs
<1> QED BY <1>2, <1>3

\* With one thread it is enough to know where that one goes.
LEMMA OneSteps ==
    ASSUME OneThread, TrackerSound, NEW s \in Speaker, NEW where, NEW t \in TickType, NEW i \in 0..Len(listens'),
           where \in {"idle", "ending", "changing", "dropping", "opening", "counting"},
           Steps(s, where, t, i)
    PROVE  /\ pc' \in [Speaker -> {"idle", "ending", "changing", "dropping", "opening", "counting"}]
           /\ tick' \in [Speaker -> TickType] /\ held' \in [Speaker -> 0..Len(listens')]
           /\ pc'[s] = where /\ tick'[s] = t /\ held'[s] = i
           /\ \A u \in Speaker : u = s
<1>1. /\ pc \in [Speaker -> {"idle", "ending", "changing", "dropping", "opening", "counting"}]
      /\ tick \in [Speaker -> TickType] /\ held \in [Speaker -> 0..Len(listens)]
  BY DEF TrackerSound, TypeOK
<1>2. \A u \in Speaker : u = s
  BY DEF OneThread
<1>3. /\ pc' = [pc EXCEPT ![s] = where] /\ tick' = [tick EXCEPT ![s] = t] /\ held' = [held EXCEPT ![s] = i]
  BY DEF Steps
<1>4. held' \in [Speaker -> 0..Len(listens')]
  BY <1>1, <1>2, <1>3
<1> QED BY <1>1, <1>2, <1>3, <1>4

LEMMA NoTickTyped == NoTick \in TickType
BY TrackerAssumption DEF NoTick, TickType, Position, Top, Half

\* What is left to show of a tick that is heard.
LEMMA Hears ==
    ASSUME OneThread, TrackerSound, NEW s \in Speaker, NEW t \in Said, Hear(s, t), UNCHANGED session,
           cut' \in {cut, cut \cup {play}}, carried' \in BOOLEAN, Carries',
           listens' \in Seq(ListenType), Len(listens') = Len(listens), DOMAIN listens' = DOMAIN listens,
           \A i \in DOMAIN listens :
             /\ listens'[i].track = listens[i].track /\ listens'[i].play = listens[i].play
             /\ listens'[i].scrobbled = listens[i].scrobbled
             /\ \/ listens'[i].max = listens[i].max
                \/ Fresh(i) /\ (listens[i].max = Half => listens'[i].max = Half),
           Alive /\ OfThisPlay => listens'[session].reached <= player.pos,
           NEW where, NEW b \in TickType, NEW h \in 0..Len(listens'),
           where \in {"idle", "ending", "changing", "dropping", "opening", "counting"},
           Steps(s, where, b, h),
           RowsOf(s)', EndsWell(s)', BearsWell(s)'
    PROVE  TrackerSound'
<1>1. UNCHANGED <<player, play, rows, sent, lost>> /\ owes' = FALSE
  BY DEF Hear, reports
<1>2. /\ ListensSound' /\ OneRowPerListen' /\ OneListenPerPlay' /\ WorldSound'
      /\ OpenIfHeard' /\ SameTrack' /\ (OfThisPlay' <=> OfThisPlay)
  BY <1>1, ListensKept
<1>3. NoLater'
  BY <1>1, <1>2 DEF NoLater, Alive, Now
<1>4. TypeOK'
  <2>1. TypeOK
    BY DEF TrackerSound
  <2>2. cut' \subseteq 0..MaxPlays
    BY <2>1 DEF TypeOK
  <2> QED BY <1>1, <2>1, <2>2, OneSteps DEF TypeOK, ListenType
<1>5. \A u \in Speaker : RowsOf(u)' /\ EndsWell(u)' /\ BearsWell(u)'
  BY OneSteps
<1> QED BY <1>2, <1>3, <1>4, <1>5 DEF TrackerSound


\* What the thread finds when it hears a tick.
LEMMA Idle ==
    ASSUME OneThread, TrackerSound, NEW s \in Speaker, NEW t \in Said, Hear(s, t)
    PROVE  /\ TypeOK /\ t \in TickType /\ UNCHANGED <<player, play, rows, sent, lost>> /\ owes' = FALSE
           /\ session = 0 \/ Fresh(session)
           /\ session # 0 => session \in DOMAIN listens
           /\ player.state \in {"playing", "paused", "loading", "stopped", "attaching", "holding", "external"}
           /\ NoTick \in TickType /\ 0 \in 0..Len(listens) /\ session \in 0..Len(listens)
<1>1. pc[s] = "idle" /\ UNCHANGED <<player, play, rows, sent, lost>> /\ owes' = FALSE
  BY DEF Hear, reports
<1>2. session = 0 \/ Fresh(session)
  BY <1>1 DEF TrackerSound, RowsOf
<1>3. TypeOK /\ t \in TickType
  BY SaidIs DEF TrackerSound
<1>4. player.state \in {"playing", "paused", "loading", "stopped", "attaching", "holding", "external"}
  BY <1>3, Typed DEF PlayerType
<1> QED BY <1>1, <1>2, <1>3, <1>4, Typed, NoTickTyped

\* A thread that is idle again owes nothing.
LEMMA IdleAgain ==
    ASSUME OneThread, TrackerSound, NEW s \in Speaker, NEW t \in Said, Hear(s, t), UNCHANGED session,
           Done(s), Len(listens') = Len(listens)
    PROVE  RowsOf(s)' /\ EndsWell(s)' /\ BearsWell(s)'
<1>1. pc'[s] = "idle"
  BY Idle, OneSteps DEF Done
<1>2. session' = 0 \/ Fresh(session)'
  BY Idle DEF Fresh
<1> QED BY <1>1, <1>2 DEF RowsOf, EndsWell, BearsWell, Saving, Bearing

LEMMA KeepKeeps ==
    ASSUME OneThread, TrackerSound, NEW s \in Speaker, NEW t \in Said, Keep(s, t)
    PROVE  TrackerSound'
<1>1. Hear(s, t) /\ listens' = Corrected(t) /\ Done(s) /\ UNCHANGED <<session, carried, cut>>
  BY DEF Keep
<1>2. TypeOK /\ t \in TickType /\ UNCHANGED <<player, play, rows, sent, lost>> /\ NoTick \in TickType
  BY <1>1, Idle
<1>3. /\ listens' \in Seq(ListenType) /\ Len(listens') = Len(listens) /\ DOMAIN listens' = DOMAIN listens
      /\ \A i \in DOMAIN listens :
           /\ listens'[i].track = listens[i].track /\ listens'[i].play = listens[i].play
           /\ listens'[i].max = listens[i].max /\ listens'[i].scrobbled = listens[i].scrobbled
      /\ Alive /\ OfThisPlay => listens'[session].reached <= player.pos
  BY <1>1, <1>2, Corrects
<1>4. RowsOf(s)' /\ EndsWell(s)' /\ BearsWell(s)'
  BY <1>1, <1>3, IdleAgain
<1>5. Carries' /\ carried' \in BOOLEAN
  <2>1. session # 0 => session \in DOMAIN listens
    BY <1>2, Typed
  <2> QED BY <1>1, <1>2, <1>3, <2>1 DEF TrackerSound, Carries, OfThisPlay, Now, TypeOK
<1>6. 0 \in 0..Len(listens') /\ Steps(s, "idle", NoTick, 0)
  BY <1>1, <1>2, <1>3, Typed DEF Done
<1> QED BY <1>1, <1>2, <1>3, <1>4, <1>5, <1>6, Hears

\* An end is the end of the play, or a load with no slot cut it.
LEMMA EndsThePlay ==
    ASSUME OneThread, TrackerSound, NEW s \in Speaker, NEW t \in Said, End(s, t), Alive, OfThisPlay
    PROVE  t.state = "loading" /\ t.track = None
<1>1. /\ TypeOK /\ t \in TickType /\ session # 0 /\ session \in DOMAIN listens
      /\ player.state \in {"playing", "paused", "loading", "stopped", "attaching", "holding", "external"}
  BY Idle DEF End, OfThisPlay
<1>2. /\ t.external <=> Now({"external"})
      /\ t.track \in {None, player.track}
      /\ Now({"attaching", "external"}) => t.track = None
      /\ t.holds <=> Now({"holding"})
      /\ t.state = "playing" => Now({"playing", "external"})
      /\ t.state = "stopped" => Now({"attaching", "holding", "stopped"})
  BY <1>1, SaidIs
<1>3. ~t.external /\ player.track = listens[session].track
  BY <1>2 DEF Alive, Now, TrackerSound, SameTrack
<1>4. t.track \notin Excerpt
  <2>1. listens[session].track \notin Excerpt
    BY <1>1 DEF TrackerSound, ListensSound
  <2> QED BY <1>2, <1>3, <2>1, TrackerAssumption
<1>5. t.state # "playing" /\ ~Interrupts(t)
  BY <1>3, <1>4 DEF End
<1>6. t.state \in {"paused", "loading", "stopped"}
  BY <1>1, <1>5 DEF TickType
<1>7. t.state # "paused"
  BY <1>1, <1>5 DEF Interrupts
<1>8. t.state # "stopped"
  <2>1. SUFFICES ASSUME t.state = "stopped" PROVE FALSE
    OBVIOUS
  <2>2. Now({"attaching", "holding"})
    BY <1>2, <2>1 DEF Alive, Now
  <2>3. carried
    BY <2>2 DEF TrackerSound, Carries
  <2>4. t.track = None \/ (Mine(t) /\ t.holds)
    BY <1>1, <1>2, <1>3, <2>2 DEF Now, Mine
  <2> QED BY <1>1, <1>5, <2>3, <2>4 DEF Interrupts
<1>9. t.track = None
  BY <1>1, <1>2, <1>3, <1>5, <1>6, <1>7, <1>8 DEF Interrupts, Mine
<1> QED BY <1>6, <1>7, <1>8, <1>9

LEMMA EndKeeps ==
    ASSUME OneThread, TrackerSound, NEW s \in Speaker, NEW t \in Said, End(s, t)
    PROVE  TrackerSound'
<1>1. /\ Hear(s, t) /\ UNCHANGED session /\ carried' = FALSE
      /\ listens' = Corrected(t) \/ (t.external /\ listens' = listens)
      /\ cut' \in {cut, cut \cup {play}}
  BY DEF End
<1>2. /\ TypeOK /\ t \in TickType /\ UNCHANGED <<player, play, rows, sent, lost>> /\ NoTick \in TickType
      /\ (session = 0 \/ Fresh(session)) /\ (session # 0 => session \in DOMAIN listens)
      /\ 0 \in 0..Len(listens) /\ session \in 0..Len(listens)
  BY <1>1, Idle
<1>3. /\ listens' \in Seq(ListenType) /\ Len(listens') = Len(listens) /\ DOMAIN listens' = DOMAIN listens
      /\ \A i \in DOMAIN listens :
           /\ listens'[i].track = listens[i].track /\ listens'[i].play = listens[i].play
           /\ listens'[i].max = listens[i].max /\ listens'[i].scrobbled = listens[i].scrobbled
      /\ Alive /\ OfThisPlay => listens'[session].reached <= player.pos
  BY <1>1, <1>2, Corrects
<1>4. Carries' /\ carried' \in BOOLEAN
  <2>1. Now({"attaching", "holding"}) /\ OfThisPlay => FALSE
    <3>1. SUFFICES ASSUME Now({"attaching", "holding"}), OfThisPlay PROVE FALSE
      OBVIOUS
    <3>2. Alive
      BY <3>1 DEF Alive, Now
    <3>3. t.state = "loading" /\ t.track = None
      BY <3>1, <3>2, EndsThePlay
    <3>4. Now({"loading"})
      BY <1>2, <3>3, SaidIs
    <3> QED BY <3>1, <3>4 DEF Now
  <2> QED BY <1>1, <1>2, <1>3, <2>1 DEF Carries, OfThisPlay, Now
<1>5. CASE session # 0
  <2>1. Steps(s, "ending", NoTick, session)
    BY <1>5 DEF End
  <2>2. /\ pc'[s] = "ending" /\ held'[s] = session
    BY <1>2, <1>3, <2>1, OneSteps
  <2>3. RowsOf(s)' /\ BearsWell(s)'
    BY <1>1, <1>2, <1>5, <2>2 DEF RowsOf, BearsWell, Saving, Bearing, Fresh
  <2>4. EndsWell(s)'
    <3>1. SUFFICES ASSUME OfThisPlay', play' \notin cut', Alive' PROVE FALSE
      BY DEF EndsWell
    <3>2. Alive /\ OfThisPlay
      BY <1>1, <1>2, <1>3, <3>1 DEF Alive, Now, OfThisPlay
    <3>3. t.state = "loading" /\ t.track = None
      BY <3>2, EndsThePlay
    <3>4. play \in cut'
      BY <1>5, <3>3 DEF End
    <3> QED BY <1>2, <3>1, <3>4
  <2> QED BY <1>1, <1>2, <1>3, <1>4, <2>1, <2>3, <2>4, Hears
<1>6. CASE session = 0
  <2>1. Done(s)
    BY <1>6 DEF End
  <2>2. RowsOf(s)' /\ EndsWell(s)' /\ BearsWell(s)'
    BY <1>1, <1>3, <2>1, IdleAgain
  <2>3. Steps(s, "idle", NoTick, 0)
    BY <2>1 DEF Done
  <2> QED BY <1>1, <1>2, <1>3, <1>4, <2>2, <2>3, Hears
<1> QED BY <1>5, <1>6

\* A listen that takes the tick's second has heard no more than is played.
LEMMA PassKeeps ==
    ASSUME OneThread, TrackerSound, NEW s \in Speaker, NEW t \in Said, Pass(s, t)
    PROVE  TrackerSound'
<1>1. /\ Hear(s, t) /\ UNCHANGED <<session, cut>> /\ carried' = FALSE /\ Done(s)
      /\ ~t.external /\ t.state = "playing"
  BY DEF Pass
<1>2. /\ TypeOK /\ t \in TickType /\ UNCHANGED <<player, play, rows, sent, lost>> /\ NoTick \in TickType
      /\ (session = 0 \/ Fresh(session)) /\ (session # 0 => session \in DOMAIN listens)
      /\ t.pos = player.pos /\ Now({"playing"}) /\ listens \in Seq(ListenType)
      /\ 0 \in 0..Len(listens)
  BY <1>1, Idle, SaidIs, Typed DEF Now
<1>3. /\ Corrected(t) \in Seq(ListenType) /\ Len(Corrected(t)) = Len(listens)
      /\ DOMAIN Corrected(t) = DOMAIN listens
      /\ \A i \in DOMAIN listens :
           /\ Corrected(t)[i].track = listens[i].track /\ Corrected(t)[i].play = listens[i].play
           /\ Corrected(t)[i].max = listens[i].max /\ Corrected(t)[i].scrobbled = listens[i].scrobbled
  BY <1>2, CorrectedIs
<1>4. Alive /\ OfThisPlay => Corrected(t)[session].reached <= player.pos
  <2>1. SUFFICES ASSUME Alive, OfThisPlay PROVE Corrected(t)[session].reached <= player.pos
    OBVIOUS
  <2>2. player.track = listens[session].track /\ session # 0 /\ player.pos \in 0..3
    BY <1>2, <2>1, Typed DEF TrackerSound, SameTrack, OfThisPlay, PlayerType
  <2>3. t.track \in {None, listens[session].track} /\ t.corrected = owes /\ owes \in BOOLEAN
    BY <1>2, <2>2, SaidIs DEF TypeOK
  <2>4. CASE owes
    <3>1. t.corrected
      BY <2>3, <2>4
    <3>2. Corrected(t)[session].reached = t.pos
      BY <1>2, <2>2, <2>3, <3>1, CorrectedIs
    <3> QED BY <1>2, <2>2, <3>2
  <2>5. CASE ~owes
    BY <1>2, <2>1, <2>2, <2>3, <2>5, CorrectedIs DEF TrackerSound, NoLater
  <2> QED BY <2>3, <2>4, <2>5
<1>5. /\ listens' \in Seq(ListenType) /\ Len(listens') = Len(listens) /\ DOMAIN listens' = DOMAIN listens
      /\ \A i \in DOMAIN listens :
           /\ listens'[i].track = listens[i].track /\ listens'[i].play = listens[i].play
           /\ listens'[i].scrobbled = listens[i].scrobbled
           /\ \/ listens'[i].max = listens[i].max
              \/ Fresh(i) /\ (listens[i].max = Half => listens'[i].max = Half)
      /\ Alive /\ OfThisPlay => listens'[session].reached <= player.pos
  <2>1. CASE session = 0
    BY <1>1, <1>2, <2>1 DEF Pass, OfThisPlay
  <2>2. CASE session # 0
    <3> DEFINE set == Corrected(t)
               l   == Advance(set[session], t)
    <3>1. listens' = [set EXCEPT ![session] = l]
      BY <2>2 DEF Pass
    <3>2. set[session] \in ListenType /\ session \in DOMAIN set /\ set[session].max = listens[session].max
      BY <1>2, <1>3, <2>2
    <3>3. /\ l \in ListenType /\ l.track = set[session].track /\ l.play = set[session].play
          /\ l.scrobbled = set[session].scrobbled
          /\ set[session].max = Half => l.max = Half
          /\ l.reached \in {set[session].reached, t.pos}
      BY <1>2, <3>2, AdvanceIs
    <3>4. player.pos \in 0..3
      BY <1>2, Typed DEF PlayerType
    <3>5. Alive /\ OfThisPlay => l.reached <= player.pos
      BY <1>2, <1>4, <3>3, <3>4
    <3> HIDE DEF set, l
    <3>6. set \in Seq(ListenType) /\ Len(set) = Len(listens) /\ DOMAIN set = DOMAIN listens
          /\ \A i \in DOMAIN listens :
               /\ set[i].track = listens[i].track /\ set[i].play = listens[i].play
               /\ set[i].max = listens[i].max /\ set[i].scrobbled = listens[i].scrobbled
      BY <1>3 DEF set
    <3>7. /\ listens' \in Seq(ListenType) /\ Len(listens') = Len(set)
          /\ \A i \in DOMAIN set : listens'[i] = IF i = session THEN l ELSE set[i]
      BY <3>1, <3>2, <3>3, <3>6, ExceptSeq
    <3>8. DOMAIN listens' = DOMAIN listens
      BY <3>1, <3>6
    <3> QED BY <1>2, <2>2, <3>2, <3>3, <3>5, <3>6, <3>7, <3>8
  <2> QED BY <2>1, <2>2
<1>6. RowsOf(s)' /\ EndsWell(s)' /\ BearsWell(s)'
  BY <1>1, <1>5, IdleAgain
<1>7. Carries' /\ carried' \in BOOLEAN
  BY <1>1, <1>2 DEF Carries, Now
<1>8. Steps(s, "idle", NoTick, 0)
  BY <1>1 DEF Done
<1> QED BY <1>1, <1>2, <1>5, <1>6, <1>7, <1>8, Hears

\* A tick of a track that plays: the play can still be heard, and is of it.
LEMMA PlayIs ==
    ASSUME OneThread, TrackerSound, NEW s \in Speaker, NEW t \in Said, Hear(s, t), Plays(t)
    PROVE  /\ t \in TickType /\ t.track \in Track \ Excerpt /\ t.play = play /\ t.play \in 1..play
           /\ t.pos = player.pos /\ player.track = t.track /\ Alive /\ Now({"playing"})
           /\ \A i \in DOMAIN listens : listens[i].play <= t.play
           /\ t.corrected = owes /\ owes \in BOOLEAN
<1>1. /\ TypeOK /\ t \in TickType /\ t.track \in Track \ Excerpt /\ t.track # None
      /\ t.state = "playing" /\ ~t.external
  BY Idle, TrackerAssumption DEF Plays
<1>2. Now({"playing"}) /\ t.play = play /\ t.pos = player.pos /\ t.track = player.track /\ t.corrected = owes
  BY <1>1, SaidIs DEF Now
<1>3. Alive
  BY <1>2 DEF Alive, Now
<1>4. play \in 1..MaxPlays /\ MaxPlays \in Nat
  BY <1>3, TrackerAssumption DEF TrackerSound, WorldSound
<1>5. \A i \in DOMAIN listens : listens[i].play <= play
  BY DEF TrackerSound, ListensSound
<1> QED BY <1>1, <1>2, <1>3, <1>4, <1>5 DEF TypeOK

\* What a tick of a playing track leaves the thread with.
LEMMA BearsIt ==
    ASSUME OneThread, TrackerSound, NEW s \in Speaker, NEW t \in Said, Hear(s, t), Plays(t),
           DOMAIN listens' = DOMAIN listens,
           \A i \in DOMAIN listens : listens'[i].play = listens[i].play,
           tick'[s] = t, UNCHANGED cut,
           pc'[s] # "counting" =>
             \A i \in DOMAIN listens : listens[i].play = play => play \in cut
    PROVE  BearsWell(s)'
<1>1. /\ t \in TickType /\ t.track \in Track \ Excerpt /\ t.play = play /\ t.play \in 1..play
      /\ t.pos = player.pos /\ player.track = t.track /\ Now({"playing"})
      /\ \A i \in DOMAIN listens : listens[i].play <= t.play
  BY PlayIs
<1>2. UNCHANGED <<player, play>> /\ t.pos \in 0..3
  BY <1>1, Idle DEF TickType, Position, Top, Half
<1>3. t.pos <= player.pos
  BY <1>1, <1>2
<1> QED BY <1>1, <1>2, <1>3 DEF BearsWell, Now

LEMMA ChangeKeeps ==
    ASSUME OneThread, TrackerSound, NEW s \in Speaker, NEW t \in Said, Change(s, t)
    PROVE  TrackerSound'
<1>1. /\ Hear(s, t) /\ Plays(t) /\ (~Mine(t) \/ Restarted(t))
      /\ UNCHANGED <<session, cut>> /\ carried' = FALSE /\ listens' = Corrected(t)
  BY DEF Change
<1>2. /\ TypeOK /\ t \in TickType /\ UNCHANGED <<player, play, rows, sent, lost>> /\ NoTick \in TickType
      /\ (session = 0 \/ Fresh(session)) /\ (session # 0 => session \in DOMAIN listens)
      /\ 0 \in 0..Len(listens) /\ session \in 0..Len(listens)
  BY <1>1, Idle
<1>3. /\ listens' \in Seq(ListenType) /\ Len(listens') = Len(listens) /\ DOMAIN listens' = DOMAIN listens
      /\ \A i \in DOMAIN listens :
           /\ listens'[i].track = listens[i].track /\ listens'[i].play = listens[i].play
           /\ listens'[i].max = listens[i].max /\ listens'[i].scrobbled = listens[i].scrobbled
      /\ Alive /\ OfThisPlay => listens'[session].reached <= player.pos
  BY <1>1, <1>2, Corrects
<1>4. /\ t.track = player.track /\ t.play = play /\ t.pos = player.pos /\ Alive /\ Now({"playing"})
  BY <1>1, PlayIs
<1>5. Carries' /\ carried' \in BOOLEAN
  BY <1>1, <1>2, <1>4 DEF Carries, Now
<1>6. \A i \in DOMAIN listens : listens[i].play = play => play \in cut
  <2>1. SUFFICES ASSUME OfThisPlay PROVE FALSE
    BY <1>4 DEF TrackerSound, OpenIfHeard
  <2>2. Mine(t)
    BY <1>4, <2>1 DEF TrackerSound, SameTrack, Mine, OfThisPlay
  <2>3. t.pos = 0 /\ Corrected(t)[session].reached \in {2, 3}
    BY <1>1, <2>2 DEF Restarted, Top, Past, Half
  <2>4. Corrected(t)[session].reached <= player.pos
    BY <1>1, <1>3, <1>4, <2>1
  <2> QED BY <1>4, <2>3, <2>4
<1>7. CASE session # 0
  <2>1. Steps(s, "changing", t, session)
    BY <1>7 DEF Change
  <2>2. pc'[s] = "changing" /\ held'[s] = session /\ tick'[s] = t
    BY <1>2, <1>3, <2>1, OneSteps
  <2>3. RowsOf(s)' /\ EndsWell(s)'
    BY <1>1, <1>2, <1>7, <2>2 DEF RowsOf, EndsWell, Saving, Fresh
  <2>4. BearsWell(s)'
    BY <1>1, <1>3, <1>6, <2>2, BearsIt
  <2> QED BY <1>1, <1>2, <1>3, <1>5, <2>1, <2>3, <2>4, Hears
<1>8. CASE session = 0
  <2>1. Steps(s, "opening", t, 0)
    BY <1>8 DEF Change
  <2>2. pc'[s] = "opening" /\ tick'[s] = t
    BY <1>2, <1>3, <2>1, OneSteps
  <2>3. RowsOf(s)' /\ EndsWell(s)'
    BY <1>1, <1>8, <2>2 DEF RowsOf, EndsWell, Saving
  <2>4. BearsWell(s)'
    BY <1>1, <1>3, <1>6, <2>2, BearsIt
  <2> QED BY <1>1, <1>2, <1>3, <1>5, <2>1, <2>3, <2>4, Hears
<1> QED BY <1>7, <1>8

LEMMA GoOnKeeps ==
    ASSUME OneThread, TrackerSound, NEW s \in Speaker, NEW t \in Said, GoOn(s, t)
    PROVE  TrackerSound'
<1>1. /\ Hear(s, t) /\ Plays(t) /\ Mine(t) /\ Steps(s, "counting", t, 0)
      /\ UNCHANGED <<session, cut>> /\ carried' = FALSE /\ listens' = Corrected(t)
  BY DEF GoOn
<1>2. /\ TypeOK /\ t \in TickType /\ UNCHANGED <<player, play, rows, sent, lost>>
      /\ session # 0 /\ Fresh(session) /\ 0 \in 0..Len(listens)
  BY <1>1, Idle DEF Mine
<1>3. /\ listens' \in Seq(ListenType) /\ Len(listens') = Len(listens) /\ DOMAIN listens' = DOMAIN listens
      /\ \A i \in DOMAIN listens :
           /\ listens'[i].track = listens[i].track /\ listens'[i].play = listens[i].play
           /\ listens'[i].max = listens[i].max /\ listens'[i].scrobbled = listens[i].scrobbled
      /\ Alive /\ OfThisPlay => listens'[session].reached <= player.pos
  BY <1>1, <1>2, Corrects
<1>4. Carries' /\ carried' \in BOOLEAN
  BY <1>1, <1>2, PlayIs DEF Carries, Now
<1>5. pc'[s] = "counting" /\ tick'[s] = t
  BY <1>1, <1>2, <1>3, OneSteps
<1>6. RowsOf(s)' /\ EndsWell(s)' /\ BearsWell(s)'
  <2>1. RowsOf(s)' /\ EndsWell(s)'
    BY <1>1, <1>2, <1>5 DEF RowsOf, EndsWell, Saving, Fresh
  <2> QED BY <1>1, <1>3, <1>5, <2>1, BearsIt
<1> QED BY <1>1, <1>2, <1>3, <1>4, <1>6, Hears

-----------------------------------------------------------------------------
(* The steps after a tick was judged.                                      *)

\* What does not touch the plays of the listens keeps all that is said of them.
LEMMA PlaysKept ==
    ASSUME TrackerSound, UNCHANGED <<player, play, owes, session, carried, cut>>,
           DOMAIN listens' = DOMAIN listens,
           \A i \in DOMAIN listens :
             /\ listens'[i].track = listens[i].track /\ listens'[i].play = listens[i].play
             /\ listens'[i].reached = listens[i].reached
    PROVE  /\ WorldSound' /\ OpenIfHeard' /\ SameTrack' /\ NoLater' /\ Carries' /\ OneListenPerPlay'
           /\ (OfThisPlay' <=> OfThisPlay) /\ (Alive' <=> Alive)
<1>1. session # 0 => session \in DOMAIN listens
  BY Typed DEF TrackerSound
<1>2. (OfThisPlay' <=> OfThisPlay) /\ (Alive' <=> Alive)
  BY <1>1 DEF OfThisPlay, Alive, Now
<1>3. WorldSound' /\ SameTrack' /\ NoLater' /\ Carries'
  BY <1>1, <1>2 DEF TrackerSound, WorldSound, SameTrack, NoLater, Carries, OfThisPlay, Now
<1>4. OpenIfHeard' /\ OneListenPerPlay'
  BY <1>2 DEF TrackerSound, OpenIfHeard, OneListenPerPlay
<1> QED BY <1>2, <1>3, <1>4

LEMMA SaveKeeps ==
    ASSUME OneThread, TrackerSound, NEW s \in Speaker, Save(s)
    PROVE  TrackerSound'
<1> DEFINE i == session
           where == IF pc[s] = "ending" THEN "dropping" ELSE "opening"
<1>1. /\ TypeOK /\ listens \in Seq(ListenType) /\ DOMAIN listens = 1..Len(listens) /\ Len(listens) \in Nat
      /\ \A j \in DOMAIN listens : listens[j] \in ListenType
      /\ rows \in [1..Len(listens) -> Nat] /\ sent \in [1..Len(listens) -> Nat]
      /\ tick[s] \in TickType
  BY Typed DEF TrackerSound, TypeOK
<1>2. pc[s] \in {"ending", "changing"} /\ held[s] = i /\ i # 0 /\ Fresh(i) /\ i \in DOMAIN listens
  <2>1. pc[s] \in {"ending", "changing"} /\ RowsOf(s)
    BY DEF Save, TrackerSound
  <2> QED BY <1>1, <2>1, Typed DEF RowsOf, Saving
<1>3. PICK on \in BOOLEAN :
        /\ Steps(s, where, tick[s], 0)
        /\ \/ /\ rows' = [rows EXCEPT ![i] = @ + 1]
              /\ sent' = IF Scrobbles(listens[i], Completed(listens[i]), on) THEN [sent EXCEPT ![i] = @ + 1] ELSE sent
              /\ listens' = IF Scrobbles(listens[i], Completed(listens[i]), on)
                            THEN [listens EXCEPT ![i].scrobbled = TRUE] ELSE listens
              /\ UNCHANGED lost
           \/ /\ lost' = lost \cup {i}
              /\ UNCHANGED <<rows, sent, listens>>
        /\ UNCHANGED <<player, play, owes, session, carried, cut>>
  BY <1>2 DEF Save, world
<1> DEFINE sends == Scrobbles(listens[i], Completed(listens[i]), on)
<1>4. sent[i] = (IF listens[i].scrobbled THEN 1 ELSE 0) /\ (sends => Completed(listens[i]) /\ sent[i] = 0)
  BY <1>2 DEF TrackerSound, ListensSound, Scrobbles
\* The open listen has its row, or was refused one; it is scrobbled if it counts.
<1>5. /\ listens' \in Seq(ListenType) /\ Len(listens') = Len(listens) /\ DOMAIN listens' = DOMAIN listens
      /\ rows' \in [1..Len(listens) -> Nat] /\ sent' \in [1..Len(listens) -> Nat]
      /\ \A j \in DOMAIN listens :
           /\ listens'[j].track = listens[j].track /\ listens'[j].play = listens[j].play
           /\ listens'[j].max = listens[j].max /\ listens'[j].reached = listens[j].reached
           /\ \/ listens'[j].scrobbled = listens[j].scrobbled /\ sent'[j] = sent[j]
              \/ j = i /\ listens'[j].scrobbled = TRUE /\ sent'[j] = 1 /\ Completed(listens[j])
           /\ j # i => rows'[j] = rows[j] /\ (j \in lost' <=> j \in lost)
      /\ (rows'[i] = 1 /\ i \notin lost') \/ (rows'[i] = 0 /\ i \in lost')
      /\ lost' \subseteq 1..Len(listens)
  <2>1. CASE /\ rows' = [rows EXCEPT ![i] = @ + 1] /\ UNCHANGED lost
             /\ sends /\ sent' = [sent EXCEPT ![i] = @ + 1]
             /\ listens' = [listens EXCEPT ![i].scrobbled = TRUE]
    <3> DEFINE l == [listens[i] EXCEPT !.scrobbled = TRUE]
    <3>1. /\ l \in ListenType /\ l.track = listens[i].track /\ l.play = listens[i].play
          /\ l.max = listens[i].max /\ l.reached = listens[i].reached /\ l.scrobbled = TRUE
      BY <1>1, <1>2 DEF ListenType
    <3>2. listens' = [listens EXCEPT ![i] = l]
      BY <2>1
    <3> HIDE DEF l
    <3>3. /\ listens' \in Seq(ListenType) /\ Len(listens') = Len(listens)
          /\ \A j \in DOMAIN listens : listens'[j] = IF j = i THEN l ELSE listens[j]
      BY <1>1, <1>2, <3>1, <3>2, ExceptSeq
    <3>4. /\ rows' \in [1..Len(listens) -> Nat] /\ sent' \in [1..Len(listens) -> Nat]
          /\ rows'[i] = 1 /\ i \notin lost' /\ sent'[i] = 1
          /\ \A j \in DOMAIN listens : j # i => rows'[j] = rows[j] /\ sent'[j] = sent[j]
      BY <1>1, <1>2, <1>4, <2>1 DEF Fresh
    <3>5. lost' \subseteq 1..Len(listens) /\ DOMAIN listens' = DOMAIN listens /\ lost' = lost
      BY <1>1, <2>1, <3>3 DEF TypeOK
    <3> HIDE DEF i
    <3> QED BY <1>4, <2>1, <3>1, <3>3, <3>4, <3>5
  <2>2. CASE /\ rows' = [rows EXCEPT ![i] = @ + 1] /\ UNCHANGED <<lost, sent, listens>>
    <3>1. rows' \in [1..Len(listens) -> Nat] /\ rows'[i] = 1 /\ i \notin lost'
          /\ \A j \in DOMAIN listens : j # i => rows'[j] = rows[j]
      BY <1>1, <1>2, <2>2 DEF Fresh
    <3> QED BY <1>1, <1>2, <2>2, <3>1 DEF TypeOK
  <2>3. CASE lost' = lost \cup {i} /\ UNCHANGED <<rows, sent, listens>>
    BY <1>1, <1>2, <2>3 DEF TypeOK, Fresh
  <2> QED BY <1>3, <2>1, <2>2, <2>3
<1>6. /\ WorldSound' /\ OpenIfHeard' /\ SameTrack' /\ NoLater' /\ Carries' /\ OneListenPerPlay'
      /\ (OfThisPlay' <=> OfThisPlay) /\ (Alive' <=> Alive)
  BY <1>3, <1>5, PlaysKept
<1>7. ~Fresh(i)' /\ \A j \in DOMAIN listens : j # i => (Fresh(j)' <=> Fresh(j))
  BY <1>3, <1>5 DEF Fresh
<1>8. ListensSound'
  <2>1. ListensSound
    BY DEF TrackerSound
  <2> QED BY <1>3, <1>5, <1>7, <2>1 DEF ListensSound, Completed, ScrobbleReady
<1>9. OneRowPerListen'
  <2>1. \A j \in DOMAIN listens :
          rows[j] <= 1 /\ ~(rows[j] = 1 /\ j \in lost) /\ (rows[j] = 0 /\ j \notin lost => j = session)
    BY DEF TrackerSound, OneRowPerListen, NoListenTwice
  <2>2. \A j \in DOMAIN listens :
          rows'[j] <= 1 /\ ~(rows'[j] = 1 /\ j \in lost') /\ (rows'[j] = 0 /\ j \notin lost' => j = session)
    BY <1>1, <1>5, <2>1
  <2> QED BY <1>3, <1>5, <2>2 DEF OneRowPerListen, NoListenTwice
<1>10. /\ pc' \in [Speaker -> {"idle", "ending", "changing", "dropping", "opening", "counting"}]
       /\ tick' \in [Speaker -> TickType] /\ held' \in [Speaker -> 0..Len(listens')]
       /\ pc'[s] = where /\ tick'[s] = tick[s] /\ \A u \in Speaker : u = s
  <2>1. 0 \in 0..Len(listens') /\ where \in {"dropping", "opening"}
    BY <1>1, <1>5
  <2> HIDE DEF where
  <2> QED BY <1>1, <1>3, <2>1, OneSteps
<1>11. RowsOf(s)' /\ EndsWell(s)' /\ BearsWell(s)'
  <2>1. RowsOf(s)'
    BY <1>2, <1>3, <1>7, <1>10 DEF RowsOf, Saving, Fresh
  <2>2. EndsWell(s)'
    BY <1>2, <1>3, <1>6, <1>10 DEF TrackerSound, EndsWell
  <2>3. BearsWell(s)'
    <3>1. pc[s] = "changing" \/ pc'[s] = "dropping"
      BY <1>2, <1>10
    <3>2. BearsWell(s)
      BY DEF TrackerSound
    <3> QED BY <1>2, <1>3, <1>5, <1>6, <1>10, <3>1, <3>2 DEF BearsWell, Bearing, Now
  <2> QED BY <2>1, <2>2, <2>3
<1>12. TypeOK'
  BY <1>1, <1>3, <1>5, <1>10 DEF TypeOK, ListenType
<1> QED BY <1>6, <1>8, <1>9, <1>10, <1>11, <1>12 DEF TrackerSound

LEMMA DropKeeps ==
    ASSUME OneThread, TrackerSound, NEW s \in Speaker, Drop(s)
    PROVE  TrackerSound'
<1>1. /\ pc[s] = "dropping" /\ session' = 0 /\ Done(s)
      /\ UNCHANGED <<player, play, owes, carried, listens, cut, rows, sent, lost>>
  BY DEF Drop, world, reports
<1>2. TypeOK /\ session # 0 /\ ~Fresh(session) /\ NoTick \in TickType /\ 0 \in 0..Len(listens)
  <2>1. RowsOf(s) /\ TypeOK
    BY DEF TrackerSound
  <2> QED BY <1>1, <2>1, Typed, NoTickTyped DEF RowsOf
<1>3. /\ pc' \in [Speaker -> {"idle", "ending", "changing", "dropping", "opening", "counting"}]
      /\ tick' \in [Speaker -> TickType] /\ held' \in [Speaker -> 0..Len(listens')]
      /\ pc'[s] = "idle" /\ \A u \in Speaker : u = s
  BY <1>1, <1>2, OneSteps DEF Done
<1>4. TypeOK'
  BY <1>1, <1>2, <1>3 DEF TypeOK
<1>5. ListensSound' /\ OneListenPerPlay' /\ WorldSound'
  BY <1>1 DEF TrackerSound, ListensSound, OneListenPerPlay, WorldSound, Fresh, Alive, Now
<1>6. OneRowPerListen'
  BY <1>1, <1>2 DEF TrackerSound, OneRowPerListen, NoListenTwice, Fresh
<1>7. OpenIfHeard' /\ ~OfThisPlay'
  <2>1. ~OfThisPlay'
    BY <1>1 DEF OfThisPlay
  <2>2. OpenIfHeard /\ EndsWell(s)
    BY DEF TrackerSound
  <2> QED BY <1>1, <2>1, <2>2 DEF OpenIfHeard, EndsWell, Alive, Now
<1>8. RowsOf(s)' /\ EndsWell(s)' /\ BearsWell(s)'
  BY <1>1, <1>3 DEF RowsOf, EndsWell, BearsWell, Saving, Bearing
<1> QED BY <1>3, <1>4, <1>5, <1>6, <1>7, <1>8 DEF TrackerSound, SameTrack, NoLater, Carries

LEMMA Appended ==
    ASSUME NEW n \in Nat, NEW f \in [1..n -> Nat]
    PROVE  /\ Append(f, 0) \in [1..(n + 1) -> Nat]
           /\ Append(f, 0)[n + 1] = 0 /\ \A i \in 1..n : Append(f, 0)[i] = f[i]
<1>1. f \in Seq(Nat) /\ Len(f) = n
  OBVIOUS
<1>2. Append(f, 0) \in Seq(Nat) /\ Len(Append(f, 0)) = n + 1
      /\ Append(f, 0)[n + 1] = 0 /\ \A i \in 1..n : Append(f, 0)[i] = f[i]
  BY <1>1, AppendProperties
<1> QED BY <1>2, LenProperties

LEMMA OpenKeeps ==
    ASSUME OneThread, TrackerSound, NEW s \in Speaker, Open(s)
    PROVE  TrackerSound'
<1> DEFINE l == NewListen(tick[s])
<1>0. PICK n : n = Len(listens)
  OBVIOUS
<1>1. /\ pc[s] = "opening" /\ listens' = Append(listens, l) /\ session' = n + 1
      /\ rows' = Append(rows, 0) /\ sent' = Append(sent, 0)
      /\ Steps(s, "counting", tick[s], 0)
      /\ UNCHANGED <<player, play, owes, carried, cut, lost>>
  BY <1>0 DEF Open, world
<1>2. /\ TypeOK /\ listens \in Seq(ListenType) /\ DOMAIN listens = 1..n /\ n \in Nat
      /\ rows \in [1..n -> Nat] /\ sent \in [1..n -> Nat] /\ lost \subseteq 1..n
      /\ tick[s] \in TickType /\ session \in 0..n /\ play \in Nat /\ play <= MaxPlays /\ MaxPlays \in Nat
  BY <1>0, Typed DEF TrackerSound, TypeOK
<1>3. session = 0 \/ ~Fresh(session)
  BY <1>1 DEF TrackerSound, RowsOf
<1>4. /\ tick[s].track \in Track \ Excerpt /\ tick[s].play \in 1..play
      /\ ~Now({"attaching", "holding"})
      /\ \A i \in DOMAIN listens : listens[i].play <= tick[s].play
      /\ Alive /\ tick[s].play = play => player.track = tick[s].track
      /\ Alive /\ tick[s].play = play /\ ~owes => tick[s].pos <= player.pos
      /\ \A i \in DOMAIN listens : listens[i].play \in {play, tick[s].play} => listens[i].play \in cut
  <2>1. BearsWell(s)
    BY DEF TrackerSound
  <2> QED BY <1>1, <2>1 DEF BearsWell, Bearing
<1>5. /\ l \in ListenType /\ l.track = tick[s].track /\ l.play = tick[s].play
      /\ l.reached = 0 /\ l.scrobbled = FALSE
  BY <1>2, <1>4 DEF NewListen, ListenType, Position, Top, Half
<1> HIDE DEF l
<1>6. /\ listens' \in Seq(ListenType) /\ Len(listens') = n + 1 /\ DOMAIN listens' = 1..(n + 1)
      /\ listens'[n + 1] = l /\ \A i \in 1..n : listens'[i] = listens[i]
  BY <1>1, <1>2, <1>5
<1>7. /\ rows' \in [1..(n + 1) -> Nat] /\ rows'[n + 1] = 0 /\ \A i \in 1..n : rows'[i] = rows[i]
  BY <1>1, <1>2, Appended
<1>8. /\ sent' \in [1..(n + 1) -> Nat] /\ sent'[n + 1] = 0 /\ \A i \in 1..n : sent'[i] = sent[i]
  BY <1>1, <1>2, Appended
<1>9. /\ pc' \in [Speaker -> {"idle", "ending", "changing", "dropping", "opening", "counting"}]
      /\ tick' \in [Speaker -> TickType] /\ held' \in [Speaker -> 0..Len(listens')]
      /\ pc'[s] = "counting" /\ tick'[s] = tick[s] /\ \A u \in Speaker : u = s
  <2>1. 0 \in 0..Len(listens')
    BY <1>2, <1>6
  <2> QED BY <1>1, <1>2, <2>1, OneSteps
<1>10. TypeOK'
  BY <1>1, <1>2, <1>6, <1>7, <1>8, <1>9 DEF TypeOK, ListenType
<1>11. /\ \A i \in 1..n : ~Fresh(i) \/ i = session
       /\ \A i \in 1..n : ~Fresh(i)
       /\ \A i \in 1..n : Fresh(i)' <=> Fresh(i)
       /\ Fresh(n + 1)'
  <2>1. \A i \in 1..n : ~Fresh(i) \/ i = session
    BY <1>2 DEF TrackerSound, OneRowPerListen, Fresh
  <2> QED BY <1>1, <1>2, <1>3, <1>7, <2>1 DEF Fresh
<1>12. ListensSound'
  <2>1. ListensSound
    BY DEF TrackerSound
  <2>2. ASSUME NEW i \in 1..n
        PROVE  /\ listens'[i].track \notin Excerpt /\ listens'[i].play <= play'
               /\ sent'[i] = (IF listens'[i].scrobbled THEN 1 ELSE 0)
               /\ listens'[i].scrobbled => Completed(listens'[i])
    BY <1>1, <1>2, <1>6, <1>8, <2>1 DEF ListensSound, Completed, ScrobbleReady
  <2>3. /\ l.track \notin Excerpt /\ l.play <= play /\ sent'[n + 1] = (IF l.scrobbled THEN 1 ELSE 0)
        /\ ~l.scrobbled
    BY <1>2, <1>4, <1>5, <1>8
  <2>4. \A i \in 1..(n + 1) : i \in 1..n \/ i = n + 1
    BY <1>2
  <2> QED BY <1>1, <1>6, <1>11, <2>2, <2>3, <2>4 DEF ListensSound
<1>13. OneRowPerListen'
  <2>1. \A i \in 1..n : rows[i] <= 1 /\ ~(rows[i] = 1 /\ i \in lost)
    BY <1>2 DEF TrackerSound, OneRowPerListen, NoListenTwice
  <2>2. \A i \in 1..n : rows'[i] <= 1 /\ ~(rows'[i] = 1 /\ i \in lost') /\ ~(rows'[i] = 0 /\ i \notin lost')
    BY <1>1, <1>7, <1>11, <2>1 DEF Fresh
  <2>3. \A i \in 1..(n + 1) : i \in 1..n \/ i = n + 1
    BY <1>2
  <2>4. rows'[n + 1] = 0 /\ session' = n + 1
    BY <1>1, <1>7
  <2>5. \A i \in DOMAIN listens' : rows'[i] <= 1 /\ ~(rows'[i] = 1 /\ i \in lost')
                                   /\ (rows'[i] = 0 /\ i \notin lost' => i = session')
    BY <1>6, <2>2, <2>3, <2>4
  <2> QED BY <2>5 DEF OneRowPerListen, NoListenTwice
<1>14. OneListenPerPlay'
  <2>1. \A i, j \in 1..n : listens'[i].play = listens'[j].play => i = j \/ listens'[i].play \in cut'
    BY <1>1, <1>2, <1>6 DEF TrackerSound, OneListenPerPlay
  <2>2. \A i \in 1..n : listens'[i].play = l.play => l.play \in cut'
    BY <1>1, <1>2, <1>4, <1>5, <1>6
  <2>3. \A i \in 1..(n + 1) : i \in 1..n \/ i = n + 1
    BY <1>2
  <2> QED BY <1>6, <2>1, <2>2, <2>3 DEF OneListenPerPlay
<1>15. /\ OfThisPlay' <=> tick[s].play = play
       /\ (Alive' <=> Alive) /\ WorldSound'
  BY <1>1, <1>2, <1>5, <1>6 DEF OfThisPlay, Alive, Now, TrackerSound, WorldSound
<1>16. OpenIfHeard'
  <2>1. SUFFICES ASSUME NEW i \in DOMAIN listens', listens'[i].play = play', play' \notin cut' PROVE OfThisPlay'
    BY DEF OpenIfHeard
  <2>2. i \notin 1..n
    BY <1>1, <1>2, <1>4, <1>6, <2>1
  <2>3. i = n + 1
    BY <1>2, <1>6, <2>1, <2>2
  <2> QED BY <1>1, <1>5, <1>6, <1>15, <2>1, <2>3
<1>17. SameTrack' /\ NoLater' /\ Carries'
  <2>1. player.pos \in 0..3
    BY <1>2, Typed DEF PlayerType
  <2> QED BY <1>1, <1>4, <1>5, <1>6, <1>15, <2>1 DEF SameTrack, NoLater, Carries, Now
<1>18. RowsOf(s)' /\ EndsWell(s)' /\ BearsWell(s)'
  <2>1. RowsOf(s)' /\ EndsWell(s)'
    BY <1>1, <1>2, <1>9, <1>11 DEF RowsOf, EndsWell, Saving, Fresh
  <2>2. \A i \in DOMAIN listens' : listens'[i].play <= tick[s].play
    <3>1. \A i \in 1..(n + 1) : i \in 1..n \/ i = n + 1
      BY <1>2
    <3>2. tick[s].play \in Nat
      BY <1>2, <1>4
    <3>3. \A i \in 1..n : listens'[i].play <= tick[s].play
      BY <1>2, <1>4, <1>6
    <3>4. listens'[n + 1].play <= tick[s].play
      BY <1>5, <1>6, <3>2
    <3> QED BY <1>6, <3>1, <3>3, <3>4
  <2>3. BearsWell(s)'
    BY <1>1, <1>4, <1>9, <1>15, <2>2 DEF BearsWell, Now
  <2> QED BY <2>1, <2>3
<1> QED BY <1>9, <1>10, <1>12, <1>13, <1>14, <1>15, <1>16, <1>17, <1>18 DEF TrackerSound

LEMMA CountKeeps ==
    ASSUME OneThread, TrackerSound, NEW s \in Speaker, Count(s)
    PROVE  TrackerSound'
<1>1. /\ TypeOK /\ listens \in Seq(ListenType) /\ DOMAIN listens = 1..Len(listens) /\ Len(listens) \in Nat
      /\ rows \in [1..Len(listens) -> Nat] /\ sent \in [1..Len(listens) -> Nat]
      /\ tick[s] \in TickType /\ NoTick \in TickType /\ player.pos \in 0..3
  BY Typed, NoTickTyped DEF TrackerSound, TypeOK, PlayerType
<1>2. pc[s] = "counting" /\ session # 0 /\ Fresh(session) /\ session \in DOMAIN listens
  <2>1. pc[s] = "counting" /\ RowsOf(s)
    BY DEF Count, TrackerSound
  <2> QED BY <1>1, <2>1, Typed DEF RowsOf
<1> DEFINE l == Advance(listens[session], tick[s])
<1>3. PICK on \in BOOLEAN :
        /\ listens' = [listens EXCEPT ![session] =
                         [l EXCEPT !.scrobbled = l.scrobbled \/ Scrobbles(l, ScrobbleReady(l), on)]]
        /\ sent' = IF Scrobbles(l, ScrobbleReady(l), on) THEN [sent EXCEPT ![session] = @ + 1] ELSE sent
  BY <1>2 DEF Count
<1>4. Done(s) /\ UNCHANGED <<player, play, owes, session, carried, cut, rows, lost>>
  BY DEF Count, world
<1>5. listens[session] \in ListenType
  BY <1>1, <1>2
<1>6. /\ l \in ListenType /\ l.track = listens[session].track /\ l.play = listens[session].play
      /\ l.scrobbled = listens[session].scrobbled
      /\ listens[session].max = Half => l.max = Half
      /\ l.reached \in {listens[session].reached, tick[s].pos}
  BY <1>1, <1>5, AdvanceIs
<1>7. sent[session] = (IF listens[session].scrobbled THEN 1 ELSE 0)
  BY <1>2 DEF TrackerSound, ListensSound
<1> DEFINE sends == Scrobbles(l, ScrobbleReady(l), on)
           m     == [l EXCEPT !.scrobbled = l.scrobbled \/ sends]
<1>8. /\ sends \in BOOLEAN
      /\ sends => l.max = Half /\ l.scrobbled = FALSE /\ sent[session] = 0
  BY <1>6, <1>7 DEF Scrobbles, ScrobbleReady, ListenType
<1>9. /\ m \in ListenType /\ m.track = l.track /\ m.play = l.play /\ m.max = l.max /\ m.reached = l.reached
      /\ m.scrobbled = (l.scrobbled \/ sends)
  <2> HIDE DEF l, sends
  <2>1. l.scrobbled \in BOOLEAN /\ (l.scrobbled \/ sends) \in BOOLEAN
    BY <1>6, <1>8 DEF ListenType
  <2> QED BY <1>6, <2>1 DEF ListenType
<1>10. listens' = [listens EXCEPT ![session] = m] /\ (sends => sent' = [sent EXCEPT ![session] = @ + 1])
       /\ (~sends => sent' = sent)
  BY <1>3
<1> HIDE DEF l, m, sends
<1>11. /\ listens' \in Seq(ListenType) /\ Len(listens') = Len(listens) /\ DOMAIN listens' = DOMAIN listens
       /\ \A i \in DOMAIN listens : listens'[i] = IF i = session THEN m ELSE listens[i]
  BY <1>1, <1>2, <1>9, <1>10, ExceptSeq
<1>12. /\ sent' \in [1..Len(listens) -> Nat] /\ \A i \in DOMAIN listens : i # session => sent'[i] = sent[i]
       /\ sends => sent'[session] = 1
       /\ ~sends => sent' = sent
  BY <1>1, <1>2, <1>8, <1>10
<1>13. \A i \in DOMAIN listens :
         \/ /\ listens'[i].scrobbled = listens[i].scrobbled /\ sent'[i] = sent[i]
            /\ \/ listens'[i].max = listens[i].max
               \/ Fresh(i) /\ (listens[i].max = Half => listens'[i].max = Half)
         \/ sent'[i] = 1 /\ listens'[i].scrobbled = TRUE /\ listens'[i].max = Half
  <2>1. CASE sends
    <3>1. m.scrobbled = TRUE /\ m.max = Half
      BY <1>8, <1>9, <2>1
    <3> QED BY <1>2, <1>11, <1>12, <2>1, <3>1
  <2>2. CASE ~sends
    <3>1. m.scrobbled = listens[session].scrobbled
      <4>1. l.scrobbled \in BOOLEAN
        BY <1>6 DEF ListenType
      <4> QED BY <1>6, <1>9, <2>2, <4>1
    <3> QED BY <1>2, <1>6, <1>9, <1>11, <1>12, <2>2, <3>1
  <2> QED BY <2>1, <2>2
<1>14. \A i \in DOMAIN listens : listens'[i].track = listens[i].track /\ listens'[i].play = listens[i].play
  BY <1>6, <1>9, <1>11
<1>15. /\ ListensSound' /\ OneRowPerListen' /\ OneListenPerPlay' /\ WorldSound'
       /\ OpenIfHeard' /\ SameTrack' /\ (OfThisPlay' <=> OfThisPlay)
  BY <1>4, <1>11, <1>13, <1>14, ListensKept
<1>16. Carries'
  BY <1>4, <1>15 DEF TrackerSound, Carries, Now
<1>17. NoLater'
  <2>1. SUFFICES ASSUME Alive, OfThisPlay, ~owes PROVE m.reached <= player.pos
    BY <1>2, <1>4, <1>11, <1>15 DEF NoLater, Alive, Now
  <2>2. listens[session].reached <= player.pos
    BY <2>1 DEF TrackerSound, NoLater
  <2>3. BearsWell(s)
    BY DEF TrackerSound
  <2>4. tick[s].play \in 1..play /\ listens[session].play <= tick[s].play /\ play \in Nat
    BY <1>1, <1>2, <2>3, Typed DEF BearsWell, Bearing
  <2>5. tick[s].play = play
    BY <2>1, <2>4 DEF OfThisPlay
  <2>6. tick[s].pos <= player.pos
    BY <1>2, <2>1, <2>3, <2>5 DEF BearsWell, Bearing
  <2> QED BY <1>6, <1>9, <2>2, <2>6
<1>18. /\ pc' \in [Speaker -> {"idle", "ending", "changing", "dropping", "opening", "counting"}]
       /\ tick' \in [Speaker -> TickType] /\ held' \in [Speaker -> 0..Len(listens')]
       /\ pc'[s] = "idle" /\ \A u \in Speaker : u = s
  <2>1. 0 \in 0..Len(listens')
    BY <1>1, <1>11
  <2> QED BY <1>1, <1>4, <2>1, OneSteps DEF Done
<1>19. TypeOK'
  BY <1>1, <1>4, <1>11, <1>12, <1>18 DEF TypeOK, ListenType
<1>20. RowsOf(s)' /\ EndsWell(s)' /\ BearsWell(s)'
  BY <1>2, <1>4, <1>18 DEF RowsOf, EndsWell, BearsWell, Saving, Bearing, Fresh
<1> QED BY <1>15, <1>16, <1>17, <1>18, <1>19, <1>20 DEF TrackerSound

\* A switch falls between ticks: the play is carried to the new output, or over.
LEMMA SwitchKeeps ==
    ASSUME TrackerSound, Switch
    PROVE  TrackerSound'
<1> DEFINE spot == Now({"playing", "paused", "loading", "holding"})
<1>1. /\ \A s \in Speaker : pc[s] = "idle"
      /\ carried' = (spot /\ session # 0)
      /\ player' = [player EXCEPT !.state = IF spot THEN "attaching" ELSE "stopped"]
      /\ UNCHANGED <<play, owes, session, listens, cut, rows, sent, lost, pc, tick, held>>
  BY DEF Switch, reports, threads
<1>2. TypeOK /\ player \in PlayerType
  BY Typed DEF TrackerSound
<1>3. /\ player' \in PlayerType /\ player'.track = player.track /\ player'.pos = player.pos
      /\ player'.state = IF spot THEN "attaching" ELSE "stopped"
  BY <1>1, <1>2 DEF PlayerType
<1>4. (Alive' => spot) /\ (spot => Alive) /\ (Now({"attaching", "holding"})' => spot)
  BY <1>3 DEF Alive, Now
<1>5. TypeOK'
  BY <1>1, <1>2, <1>3 DEF TypeOK, PlayerType, Now
<1>6. OfThisPlay' <=> OfThisPlay
  BY <1>1 DEF OfThisPlay
<1> HIDE DEF spot
<1>7. /\ WorldSound' /\ OpenIfHeard' /\ SameTrack' /\ NoLater'
  BY <1>1, <1>3, <1>4, <1>6 DEF TrackerSound, WorldSound, OpenIfHeard, SameTrack, NoLater
<1>8. Carries'
  BY <1>1, <1>4, <1>6 DEF Carries, OfThisPlay
<1>9. ListensSound' /\ OneRowPerListen' /\ OneListenPerPlay'
  BY <1>1 DEF TrackerSound, ListensSound, OneRowPerListen, NoListenTwice, OneListenPerPlay, Fresh
<1>10. \A s \in Speaker : RowsOf(s)' /\ EndsWell(s)' /\ BearsWell(s)'
  BY <1>1 DEF TrackerSound, RowsOf, EndsWell, BearsWell, Saving, Bearing, Fresh
<1> QED BY <1>5, <1>7, <1>8, <1>9, <1>10 DEF TrackerSound

-----------------------------------------------------------------------------
LEMMA InitSound == Init => TrackerSound
<1> SUFFICES ASSUME Init PROVE TrackerSound
  OBVIOUS
<1>1. /\ listens = <<>> /\ rows = <<>> /\ sent = <<>> /\ session = 0 /\ Len(listens) = 0
      /\ DOMAIN listens = {} /\ Position = 0..3
      /\ player = [state |-> "stopped", track |-> None, pos |-> 0] /\ play = 0
      /\ MaxPlays \in Nat /\ NoTick \in TickType
      /\ \A s \in Speaker : pc[s] = "idle"
  BY TrackerAssumption, NoTickTyped DEF Init, Position, Top, Half
<1>2. rows \in [1..Len(listens) -> Nat] /\ sent \in [1..Len(listens) -> Nat]
  BY <1>1
<1>3. player \in PlayerType
  BY <1>1 DEF PlayerType
<1>4. TypeOK
  <2>1. listens \in Seq(ListenType) /\ session \in 0..Len(listens) /\ lost \subseteq 1..Len(listens)
    BY <1>1 DEF Init
  <2>2. /\ pc \in [Speaker -> {"idle", "ending", "changing", "dropping", "opening", "counting"}]
        /\ tick \in [Speaker -> TickType] /\ held \in [Speaker -> 0..Len(listens)]
    BY <1>1 DEF Init
  <2>3. play \in 0..MaxPlays /\ owes \in BOOLEAN /\ carried \in BOOLEAN /\ cut \subseteq 0..MaxPlays
    <3>1. play \in 0..MaxPlays /\ cut \subseteq 0..MaxPlays
      BY <1>1 DEF Init
    <3> QED BY <3>1 DEF Init
  <2> QED BY <1>2, <1>3, <2>1, <2>2, <2>3 DEF TypeOK, PlayerType, ListenType
<1> QED BY <1>1, <1>4 DEF TrackerSound, WorldSound, ListensSound, OpenIfHeard, SameTrack, NoLater,
           Carries, OneRowPerListen, NoListenTwice, OneListenPerPlay, RowsOf, EndsWell, BearsWell,
           Saving, Bearing, Alive, Now, OfThisPlay

LEMMA StepSound ==
    ASSUME OneThread, TrackerSound, [Next]_vars
    PROVE  TrackerSound'
<1>1. CASE World
  BY <1>1, WorldKeeps
<1>2. ASSUME NEW s \in Speaker, Speaks(s) PROVE TrackerSound'
  <2>1. ASSUME NEW t \in Said, Keep(s, t) \/ End(s, t) \/ Pass(s, t) \/ Change(s, t) \/ GoOn(s, t)
        PROVE  TrackerSound'
    BY <2>1, KeepKeeps, EndKeeps, PassKeeps, ChangeKeeps, GoOnKeeps
  <2>2. CASE Save(s)
    BY <2>2, SaveKeeps
  <2>3. CASE Drop(s)
    BY <2>3, DropKeeps
  <2>4. CASE Open(s)
    BY <2>4, OpenKeeps
  <2>5. CASE Count(s)
    BY <2>5, CountKeeps
  <2> QED BY <1>2, <2>1, <2>2, <2>3, <2>4, <2>5 DEF Speaks
<1>3. CASE Switch
  BY <1>3, SwitchKeeps
<1>4. CASE UNCHANGED vars
  BY <1>4 DEF vars, world, tracker, reports, threads, TrackerSound, TypeOK, WorldSound, ListensSound,
     OpenIfHeard, SameTrack, NoLater, Carries, OneRowPerListen, NoListenTwice, OneListenPerPlay,
     RowsOf, EndsWell, BearsWell, Saving, Bearing, Alive, Now, OfThisPlay, Fresh, Completed, ScrobbleReady
<1> QED BY <1>1, <1>2, <1>3, <1>4 DEF Next

-----------------------------------------------------------------------------
\* The tracker keeps its invariant through every tick, correction and switch.
THEOREM TrackerIsSound == OneThread /\ Spec => []TrackerSound
<1>1. ASSUME OneThread PROVE Init => TrackerSound
  BY InitSound
<1>2. ASSUME OneThread PROVE TrackerSound /\ [Next]_vars => TrackerSound'
  BY <1>2, StepSound
<1>3. OneThread => (Spec => []TrackerSound)
  <2> SUFFICES ASSUME OneThread PROVE Spec => []TrackerSound
    OBVIOUS
  <2> QED BY <1>1, <1>2, PTL DEF Spec
<1> QED BY <1>3

\* Every variable of the tracker holds a value of its kind.
THEOREM TrackerTypeCorrect == OneThread /\ Spec => []TypeOK
<1>1. TrackerSound => TypeOK
  BY DEF TrackerSound
<1> QED BY <1>1, TrackerIsSound, PTL

\* A listen that is over has exactly one row in listening_history, or the
\* database refused it (_save_listen on every way a listen ends).
THEOREM ListenHasOneRow == OneThread /\ Spec => []OneRowPerListen
<1>1. TrackerSound => OneRowPerListen
  BY DEF TrackerSound
<1> QED BY <1>1, TrackerIsSound, PTL

\* A play that is paused, reloaded, corrected, moved by a queue edit or carried
\* over to another output stays one listen (_interrupts, _restarted, carry_listen).
THEOREM PlayIsOneListen == OneThread /\ Spec => []OneListenPerPlay
<1>1. TrackerSound => OneListenPerPlay
  BY DEF TrackerSound
<1> QED BY <1>1, TrackerIsSound, PTL

\* Last.fm hears of a listen once, when it was long enough (the session's
\* scrobbled flag, on the tick past half and on the row's save).
THEOREM ListenIsScrobbledOnce == OneThread /\ Spec => []ScrobbledOnce
<1>1. TrackerSound => ScrobbledOnce
  BY DEF TrackerSound, ListensSound, ScrobbledOnce
<1> QED BY <1>1, TrackerIsSound, PTL
=============================================================================
