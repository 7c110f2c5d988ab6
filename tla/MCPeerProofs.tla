---------------------------- MODULE MCPeerProofs ----------------------------
(***************************************************************************)
(* Theorems of OutputSwitch and WakeStreams, and those of the other parts, *)
(* for the node that has them all: a behaviour of the node is one of the   *)
(* part it starts in, and what is proved of the part holds in it.          *)
(***************************************************************************)
EXTENDS MCPeer, SequenceTheorems, FiniteSetTheorems, TLAPS

-----------------------------------------------------------------------------
(* OutputSwitch, for every set of outputs and requests.  One invariant,    *)
(* SwitchSound: the place a change carries is the last one named; what was *)
(* said of the spot is in the status, or with the change; and an output    *)
(* that inherited the listen stands where the listen is, or will be told to.*)

BackendType == [out : Output \cup {None}, here : BOOLEAN, well : BOOLEAN, slot : Switch!Slot0,
                state : {"attaching", "holding", "playing", "paused", "stopped"},
                heir : BOOLEAN, told : BOOLEAN]
WordType == [state : {"playing", "paused", "stopped", "disconnected"}, slot : Switch!Slot0,
             resume : Switch!Slot0]
RequestType == [pc : {"idle", "press", "off", "lent", "on", "start", "resume", "say"},
                what : {"none", "switch", "press", "scan", "hold"}, to : Output \cup {None},
                again : BOOLEAN, spot : Switch!Slot0, prev : Switch!Slot0, inst : Nat]

\* A play intent has an output it took; the one being changed is there from its
\* attach on, and stands nowhere until it is told to.
RequestsTyped ==
    /\ req \in [Request -> RequestType]
    /\ \A r \in Request :
         /\ req[r].pc = "press" => req[r].inst \in 1..Len(inst)
         /\ req[r].pc \in {"start", "resume", "say"} => Switch!Here
         /\ req[r].pc = "on" => ~Switch!Here
    /\ \A n \in 1..Len(inst) : inst[n].state = "attaching" => inst[n].slot = 0

\* A lent output is attached to nothing, and one job has it.
LentIsOnes ==
    /\ hold = "lent" => ~Switch!Here /\ turn = None
    /\ \A r \in Request : req[r].pc = "lent" => hold = "lent" /\ req[r].spot = 0 /\ ~req[r].again
    /\ \A r, s \in Request : req[r].pc = "lent" /\ req[s].pc = "lent" => r = s
    /\ \A r \in Request : req[r].pc = "off" /\ req[r].what = "hold" => ~req[r].again

\* r is between the reading of the spot and the place the new output is told.
Carries(r) ==
    \/ req[r].pc \in {"off", "on"}
    \/ req[r].pc \in {"start", "resume"} /\ inst[active].state = "attaching"

\* The place read before the locks moved is still the last one named.
StandsAtLast ==
    /\ stood.slot = lastSlot
    /\ "stray" \notin excused =>
         /\ Switch!SpotOf(latest) \in {0, lastSlot}
         /\ \A r \in Request :
              /\ Carries(r) => req[r].spot \in {0, lastSlot}
              /\ Carries(r) /\ req[r].pc # "off" /\ (req[r].pc = "on" => req[r].again) =>
                     req[r].prev = lastSlot
    /\ \A r \in Request : req[r].pc = "start" /\ inst[active].out \in Rendered =>
           inst[active].state = "attaching"

\* What was said of the spot is in the latest status once the output has said
\* it, and with the change while one is under way.
SpotIsKept ==
    /\ \A n \in 1..Len(inst) : inst[n].told =>
           inst[n].slot >= 1 \/ (~inst[n].well /\ inst[n].out = Lendable)
    /\ excused = {} /\ stood.spot =>
         /\ hold # "lent"
         /\ \A r \in Request : req[r].pc \in {"off", "on"} => req[r].spot >= 1
         /\ \A r \in Request : req[r].pc = "start" /\ inst[active].state = "attaching" =>
                req[r].spot >= 1
         /\ (\A r \in Request : req[r].pc \notin {"off", "on"}) /\ (Switch!Here => inst[active].told) =>
                Switch!SpotOf(latest) >= 1

\* An output nobody asked anything of is the carried listen's.
HeirListens ==
    excused = {} /\ Switch!Here /\ inst[active].heir =>
        /\ carried /\ listen # 0 /\ listen = stood.slot
        /\ inst[active].state \in {"attaching", "holding"}
        /\ inst[active].state = "holding" => inst[active].slot = listen
        /\ \A r \in Request : req[r].pc \in {"start", "resume"} => inst[active].state = "attaching"

SwitchTyped == Switch!SwitchTypeOK /\ RequestsTyped
SwitchSound == SwitchTyped /\ LentIsOnes /\ StandsAtLast /\ SpotIsKept /\ HeirListens

-----------------------------------------------------------------------------
LEMMA Facts ==
    ASSUME Switch!SwitchAssumption, SwitchTyped
    PROVE  /\ inst \in Seq(BackendType) /\ Len(inst) \in Nat /\ active \in 0..Len(inst)
           /\ \A n \in 1..Len(inst) : inst[n] \in BackendType
           /\ Switch!Here => active \in 1..Len(inst) /\ inst[active] \in BackendType
           /\ latest \in WordType /\ lastSlot \in Switch!Slot0 /\ listen \in Switch!Slot0 /\ carried \in BOOLEAN
           /\ stale = Switch!NoWord \/ stale \in WordType
           /\ req \in [Request -> RequestType] /\ \A r \in Request : req[r] \in RequestType
           /\ turn \in Request \cup {None} /\ hold \in {"no", "taken", "lent", "back"}
           /\ stood \in [slot : Switch!Slot0, spot : BOOLEAN] /\ excused \subseteq {"stray", "unsaid"}
           /\ 0 \in Switch!Slot0 /\ 1 \in Switch!Slot0 /\ \A s \in Switch!Slot0 : s \in Int
<1>1. inst \in Seq(BackendType) /\ latest \in WordType /\ (stale = Switch!NoWord \/ stale \in WordType)
  BY DEF SwitchTyped, Switch!SwitchTypeOK, BackendType, WordType
<1>2. Len(inst) \in Nat /\ \A n \in 1..Len(inst) : inst[n] \in BackendType
  BY <1>1
<1>3. 0 \in Switch!Slot0 /\ 1 \in Switch!Slot0 /\ \A s \in Switch!Slot0 : s \in Int
  BY DEF Switch!SwitchAssumption, Switch!Slot0
<1>4. active \in 0..Len(inst)
  BY DEF SwitchTyped, Switch!SwitchTypeOK
<1>5. Switch!Here => active \in 1..Len(inst) /\ inst[active] \in BackendType
  BY <1>2, <1>4 DEF Switch!Here
<1> QED BY <1>1, <1>2, <1>3, <1>4, <1>5 DEF SwitchTyped, Switch!SwitchTypeOK, RequestsTyped

\* Only what is lost says it is disconnected, only what stands nowhere names no
\* slot, and the spot of a word is its slot.
LEMMA SaysIs ==
    ASSUME Switch!SwitchAssumption, NEW b \in BackendType
    PROVE  /\ Switch!Says(b) \in WordType /\ Switch!SpotOf(Switch!Says(b)) \in {0, Switch!Says(b).slot}
           /\ Switch!Says(b).slot \in {0, b.slot}
           /\ ~b.well /\ b.out = Lendable => Switch!Says(b).state = "disconnected"
           /\ \/ ~b.well /\ b.out = Lendable /\ Switch!Says(b).state = "disconnected" /\ Switch!Says(b).slot = 0
              \/ b.state = "attaching" /\ Switch!Says(b) = Switch!Word("stopped", 0, 0)
              \/ /\ b.state = "holding"
                 /\ Switch!Says(b) = Switch!Word("paused", b.slot, 0) \/ Switch!Says(b) = Switch!Word("stopped", b.slot, b.slot)
              \/ /\ b.state \in {"playing", "paused", "stopped"}
                 /\ Switch!Says(b) = Switch!Word(b.state, b.slot, 0)
<1>1. 0 \in Switch!Slot0 /\ b.slot \in Switch!Slot0
  BY DEF Switch!SwitchAssumption, Switch!Slot0, BackendType
<1>2. CASE ~b.well /\ b.out = Lendable
  <2>1. Switch!Says(b) = Switch!Word("disconnected", 0, 0)
    BY <1>2 DEF Switch!Says
  <2> QED BY <1>1, <1>2, <2>1 DEF Switch!Word, WordType, Switch!SpotOf
<1>3. CASE ~(~b.well /\ b.out = Lendable)
  <2>1. CASE b.state = "attaching"
    <3>1. Switch!Says(b) = Switch!Word("stopped", 0, 0)
      BY <1>3, <2>1 DEF Switch!Says
    <3> QED BY <1>1, <1>3, <2>1, <3>1 DEF Switch!Word, WordType, Switch!SpotOf
  <2>2. CASE b.state = "holding"
    <3>1. Switch!Says(b) = Switch!Word("paused", b.slot, 0) \/ Switch!Says(b) = Switch!Word("stopped", b.slot, b.slot)
      BY <1>3, <2>2 DEF Switch!Says
    <3> QED BY <1>1, <1>3, <2>2, <3>1 DEF Switch!Word, WordType, Switch!SpotOf
  <2>3. CASE b.state \in {"playing", "paused", "stopped"}
    <3>1. Switch!Says(b) = Switch!Word(b.state, b.slot, 0)
      BY <1>3, <2>3 DEF Switch!Says
    <3> QED BY <1>1, <1>3, <2>3, <3>1 DEF Switch!Word, WordType, Switch!SpotOf
  <2> QED BY <2>1, <2>2, <2>3 DEF BackendType
<1> QED BY <1>2, <1>3

LEMMA AtIs ==
    ASSUME Switch!SwitchAssumption, SwitchTyped, NEW r \in Request, NEW q \in RequestType, Switch!At(r, q)
    PROVE  /\ req' \in [Request -> RequestType] /\ req'[r] = q
           /\ \A s \in Request : s # r => req'[s] = req[s]
BY Facts DEF Switch!At

LEMMA IdleIs ==
    ASSUME Switch!SwitchAssumption
    PROVE  /\ Switch!Idle \in RequestType /\ Switch!Idle.pc = "idle" /\ Switch!Idle.what = "none" /\ Switch!Idle.spot = 0
           /\ Switch!Idle.inst = 0
BY DEF Switch!Idle, RequestType, Switch!SwitchAssumption, Switch!Slot0

LEMMA PressingIs ==
    ASSUME Switch!SwitchAssumption, SwitchTyped
    PROVE  Switch!Pressing \in RequestType /\ Switch!Pressing.pc = "press" /\ Switch!Pressing.inst = active
<1>1. active \in Nat
  BY Facts
<1> QED BY <1>1, IdleIs DEF Switch!Pressing, RequestType

LEMMA AttachedIs ==
    ASSUME Switch!SwitchAssumption, NEW o \in Output \cup {None}
    PROVE  /\ Switch!Attached(o) \in BackendType /\ Switch!Attached(o).out = o /\ Switch!Attached(o).here = TRUE
           /\ Switch!Attached(o).state = "attaching" /\ Switch!Attached(o).slot = 0 /\ Switch!Attached(o).heir = FALSE
           /\ Switch!Attached(o).told = FALSE /\ Switch!Attached(o).well = TRUE
<1>1. 0 \in Switch!Slot0
  BY DEF Switch!SwitchAssumption, Switch!Slot0
<1> QED BY <1>1 DEF Switch!Attached, BackendType

LEMMA NewBackend ==
    ASSUME Switch!SwitchAssumption, NEW o \in Output \cup {None}, NEW h \in BOOLEAN
    PROVE  LET b == [Switch!Attached(o) EXCEPT !.heir = h]
           IN  /\ b \in BackendType /\ b.out = o /\ b.here = TRUE /\ b.state = "attaching"
               /\ b.slot = 0 /\ b.heir = h /\ b.told = FALSE /\ b.well = TRUE
<1>1. ASSUME NEW b \in BackendType
      PROVE  LET d == [b EXCEPT !.heir = h]
             IN  /\ d \in BackendType /\ d.out = b.out /\ d.here = b.here /\ d.state = b.state
                 /\ d.slot = b.slot /\ d.heir = h /\ d.told = b.told /\ d.well = b.well
  BY DEF BackendType
<1> DEFINE b == Switch!Attached(o)
<1>2. /\ b \in BackendType /\ b.out = o /\ b.here = TRUE /\ b.state = "attaching"
      /\ b.slot = 0 /\ b.told = FALSE /\ b.well = TRUE
  BY AttachedIs
<1> HIDE DEF b, BackendType
<1>3. /\ [b EXCEPT !.heir = h] \in BackendType /\ [b EXCEPT !.heir = h].out = o
      /\ [b EXCEPT !.heir = h].here = TRUE /\ [b EXCEPT !.heir = h].state = "attaching"
      /\ [b EXCEPT !.heir = h].slot = 0 /\ [b EXCEPT !.heir = h].heir = h
      /\ [b EXCEPT !.heir = h].told = FALSE /\ [b EXCEPT !.heir = h].well = TRUE
  BY <1>1, <1>2
<1> QED BY ONLY <1>3 DEF b

LEMMA LetGoIs ==
    ASSUME Switch!SwitchAssumption
    PROVE  /\ Switch!LetGo \in BackendType /\ Switch!LetGo.here = FALSE /\ Switch!LetGo.state = "attaching"
           /\ Switch!LetGo.slot = 0 /\ Switch!LetGo.heir = FALSE /\ Switch!LetGo.told = FALSE
<1> DEFINE b == Switch!Attached(None)
<1>1. None \in Output \cup {None}
  OBVIOUS
<1>2. b \in BackendType /\ b.state = "attaching" /\ b.slot = 0 /\ b.heir = FALSE /\ b.told = FALSE
  BY <1>1, AttachedIs
<1>3. Switch!LetGo = [b EXCEPT !.here = FALSE]
  BY DEF Switch!LetGo
<1> HIDE DEF b
<1> QED BY <1>2, <1>3 DEF BackendType

\* The attached output moves.
LEMMA GoesIs ==
    ASSUME Switch!SwitchAssumption, SwitchTyped, Switch!Here, NEW b \in BackendType, b.here, Switch!Goes(b)
    PROVE  /\ inst' \in Seq(BackendType) /\ Len(inst') = Len(inst) /\ inst'[active] = b
           /\ \A n \in 1..Len(inst) : n # active => inst'[n] = inst[n]
           /\ \A n \in 1..Len(inst) : inst'[n].here <=> n = active
<1>1. inst \in Seq(BackendType) /\ active \in 1..Len(inst)
  BY Facts
<1>2. inst' = [inst EXCEPT ![active] = b]
  BY DEF Switch!Goes
<1>3. inst' \in Seq(BackendType) /\ Len(inst') = Len(inst) /\ inst'[active] = b
      /\ \A n \in 1..Len(inst) : n # active => inst'[n] = inst[n]
  BY <1>1, <1>2
<1>4. \A n \in 1..Len(inst) : inst[n].here <=> n = active
  BY DEF SwitchTyped, Switch!SwitchTypeOK
<1> QED BY <1>3, <1>4

LEMMA DetachedIs ==
    ASSUME Switch!SwitchAssumption, SwitchTyped
    PROVE  /\ Switch!Detached \in Seq(BackendType) /\ Len(Switch!Detached) = Len(inst)
           /\ \A n \in 1..Len(inst) : Switch!Detached[n] = inst[n] \/ Switch!Detached[n] = Switch!LetGo
           /\ \A n \in 1..Len(inst) : ~Switch!Detached[n].here
<1>1. inst \in Seq(BackendType)
  BY Facts
<1>2. \A n \in 1..Len(inst) : inst[n].here <=> n = active
  BY DEF SwitchTyped, Switch!SwitchTypeOK
<1>3. CASE Switch!Here
  <2>1. active \in 1..Len(inst) /\ Switch!Detached = [inst EXCEPT ![active] = Switch!LetGo]
    BY <1>3, Facts DEF Switch!Detached
  <2>2. Switch!Detached \in Seq(BackendType) /\ Len(Switch!Detached) = Len(inst) /\ Switch!Detached[active] = Switch!LetGo
        /\ \A n \in 1..Len(inst) : n # active => Switch!Detached[n] = inst[n]
    BY <1>1, <2>1, LetGoIs
  <2> QED BY <1>2, <2>1, <2>2, LetGoIs
<1>4. CASE ~Switch!Here
  BY <1>1, <1>2, <1>4 DEF Switch!Detached, Switch!Here
<1> QED BY <1>3, <1>4

LEMMA AppendedIs ==
    ASSUME Switch!SwitchAssumption, SwitchTyped, ~Switch!Here, NEW b \in BackendType, b.here
    PROVE  LET i == Append(inst, b)
           IN  /\ i \in Seq(BackendType) /\ Len(i) = Len(inst) + 1 /\ i[Len(inst) + 1] = b
               /\ \A n \in 1..Len(inst) : i[n] = inst[n]
               /\ \A n \in 1..Len(i) : i[n].here <=> n = Len(inst) + 1
<1>1. inst \in Seq(BackendType) /\ Len(inst) \in Nat
  BY Facts
<1>2. \A n \in 1..Len(inst) : ~inst[n].here
  BY DEF SwitchTyped, Switch!SwitchTypeOK, Switch!Here
<1> DEFINE i == Append(inst, b)
<1>3. i \in Seq(BackendType) /\ Len(i) = Len(inst) + 1 /\ i[Len(inst) + 1] = b
      /\ \A n \in 1..Len(inst) : i[n] = inst[n]
  BY <1>1
<1> HIDE DEF i
<1>4. \A n \in 1..Len(i) : n \in 1..Len(inst) \/ n = Len(inst) + 1
  BY <1>1, <1>3
<1>5. \A n \in 1..Len(i) : i[n].here <=> n = Len(inst) + 1
  BY <1>1, <1>2, <1>3, <1>4
<1> QED BY <1>3, <1>5 DEF i

-----------------------------------------------------------------------------
\* The attached output plays, stops or is lost, for itself or for whom it
\* obeys: it never comes to stand nowhere again, and says nothing by it.
LEMMA BackendMoves ==
    ASSUME Switch!SwitchAssumption, SwitchSound, Switch!Here, NEW b \in BackendType, Switch!Goes(b), b.here,
           b.out = inst[active].out,
           b.state = "attaching" => inst[active].state = "attaching" /\ b.slot = 0,
           b.told => inst[active].told /\ (b.slot >= 1 \/ (~b.well /\ b.out = Lendable)),
           b.heir => /\ inst[active].heir
                     /\ inst[active].state \in {"attaching", "holding"} =>
                            b.state = inst[active].state /\ b.slot = inst[active].slot,
           UNCHANGED <<active, chosen, Switch!status, Switch!tracker, stale, turn, hold, stood, excused>>,
           req' \in [Request -> RequestType],
           \A r \in Request :
               \/ req'[r] = req[r]
               \/ /\ req[r].pc = "start" /\ req'[r].pc = "resume" /\ req'[r].spot = req[r].spot
                  /\ req'[r].prev = req[r].prev
               \/ req[r].pc = "press" /\ req'[r].pc = "idle",
           \A r \in Request : req'[r].pc = "start" /\ b.out \in Rendered =>
               b.state = inst[active].state
    PROVE  SwitchSound'
<1>1. /\ Switch!SwitchTypeOK /\ RequestsTyped /\ LentIsOnes /\ StandsAtLast /\ SpotIsKept /\ HeirListens
      /\ SwitchTyped
  BY DEF SwitchSound, SwitchTyped
<1>2. /\ active \in 1..Len(inst) /\ req \in [Request -> RequestType]
      /\ UNCHANGED <<latest, lastSlot, carried, listen>>
  BY <1>1, Facts DEF Switch!status, Switch!tracker
<1>3. /\ inst' \in Seq(BackendType) /\ Len(inst') = Len(inst) /\ inst'[active] = b
      /\ \A n \in 1..Len(inst) : n # active => inst'[n] = inst[n]
      /\ \A n \in 1..Len(inst) : inst'[n].here <=> n = active
  BY <1>1, GoesIs
<1>4. Switch!Here' /\ inst'[active'] = b
  BY <1>3 DEF Switch!Here
<1>5. Switch!SwitchTypeOK'
  BY <1>1, <1>2, <1>3 DEF Switch!SwitchTypeOK, BackendType
<1>6. RequestsTyped'
  BY <1>1, <1>2, <1>3, <1>4 DEF RequestsTyped
<1>7. LentIsOnes'
  <2>1. hold # "lent"
    BY <1>1 DEF LentIsOnes
  <2> QED BY <1>1, <2>1 DEF LentIsOnes
<1>8. StandsAtLast'
  <2>1. \A r \in Request : Carries(r)' => /\ Carries(r) /\ req'[r].spot = req[r].spot
                                          /\ req'[r].prev = req[r].prev
                                          /\ (req'[r].pc = "off" <=> req[r].pc = "off")
                                          /\ (req'[r].pc = "on" => req'[r] = req[r])
                                          /\ (req[r].pc = "on" => req'[r] = req[r])
    BY <1>4 DEF Carries
  <2>2. \A r \in Request : req'[r].pc = "start" => req'[r] = req[r]
    OBVIOUS
  <2>3. Switch!SpotOf(latest)' = Switch!SpotOf(latest)
    BY <1>2 DEF Switch!SpotOf
  <2> QED BY <1>1, <1>2, <1>4, <2>1, <2>2, <2>3 DEF StandsAtLast
<1>9. SpotIsKept'
  <2>1. \A n \in 1..Len(inst) : inst'[n].told =>
            inst'[n].slot >= 1 \/ (~inst'[n].well /\ inst'[n].out = Lendable)
    BY <1>1, <1>3 DEF SpotIsKept
  <2>2. Switch!SpotOf(latest)' = Switch!SpotOf(latest)
    BY <1>2 DEF Switch!SpotOf
  <2>3. \A r \in Request : /\ req'[r].pc \in {"off", "on"} <=> req[r].pc \in {"off", "on"}
                           /\ req'[r].pc \in {"off", "on", "start"} => req'[r] = req[r]
    OBVIOUS
  <2> QED BY <1>1, <1>3, <1>4, <2>1, <2>2, <2>3 DEF SpotIsKept
<1>10. HeirListens'
  <2> SUFFICES ASSUME excused = {}, b.heir
               PROVE  /\ carried /\ listen # 0 /\ listen = stood.slot
                      /\ b.state \in {"attaching", "holding"}
                      /\ b.state = "holding" => b.slot = listen
                      /\ \A r \in Request : req'[r].pc \in {"start", "resume"} => b.state = "attaching"
    BY <1>2, <1>4 DEF HeirListens
  <2>1. /\ carried /\ listen # 0 /\ listen = stood.slot
        /\ inst[active].state \in {"attaching", "holding"}
        /\ inst[active].state = "holding" => inst[active].slot = listen
        /\ \A r \in Request : req[r].pc \in {"start", "resume"} => inst[active].state = "attaching"
    BY <1>1 DEF HeirListens
  <2> QED BY <2>1
<1> QED BY <1>5, <1>6, <1>7, <1>8, <1>9, <1>10 DEF SwitchSound, SwitchTyped

LEMMA WorldSteps ==
    ASSUME Switch!SwitchAssumption, SwitchSound, Switch!World
    PROVE  SwitchSound'
<1>1. /\ Switch!Fit /\ Switch!Here /\ SwitchTyped /\ RequestsTyped /\ SpotIsKept
      /\ UNCHANGED <<active, chosen, Switch!status, Switch!tracker, stale, turn, req, hold, stood, excused>>
  BY DEF Switch!World, Switch!Fit, SwitchSound, SwitchTyped
<1> DEFINE o == inst[active]
<1>2. o \in BackendType /\ active \in 1..Len(inst) /\ req \in [Request -> RequestType]
  BY <1>1, Facts
<1>3. o.here /\ (o.state = "attaching" => o.slot = 0)
      /\ (o.told => o.slot >= 1 \/ (~o.well /\ o.out = Lendable))
  BY <1>1, <1>2 DEF SwitchTyped, Switch!SwitchTypeOK, RequestsTyped, SpotIsKept
<1>4. \A r \in Request : o.out \in Rendered => req[r].pc # "start"
  BY <1>1 DEF Switch!Fit, Switch!HasDevice
<1> HIDE DEF o
<1>5. ASSUME NEW b \in BackendType, Switch!Goes(b), b.here = o.here, b.out = o.out, b.told = o.told,
             b.state = "attaching" => o.state = "attaching" /\ b.slot = o.slot,
             b.slot = o.slot \/ b.slot = o.slot + 1, b.well => o.well,
             b.heir => /\ o.heir
                       /\ o.state \in {"attaching", "holding"} => b.state = o.state /\ b.slot = o.slot
      PROVE  SwitchSound'
  <2>1. b.slot \in Int /\ o.slot \in Int
    BY <1>1, <1>2, Facts DEF BackendType
  <2>2. b.told => o.told /\ (b.slot >= 1 \/ (~b.well /\ b.out = Lendable))
    BY <1>3, <1>5, <2>1
  <2> QED BY <1>1, <1>2, <1>3, <1>4, <1>5, <2>2, BackendMoves DEF o
<1>6. CASE Switch!PlaysOn
  <2>1. CASE o.state = "playing" /\ o.slot < Slots /\ Switch!Goes([o EXCEPT !.slot = @ + 1])
    <3> DEFINE b == [o EXCEPT !.slot = @ + 1]
    <3>1. o.slot + 1 \in Switch!Slot0
      BY <1>2, <2>1 DEF Switch!SwitchAssumption, Switch!Slot0, BackendType
    <3>2. /\ b \in BackendType /\ b.here = o.here /\ b.out = o.out /\ b.told = o.told
          /\ b.state = o.state /\ b.slot = o.slot + 1 /\ b.well = o.well /\ b.heir = o.heir
      BY <1>2, <3>1 DEF BackendType
    <3>3. Switch!Goes(b)
      BY <2>1
    <3> HIDE DEF b
    <3> QED BY <1>5, <2>1, <3>2, <3>3
  <2>2. CASE o.state = "playing" /\ Switch!Goes([o EXCEPT !.state = "paused"])
    <3> DEFINE b == [o EXCEPT !.state = "paused"]
    <3>1. /\ b \in BackendType /\ b.here = o.here /\ b.out = o.out /\ b.told = o.told
          /\ b.state = "paused" /\ b.slot = o.slot /\ b.well = o.well /\ b.heir = o.heir
      BY <1>2 DEF BackendType
    <3>2. Switch!Goes(b)
      BY <2>2
    <3> HIDE DEF b
    <3> QED BY <1>5, <2>2, <3>1, <3>2
  <2> QED BY <1>6, <2>1, <2>2 DEF Switch!PlaysOn, o
<1>7. CASE Switch!Stop
  <2> DEFINE b == [o EXCEPT !.state = "stopped", !.heir = FALSE]
  <2>1. Switch!Goes(b)
    BY <1>7 DEF Switch!Stop, o
  <2>2. /\ b \in BackendType /\ b.here = o.here /\ b.out = o.out /\ b.told = o.told
        /\ b.state = "stopped" /\ b.slot = o.slot /\ b.well = o.well /\ b.heir = FALSE
    BY <1>2 DEF BackendType
  <2> HIDE DEF b
  <2> QED BY <1>5, <2>1, <2>2
<1>8. CASE Switch!Lose
  <2> DEFINE st == IF o.state \in {"playing", "paused"} THEN "holding" ELSE o.state
             b == [o EXCEPT !.well = FALSE, !.state = st]
  <2>1. [o EXCEPT !.well = FALSE, !.state = IF @ \in {"playing", "paused"}
                                             THEN "holding" ELSE @] = b
    BY <1>2 DEF BackendType
  <2>2. Switch!Goes(b)
    BY <1>8, <2>1 DEF Switch!Lose, o
  <2>3. st \in {"attaching", "holding", "playing", "paused", "stopped"}
    BY <1>2 DEF BackendType
  <2>4. st = "attaching" => o.state = "attaching"
    OBVIOUS
  <2>5. o.state \in {"attaching", "holding"} => st = o.state
    OBVIOUS
  <2> HIDE DEF st
  <2>6. /\ b \in BackendType /\ b.here = o.here /\ b.out = o.out /\ b.told = o.told
        /\ b.state = st /\ b.slot = o.slot /\ b.well = FALSE /\ b.heir = o.heir
    BY <1>2, <2>3 DEF BackendType
  <2> HIDE DEF b
  <2> QED BY <1>5, <2>2, <2>4, <2>5, <2>6
<1> QED BY <1>6, <1>7, <1>8 DEF Switch!World

\* A play intent takes an output, or is done with it.
LEMMA RequestTurns ==
    ASSUME Switch!SwitchAssumption, SwitchSound, NEW r \in Request, NEW q \in RequestType, Switch!At(r, q),
           req[r].pc \in {"idle", "press"}, q.pc \in {"idle", "press"},
           q.pc = "press" => q.inst \in 1..Len(inst),
           UNCHANGED <<Switch!outputs, Switch!status, Switch!tracker, stale, turn, hold, stood, excused>>
    PROVE  SwitchSound'
<1>1. /\ Switch!SwitchTypeOK /\ RequestsTyped /\ LentIsOnes /\ StandsAtLast /\ SpotIsKept /\ HeirListens
      /\ SwitchTyped
  BY DEF SwitchSound, SwitchTyped
<1>2. UNCHANGED <<inst, active, chosen, latest, lastSlot, carried, listen>>
  BY DEF Switch!outputs, Switch!status, Switch!tracker
<1>3. /\ req' \in [Request -> RequestType] /\ req'[r] = q
      /\ \A s \in Request : s # r => req'[s] = req[s]
  BY <1>1, AtIs
<1>4. Switch!SpotOf(latest)' = Switch!SpotOf(latest) /\ Switch!Here' = Switch!Here
  BY <1>2 DEF Switch!SpotOf, Switch!Here
<1>5. Switch!SwitchTypeOK'
  BY <1>1, <1>2, <1>3 DEF Switch!SwitchTypeOK, BackendType
<1>6. RequestsTyped'
  BY <1>1, <1>2, <1>3, <1>4 DEF RequestsTyped
<1>7. LentIsOnes'
  BY <1>1, <1>3, <1>4 DEF LentIsOnes
<1>8. StandsAtLast'
  BY <1>1, <1>2, <1>3, <1>4 DEF StandsAtLast, Carries
<1>9. SpotIsKept'
  BY <1>1, <1>2, <1>3, <1>4 DEF SpotIsKept
<1>10. HeirListens'
  BY <1>1, <1>2, <1>3, <1>4 DEF HeirListens
<1> QED BY <1>5, <1>6, <1>7, <1>8, <1>9, <1>10 DEF SwitchSound, SwitchTyped

LEMMA TakeOutputSteps ==
    ASSUME Switch!SwitchAssumption, SwitchSound, NEW r \in Request, Switch!TakeOutput(r)
    PROVE  SwitchSound'
<1>1. /\ Switch!At(r, Switch!Pressing) /\ req[r] = Switch!Idle /\ Switch!Here
      /\ UNCHANGED <<Switch!outputs, Switch!status, Switch!tracker, stale, turn, hold, stood, excused>>
  BY DEF Switch!TakeOutput, Switch!Fit
<1>2. Switch!Pressing \in RequestType /\ Switch!Pressing.pc = "press" /\ Switch!Pressing.inst \in 1..Len(inst)
  BY <1>1, PressingIs, Facts DEF SwitchSound
<1> HIDE DEF Switch!Pressing
<1> QED BY <1>1, <1>2, IdleIs, RequestTurns

\* What is asked of an output that was let go reaches nobody.
LEMMA CommandSteps ==
    ASSUME Switch!SwitchAssumption, SwitchSound, NEW r \in Request, Switch!Command(r)
    PROVE  SwitchSound'
<1>0. SwitchTyped /\ RequestsTyped /\ SpotIsKept /\ Switch!SwitchTypeOK
  BY DEF SwitchSound, SwitchTyped
<1> DEFINE n == req[r].inst
<1>1. /\ req[r].pc = "press" /\ Switch!At(r, Switch!Idle) /\ n \in 1..Len(inst)
      /\ UNCHANGED <<active, chosen, Switch!status, Switch!tracker, stale, turn, hold, stood, excused>>
  BY <1>0 DEF Switch!Command, RequestsTyped
<1>2. CASE UNCHANGED inst
  <2>1. UNCHANGED Switch!outputs
    BY <1>1, <1>2 DEF Switch!outputs
  <2> QED BY <1>1, <2>1, IdleIs, RequestTurns
<1>3. CASE ~UNCHANGED inst
  <2>1. Switch!Takes(n)
    BY <1>3 DEF Switch!Command
  <2>2. Switch!Here /\ n = active /\ Switch!HasDevice
    BY <1>0, <1>1, <2>1, Facts DEF Switch!Takes, Switch!SwitchTypeOK, Switch!Here
  <2> DEFINE o == inst[active]
  <2>3. o \in BackendType /\ o.here
    BY <1>0, <2>1, <2>2, Facts DEF Switch!Takes
  <2>4. PICK s \in 1..Slots : inst' = [inst EXCEPT ![active].state = IF o.well THEN "playing"
                                                                     ELSE "stopped",
                                                   ![active].slot = s, ![active].heir = FALSE]
    BY <1>3, <2>1, <2>2 DEF Switch!Command
  <2> DEFINE st == IF o.well THEN "playing" ELSE "stopped"
             b == [o EXCEPT !.state = st, !.slot = s, !.heir = FALSE]
  <2>5. Switch!Goes(b)
    <3>1. inst \in Seq(BackendType) /\ active \in 1..Len(inst)
      BY <1>0, <2>2, Facts
    <3> HIDE DEF st
    <3>2. [inst EXCEPT ![active].state = st, ![active].slot = s, ![active].heir = FALSE]
          = [inst EXCEPT ![active] = b]
      BY <2>3, <3>1 DEF BackendType
    <3>3. inst' = [inst EXCEPT ![active].state = st, ![active].slot = s, ![active].heir = FALSE]
      BY <2>4 DEF st
    <3> QED BY <3>2, <3>3 DEF Switch!Goes
  <2>6. s \in Switch!Slot0 /\ s >= 1 /\ st \in {"playing", "stopped"}
    BY DEF Switch!Slot0, Switch!SwitchAssumption
  <2> HIDE DEF st
  <2>7. /\ b \in BackendType /\ b.here = o.here /\ b.out = o.out /\ b.told = o.told
        /\ b.state \in {"playing", "stopped"} /\ b.slot >= 1 /\ b.heir = FALSE
    BY <2>3, <2>6 DEF BackendType
  <2>8. /\ req' \in [Request -> RequestType] /\ req'[r] = Switch!Idle
        /\ \A x \in Request : x # r => req'[x] = req[x]
    BY <1>0, <1>1, AtIs, IdleIs
  <2>9. \A x \in Request : req'[x].pc = "start" => b.out \notin Rendered
    BY <2>2, <2>7, <2>8, IdleIs DEF Switch!HasDevice
  <2> HIDE DEF b
  <2> QED BY <1>1, <2>2, <2>3, <2>5, <2>7, <2>8, <2>9, IdleIs, BackendMoves
<1> QED BY <1>2, <1>3

LEMMA StartSteps ==
    ASSUME Switch!SwitchAssumption, SwitchSound, NEW r \in Request, Switch!Start(r)
    PROVE  SwitchSound'
<1>0. SwitchTyped /\ RequestsTyped /\ SpotIsKept /\ Switch!SwitchTypeOK
  BY DEF SwitchSound, SwitchTyped
<1> DEFINE o == inst[active]
           q == [req[r] EXCEPT !.pc = "resume"]
<1>1. /\ req[r].pc = "start" /\ Switch!At(r, q) /\ Switch!Here
      /\ UNCHANGED <<active, chosen, Switch!status, Switch!tracker, stale, turn, hold, stood, excused>>
  BY <1>0 DEF Switch!Start, RequestsTyped
<1>2. q \in RequestType /\ q.pc = "resume" /\ q.spot = req[r].spot /\ q.prev = req[r].prev
  BY <1>0, Facts DEF RequestType
<1> HIDE DEF q
<1>3. /\ req' \in [Request -> RequestType] /\ req'[r] = q
      /\ \A x \in Request : x # r => req'[x] = req[x]
  BY <1>0, <1>1, <1>2, AtIs
<1>4. \A x \in Request : req'[x].pc # "start"
  BY <1>0, <1>1, <1>2, <1>3 DEF Switch!SwitchTypeOK
<1>5. o \in BackendType /\ o.here /\ (o.state = "attaching" => o.slot = 0)
      /\ (o.told => o.slot >= 1 \/ (~o.well /\ o.out = Lendable))
      /\ active \in 1..Len(inst) /\ inst \in Seq(BackendType)
  BY <1>0, <1>1, Facts DEF Switch!SwitchTypeOK, RequestsTyped, SpotIsKept
<1>6. CASE UNCHANGED inst
  <2>1. Switch!Goes(o)
    BY <1>5, <1>6 DEF Switch!Goes
  <2> QED BY <1>1, <1>2, <1>3, <1>4, <1>5, <2>1, BackendMoves
<1>7. CASE \E s \in 1..Slots : Switch!Goes([o EXCEPT !.state = "playing", !.slot = s, !.heir = FALSE])
  <2>1. PICK s \in 1..Slots : Switch!Goes([o EXCEPT !.state = "playing", !.slot = s, !.heir = FALSE])
    BY <1>7
  <2> DEFINE b == [o EXCEPT !.state = "playing", !.slot = s, !.heir = FALSE]
  <2>2. s \in Switch!Slot0 /\ s >= 1
    BY DEF Switch!Slot0, Switch!SwitchAssumption
  <2>3. /\ b \in BackendType /\ b.here = o.here /\ b.out = o.out /\ b.told = o.told
        /\ b.state = "playing" /\ b.slot >= 1 /\ b.heir = FALSE
    BY <1>5, <2>2 DEF BackendType
  <2>4. Switch!Goes(b)
    BY <2>1
  <2> HIDE DEF b
  <2> QED BY <1>1, <1>2, <1>3, <1>4, <1>5, <2>3, <2>4, BackendMoves
<1> QED BY <1>6, <1>7 DEF Switch!Start

\* While a change holds the locks, only its thread is anywhere in it.
LEMMA TurnIsOne ==
    ASSUME SwitchTyped, NEW r \in Request,
           req[r].pc \in {"off", "on", "start", "resume", "say"}
    PROVE  /\ turn = r
           /\ \A s \in Request : s # r => req[s].pc \notin {"off", "on", "start", "resume", "say"}
BY DEF SwitchTyped, Switch!SwitchTypeOK

\* What stands where it stood is told where, and what stands nowhere is left
\* stopped, unless it plays.
LEMMA PlacedIs ==
    ASSUME Switch!SwitchAssumption, NEW o \in BackendType, NEW p \in Switch!Slot0, NEW b \in Switch!Placed(o, p)
    PROVE  /\ b \in BackendType /\ b.here = o.here /\ b.out = o.out /\ b.well = o.well
           /\ b.heir = o.heir
           /\ \/ b = o /\ o.state # "attaching"
              \/ p >= 1 /\ b.slot = p /\ b.told = FALSE /\ b.state = "holding"
              \/ p >= 1 /\ b.slot = p /\ b.told = FALSE /\ b.state = "playing" /\ o.state = "playing"
              \/ p = 0 /\ o.state = "attaching" /\ b.state = "stopped" /\ b.slot = o.slot
                 /\ b.told = o.told
<1>1. p \in Int /\ p >= 0
  BY DEF Switch!Slot0, Switch!SwitchAssumption
<1>2. CASE p >= 1 /\ (o.out # Lendable \/ o.state = "attaching")
  <2>1. ~(p = 0)
    BY <1>2
  <2>2. PICK s \in {"holding"} \cup (IF o.state = "playing" THEN {"playing"} ELSE {}) :
            b = [o EXCEPT !.state = s, !.slot = p, !.told = FALSE]
    BY <1>2, <2>1 DEF Switch!Placed
  <2>3. s = "holding" \/ (s = "playing" /\ o.state = "playing")
    BY <2>2
  <2>4. /\ b \in BackendType /\ b.here = o.here /\ b.out = o.out /\ b.well = o.well
        /\ b.heir = o.heir /\ b.slot = p /\ b.told = FALSE /\ b.state = s
    BY <2>2, <2>3 DEF BackendType
  <2> QED BY <1>2, <2>3, <2>4
<1>3. CASE p = 0 /\ o.state = "attaching"
  <2>1. ~(p >= 1)
    BY <1>3
  <2>2. b = [o EXCEPT !.state = "stopped"]
    BY <1>3, <2>1 DEF Switch!Placed
  <2> QED BY <1>3, <2>2 DEF BackendType
<1>4. CASE ~(p >= 1 /\ (o.out # Lendable \/ o.state = "attaching")) /\ ~(p = 0 /\ o.state = "attaching")
  <2>1. b = o
    BY <1>4 DEF Switch!Placed
  <2>2. o.state # "attaching"
    BY <1>1, <1>4
  <2> QED BY <2>1, <2>2
<1> QED BY <1>2, <1>3, <1>4

\* The place an untouched output is told is the last one named.
LEMMA PlaceIs ==
    ASSUME Switch!SwitchAssumption, SwitchSound, NEW r \in Request
    PROVE  /\ Switch!Place(req[r]) \in Switch!Slot0
           /\ req[r].pc = "resume" /\ inst[active].state = "attaching" /\ "stray" \notin excused =>
                  Switch!Place(req[r]) = lastSlot /\ lastSlot = stood.slot
<1>1. SwitchTyped /\ StandsAtLast
  BY DEF SwitchSound
<1>2. req[r].spot \in Switch!Slot0 /\ req[r].prev \in Switch!Slot0
  BY <1>1, Facts DEF RequestType
<1>3. req[r].spot \in Int /\ lastSlot \in Int /\ (0 \in Switch!Slot0)
  BY <1>1, <1>2, Facts
<1>4. Switch!Place(req[r]) \in Switch!Slot0
  BY <1>2 DEF Switch!Place
<1>5. ASSUME req[r].pc = "resume", inst[active].state = "attaching", "stray" \notin excused
      PROVE  Switch!Place(req[r]) = lastSlot /\ lastSlot = stood.slot
  <2>1. Carries(r)
    BY <1>5 DEF Carries
  <2>2. req[r].spot \in {0, lastSlot} /\ req[r].prev = lastSlot /\ stood.slot = lastSlot
    BY <1>1, <1>5, <2>1 DEF StandsAtLast
  <2> QED BY <1>3, <2>2 DEF Switch!Place
<1> QED BY <1>4, <1>5

\* The output is told where to stand: an heir where the listen is.
LEMMA ResumeSteps ==
    ASSUME Switch!SwitchAssumption, SwitchSound, NEW r \in Request, Switch!ResumeAt(r)
    PROVE  SwitchSound'
<1>0. /\ Switch!SwitchTypeOK /\ RequestsTyped /\ LentIsOnes /\ StandsAtLast /\ SpotIsKept /\ HeirListens
      /\ SwitchTyped
  BY DEF SwitchSound, SwitchTyped
<1> DEFINE o == inst[active]
           q == [Switch!Idle EXCEPT !.pc = "say", !.what = req[r].what]
           p == Switch!Place(req[r])
<1>1. /\ req[r].pc = "resume" /\ Switch!At(r, q) /\ Switch!Here
      /\ UNCHANGED <<active, chosen, Switch!status, Switch!tracker, stale, turn, hold, stood, excused>>
      /\ UNCHANGED <<latest, lastSlot, carried, listen>>
  BY <1>0 DEF Switch!ResumeAt, RequestsTyped, Switch!status, Switch!tracker
<1>2. q \in RequestType /\ q.pc = "say"
  BY <1>0, IdleIs, Facts DEF RequestType
<1>3. PICK b \in Switch!Placed(o, p) : Switch!Goes(b)
  BY DEF Switch!ResumeAt
<1> HIDE DEF q
<1>4. /\ req' \in [Request -> RequestType] /\ req'[r] = q
      /\ \A x \in Request : x # r => req'[x] = req[x]
  BY <1>0, <1>1, <1>2, AtIs
<1>5. \A x \in Request : req'[x].pc \notin {"off", "on", "start", "resume"}
  BY <1>0, <1>1, <1>2, <1>4, TurnIsOne
<1>6. /\ o \in BackendType /\ o.here /\ (o.state = "attaching" => o.slot = 0)
      /\ (o.told => o.slot >= 1 \/ (~o.well /\ o.out = Lendable))
      /\ active \in 1..Len(inst) /\ inst \in Seq(BackendType) /\ p \in Switch!Slot0
  BY <1>0, <1>1, Facts, PlaceIs DEF Switch!SwitchTypeOK, RequestsTyped, SpotIsKept
<1> HIDE DEF o, p
<1>7. /\ b \in BackendType /\ b.here = o.here /\ b.out = o.out /\ b.well = o.well
      /\ b.heir = o.heir
      /\ \/ b = o /\ o.state # "attaching"
         \/ p >= 1 /\ b.slot = p /\ b.told = FALSE /\ b.state = "holding"
         \/ p >= 1 /\ b.slot = p /\ b.told = FALSE /\ b.state = "playing" /\ o.state = "playing"
         \/ p = 0 /\ o.state = "attaching" /\ b.state = "stopped" /\ b.slot = o.slot /\ b.told = o.told
  <2>1. b \in Switch!Placed(o, p) /\ o \in BackendType /\ p \in Switch!Slot0
    BY <1>3, <1>6
  <2> HIDE <1>1, <1>3, <1>6
  <2> QED BY ONLY <2>1, PlacedIs, Switch!SwitchAssumption
<1>8. /\ inst' \in Seq(BackendType) /\ Len(inst') = Len(inst) /\ inst'[active] = b
      /\ \A n \in 1..Len(inst) : n # active => inst'[n] = inst[n]
      /\ \A n \in 1..Len(inst) : inst'[n].here <=> n = active
  BY <1>0, <1>1, <1>3, <1>6, <1>7, GoesIs
<1>9. Switch!Here' /\ inst'[active'] = b /\ b.state # "attaching"
  BY <1>1, <1>7, <1>8 DEF Switch!Here
<1>10. Switch!SwitchTypeOK'
  BY <1>0, <1>1, <1>2, <1>4, <1>8 DEF Switch!SwitchTypeOK, BackendType
<1>11. RequestsTyped'
  BY <1>0, <1>1, <1>2, <1>4, <1>8, <1>9 DEF RequestsTyped
<1>12. LentIsOnes'
  BY <1>0, <1>1, <1>2, <1>4, <1>9 DEF LentIsOnes
<1>13. StandsAtLast'
  <2>1. Switch!SpotOf(latest)' = Switch!SpotOf(latest)
    BY <1>1 DEF Switch!SpotOf
  <2>2. \A x \in Request : ~Carries(x)'
    BY <1>5 DEF Carries
  <2> QED BY <1>0, <1>1, <1>5, <2>1, <2>2 DEF StandsAtLast
<1>14. SpotIsKept'
  <2>1. b.told => b.slot >= 1 \/ (~b.well /\ b.out = Lendable)
    BY <1>6, <1>7
  <2>2. \A n \in 1..Len(inst) : inst'[n].told =>
            inst'[n].slot >= 1 \/ (~inst'[n].well /\ inst'[n].out = Lendable)
    BY <1>0, <1>8, <2>1 DEF SpotIsKept
  <2>3. Switch!SpotOf(latest)' = Switch!SpotOf(latest)
    BY <1>1 DEF Switch!SpotOf
  <2>4. b.told => o.told
    BY <1>7
  <2>5. \A x \in Request : req[x].pc \notin {"off", "on"}
    BY <1>0, <1>1, TurnIsOne
  <2> QED BY <1>0, <1>1, <1>5, <1>8, <1>9, <2>2, <2>3, <2>4, <2>5 DEF SpotIsKept, o
<1>15. HeirListens'
  <2> SUFFICES ASSUME excused = {}, b.heir
               PROVE  /\ carried /\ listen # 0 /\ listen = stood.slot
                      /\ b.state = "holding" /\ b.slot = listen
    BY <1>1, <1>5, <1>9 DEF HeirListens
  <2>1. carried /\ listen # 0 /\ listen = stood.slot /\ o.state = "attaching"
    BY <1>0, <1>1, <1>7 DEF HeirListens, o
  <2>2. p = stood.slot /\ p # 0
    BY <1>1, <2>1, PlaceIs DEF p, o
  <2> QED BY <1>7, <2>1, <2>2
<1> QED BY <1>10, <1>11, <1>12, <1>13, <1>14, <1>15 DEF SwitchSound, SwitchTyped

-----------------------------------------------------------------------------
\* A word that counts names the last slot and says whether there is a spot.
LEMMA CountsIs ==
    ASSUME Switch!SwitchAssumption, SwitchSound, NEW w \in WordType, Switch!Counts(w)
    PROVE  /\ UNCHANGED <<active, chosen, turn, req, hold>>
           /\ latest' = w /\ lastSlot' \in Switch!Slot0 /\ carried' \in BOOLEAN /\ listen' \in Switch!Slot0
           /\ w.slot \in Switch!Slot0 /\ w.slot \in Int /\ w.slot >= 0
           /\ lastSlot' = IF w.slot >= 1 THEN w.slot ELSE lastSlot
           /\ stood' \in [slot : Switch!Slot0, spot : BOOLEAN] /\ stood'.slot = lastSlot'
           /\ Switch!Names(w) => stood'.spot = (Switch!SpotOf(w) >= 1)
           /\ ~Switch!Names(w) => stood' = stood /\ w.slot = 0
<1>1. SwitchTyped /\ StandsAtLast
  BY DEF SwitchSound
<1>2. /\ lastSlot \in Switch!Slot0 /\ listen \in Switch!Slot0 /\ carried \in BOOLEAN /\ 0 \in Switch!Slot0
      /\ stood \in [slot : Switch!Slot0, spot : BOOLEAN] /\ stood.slot = lastSlot
  BY <1>1, Facts DEF StandsAtLast
<1>3. w.slot \in Switch!Slot0 /\ w.slot \in Int /\ w.slot >= 0
  BY DEF WordType, Switch!Slot0, Switch!SwitchAssumption
<1>4. /\ UNCHANGED <<active, chosen, turn, req, hold>> /\ latest' = w
      /\ lastSlot' = IF w.slot >= 1 THEN w.slot ELSE lastSlot
      /\ stood' = IF Switch!Names(w) THEN [slot |-> lastSlot', spot |-> Switch!SpotOf(w) >= 1] ELSE stood
  BY DEF Switch!Counts
<1>5. lastSlot' \in Switch!Slot0
  BY <1>2, <1>3, <1>4
<1>6. carried' \in BOOLEAN /\ listen' \in Switch!Slot0
  <2>1. Switch!Tracked(w)
    BY DEF Switch!Counts
  <2>2. CASE UNCHANGED Switch!tracker
    BY <1>2, <2>2 DEF Switch!tracker
  <2>3. CASE carried' = FALSE /\ listen' = IF w.state = "playing" THEN w.slot ELSE 0
    BY <1>2, <1>3, <2>3
  <2> QED BY <2>1, <2>2, <2>3 DEF Switch!Tracked
<1>7. CASE Switch!Names(w)
  <2>1. stood' = [slot |-> lastSlot', spot |-> Switch!SpotOf(w) >= 1]
    BY <1>4, <1>7
  <2> QED BY <1>3, <1>4, <1>5, <1>6, <1>7, <2>1
<1>8. CASE ~Switch!Names(w)
  <2>1. stood' = stood
    BY <1>4, <1>8
  <2>2. w.slot = 0
    BY <1>3, <1>8 DEF Switch!Names
  <2> QED BY <1>2, <1>3, <1>4, <1>5, <1>6, <1>8, <2>1, <2>2
<1> QED BY <1>7, <1>8

\* The first words of an output that inherited the listen end nothing.
LEMMA FirstWords ==
    ASSUME Switch!SwitchAssumption, SwitchSound, Switch!Here, excused = {}, inst[active].heir,
           Switch!Tracked(Switch!Says(inst[active]))
    PROVE  UNCHANGED Switch!tracker
<1> DEFINE o == inst[active]
           w == Switch!Says(o)
<1>1. /\ carried = TRUE /\ listen # 0 /\ o.state \in {"attaching", "holding"}
      /\ o.state = "holding" => o.slot = listen
  <2>1. carried /\ listen # 0 /\ o.state \in {"attaching", "holding"}
        /\ (o.state = "holding" => o.slot = listen)
    BY DEF SwitchSound, HeirListens
  <2> QED BY <2>1, Facts DEF SwitchSound
<1>2. o \in BackendType
  BY Facts DEF SwitchSound
<1> HIDE DEF o
<1>3. \/ w.state = "disconnected" \/ w = Switch!Word("stopped", 0, 0)
      \/ o.state = "holding" /\ (w = Switch!Word("paused", o.slot, 0) \/ w = Switch!Word("stopped", o.slot, o.slot))
  BY <1>1, <1>2, SaysIs
<1> HIDE DEF w
<1>4. w.state = "disconnected" \/ (w.state # "playing" /\ Switch!Interrupts(w))
  BY <1>1, <1>3 DEF Switch!Word, Switch!Interrupts
<1> QED BY <1>4 DEF Switch!Tracked, w, o

\* The attached output is heard.
LEMMA SaySteps ==
    ASSUME Switch!SwitchAssumption, SwitchSound, Switch!Say
    PROVE  SwitchSound'
<1>0. /\ Switch!SwitchTypeOK /\ RequestsTyped /\ LentIsOnes /\ StandsAtLast /\ SpotIsKept /\ HeirListens
      /\ SwitchTyped
  BY DEF SwitchSound, SwitchTyped
<1> DEFINE o == inst[active]
           w == Switch!Says(o)
           b == [o EXCEPT !.told = o.told \/ Switch!Names(w)]
<1>1. /\ Switch!Here /\ Switch!Counts(w) /\ UNCHANGED stale
      /\ inst' = [inst EXCEPT ![active].told = o.told \/ Switch!Names(w)]
      /\ excused' = IF Switch!Leaving THEN excused \cup {"stray"} ELSE excused
  BY DEF Switch!Say
<1>2. /\ o \in BackendType /\ o.here /\ (o.state = "attaching" => o.slot = 0)
      /\ (o.told => o.slot >= 1 \/ (~o.well /\ o.out = Lendable))
      /\ active \in 1..Len(inst) /\ inst \in Seq(BackendType) /\ o.slot \in Int
  BY <1>0, <1>1, Facts DEF Switch!SwitchTypeOK, RequestsTyped, SpotIsKept, BackendType
<1>3. Switch!Goes(b)
  <2>1. [inst EXCEPT ![active].told = o.told \/ Switch!Names(w)] = [inst EXCEPT ![active] = b]
    BY <1>2 DEF BackendType
  <2> QED BY <1>1, <2>1 DEF Switch!Goes
<1>t. UNCHANGED Switch!tracker \/ Switch!Tracked(w)
  BY <1>1 DEF Switch!Counts
<1> HIDE DEF o
<1>4. /\ w \in WordType /\ Switch!SpotOf(w) \in {0, w.slot} /\ w.slot \in {0, o.slot}
      /\ ~o.well /\ o.out = Lendable => w.state = "disconnected"
      /\ \/ ~o.well /\ o.out = Lendable /\ w.state = "disconnected" /\ w.slot = 0
         \/ o.state = "attaching" /\ w = Switch!Word("stopped", 0, 0)
         \/ /\ o.state = "holding"
            /\ w = Switch!Word("paused", o.slot, 0) \/ w = Switch!Word("stopped", o.slot, o.slot)
         \/ /\ o.state \in {"playing", "paused", "stopped"}
            /\ w = Switch!Word(o.state, o.slot, 0)
  BY <1>2, SaysIs
<1> HIDE DEF w
<1>5. /\ UNCHANGED <<active, chosen, turn, req, hold>>
      /\ latest' = w /\ lastSlot' \in Switch!Slot0 /\ carried' \in BOOLEAN /\ listen' \in Switch!Slot0
      /\ w.slot \in Switch!Slot0 /\ w.slot \in Int /\ w.slot >= 0
      /\ lastSlot' = IF w.slot >= 1 THEN w.slot ELSE lastSlot
      /\ stood' \in [slot : Switch!Slot0, spot : BOOLEAN] /\ stood'.slot = lastSlot'
      /\ Switch!Names(w) => stood'.spot = (Switch!SpotOf(w) >= 1)
      /\ ~Switch!Names(w) => stood' = stood /\ w.slot = 0
  BY <1>1, <1>4, CountsIs
<1>6. o.told \in BOOLEAN /\ Switch!Names(w) \in BOOLEAN
  BY <1>2 DEF BackendType, Switch!Names
<1>7. /\ b \in BackendType /\ b.here = o.here /\ b.out = o.out /\ b.well = o.well
      /\ b.heir = o.heir /\ b.state = o.state /\ b.slot = o.slot /\ b.told = (o.told \/ Switch!Names(w))
  BY <1>2, <1>6 DEF BackendType
<1> HIDE DEF b
<1>8. /\ inst' \in Seq(BackendType) /\ Len(inst') = Len(inst) /\ inst'[active] = b
      /\ \A n \in 1..Len(inst) : n # active => inst'[n] = inst[n]
      /\ \A n \in 1..Len(inst) : inst'[n].here <=> n = active
  BY <1>0, <1>1, <1>2, <1>3, <1>7, GoesIs
<1>9. Switch!Here' /\ inst'[active'] = b
  BY <1>1, <1>5, <1>8 DEF Switch!Here
\* Only what is lost is disconnected; what names a place stands there.
<1>10. /\ w.state = "disconnected" => ~o.well /\ o.out = Lendable /\ w.slot = 0
       /\ o.state = "attaching" => w.slot = 0
       /\ o.slot >= 1 /\ w.state # "disconnected" => w.slot >= 1
  BY <1>2, <1>4 DEF Switch!Word
<1>11. excused' = {} => excused = {} /\ ~Switch!Leaving
  BY <1>1
<1>12. \A r \in Request : /\ req[r].pc = "off" => Switch!Leaving
                          /\ req[r].pc # "on"
  <2>1. \A r \in Request : req[r].pc = "off" => turn = r
    BY <1>0 DEF Switch!SwitchTypeOK
  <2> QED BY <1>0, <1>1, <2>1 DEF Switch!Leaving, RequestsTyped, Switch!SwitchAssumption
<1>13. Switch!SwitchTypeOK'
  <2>1. excused' \subseteq {"stray", "unsaid"}
    BY <1>0, <1>1 DEF Switch!SwitchTypeOK
  <2>2. \A n \in 1..Len(inst') : inst'[n].here <=> n = active'
    BY <1>5, <1>8
  <2>3. latest' \in WordType /\ (stale' = Switch!NoWord \/ stale' \in WordType)
    BY <1>0, <1>1, <1>4, <1>5, Facts
  <2>4. \A r \in Request : req'[r].pc \in {"off", "on", "start", "resume", "say"} <=> turn' = r
    BY <1>0, <1>5 DEF Switch!SwitchTypeOK
  <2>5. /\ inst' \in Seq(BackendType) /\ active' \in 0..Len(inst') /\ chosen' \in Output
        /\ turn' \in Request \cup {None} /\ hold' \in {"no", "taken", "lent", "back"}
    BY <1>0, <1>5, <1>8 DEF Switch!SwitchTypeOK
  <2> QED BY <1>5, <2>1, <2>2, <2>3, <2>4, <2>5 DEF Switch!SwitchTypeOK, BackendType, WordType
<1>14. RequestsTyped'
  <2>1. \A n \in 1..Len(inst') : inst'[n].state = "attaching" => inst'[n].slot = 0
    BY <1>0, <1>2, <1>7, <1>8 DEF RequestsTyped
  <2> QED BY <1>0, <1>1, <1>5, <1>8, <1>9, <2>1 DEF RequestsTyped
<1>15. LentIsOnes'
  BY <1>0, <1>1, <1>5, <1>9 DEF LentIsOnes
<1>16. StandsAtLast'
  <2>1. \A r \in Request : req'[r].pc = "start" /\ inst'[active'].out \in Rendered =>
            inst'[active'].state = "attaching"
    BY <1>0, <1>5, <1>7, <1>9 DEF StandsAtLast, o
  <2>2. ASSUME "stray" \notin excused'
        PROVE  /\ Switch!SpotOf(latest)' \in {0, lastSlot'}
               /\ \A r \in Request :
                    /\ Carries(r)' => req'[r].spot \in {0, lastSlot'}
                    /\ Carries(r)' /\ req'[r].pc # "off" /\ (req'[r].pc = "on" => req'[r].again) =>
                           req'[r].prev = lastSlot'
    <3>1. ~Switch!Leaving /\ "stray" \notin excused
      BY <1>1, <2>2
    <3>2. Switch!SpotOf(latest)' = Switch!SpotOf(w)
      BY <1>5 DEF Switch!SpotOf
    <3>3. Switch!SpotOf(latest)' \in {0, lastSlot'}
      BY <1>4, <1>5, <3>2
    <3>4. ASSUME NEW r \in Request, Carries(r)'
          PROVE  Carries(r) /\ lastSlot' = lastSlot /\ req'[r] = req[r]
      <4>1. req[r].pc \in {"start", "resume"} /\ o.state = "attaching"
        BY <1>5, <1>7, <1>9, <1>12, <3>1, <3>4 DEF Carries
      <4>2. w.slot = 0
        BY <1>10, <4>1
      <4>3. Carries(r)
        BY <4>1 DEF Carries, o
      <4> QED BY <1>5, <4>2, <4>3
    <3> QED BY <1>0, <3>1, <3>3, <3>4 DEF StandsAtLast
  <2> QED BY <1>5, <2>1, <2>2 DEF StandsAtLast
<1>17. SpotIsKept'
  <2>1. b.told => b.slot >= 1 \/ (~b.well /\ b.out = Lendable)
    <3>1. ASSUME Switch!Names(w)
          PROVE  o.slot >= 1 \/ (~o.well /\ o.out = Lendable)
      BY <1>2, <1>4, <1>10, <3>1 DEF Switch!Names
    <3>2. b.told => o.told \/ Switch!Names(w)
      BY <1>7
    <3> QED BY <1>2, <1>7, <3>1, <3>2
  <2>2. \A n \in 1..Len(inst') : inst'[n].told =>
            inst'[n].slot >= 1 \/ (~inst'[n].well /\ inst'[n].out = Lendable)
    BY <1>0, <1>8, <2>1 DEF SpotIsKept
  <2>3. ASSUME excused' = {}, stood'.spot
        PROVE  /\ hold' # "lent"
               /\ \A r \in Request : req'[r].pc \in {"off", "on"} => req'[r].spot >= 1
               /\ \A r \in Request : req'[r].pc = "start" /\ inst'[active'].state = "attaching" =>
                      req'[r].spot >= 1
               /\ (Switch!Here' => inst'[active'].told) => Switch!SpotOf(latest)' >= 1
    <3>1. excused = {} /\ ~Switch!Leaving
      BY <1>11, <2>3
    <3>2. hold' # "lent"
      BY <1>0, <1>1, <1>5 DEF LentIsOnes
    <3>3. \A r \in Request : req'[r].pc \notin {"off", "on"}
      BY <1>5, <1>12, <3>1
    <3>4. \A r \in Request : req'[r].pc = "start" /\ inst'[active'].state = "attaching" =>
              req'[r].spot >= 1
      <4>1. CASE Switch!Names(w)
        <5>1. Switch!SpotOf(w) >= 1
          BY <1>5, <2>3, <4>1
        <5>2. w.slot # 0
          BY <1>4, <5>1
        <5> QED BY <1>7, <1>9, <1>10, <5>2
      <4>2. CASE ~Switch!Names(w)
        <5>1. stood.spot
          BY <1>5, <2>3, <4>2
        <5> QED BY <1>0, <1>5, <1>7, <1>9, <3>1, <5>1 DEF SpotIsKept, o
      <4> QED BY <4>1, <4>2
    <3>5. Switch!SpotOf(latest)' = Switch!SpotOf(w)
      BY <1>5 DEF Switch!SpotOf
    <3>6. ASSUME b.told
          PROVE  Switch!SpotOf(w) >= 1
      <4>1. Switch!Names(w)
        BY <1>2, <1>4, <1>7, <1>10, <3>6 DEF Switch!Names
      <4> QED BY <1>5, <2>3, <4>1
    <3> QED BY <1>9, <3>2, <3>3, <3>4, <3>5, <3>6
  <2> QED BY <2>2, <2>3 DEF SpotIsKept
<1>18. HeirListens'
  <2> SUFFICES ASSUME excused' = {}, o.heir
               PROVE  /\ carried' /\ listen' # 0 /\ listen' = stood'.slot
                      /\ o.state \in {"attaching", "holding"}
                      /\ o.state = "holding" => o.slot = listen'
                      /\ \A r \in Request : req'[r].pc \in {"start", "resume"} => o.state = "attaching"
    BY <1>7, <1>9 DEF HeirListens
  <2>1. excused = {}
    BY <1>11
  <2>2. UNCHANGED Switch!tracker
    BY <1>1, <1>t, <2>1, FirstWords DEF o, w
  <2>3. /\ carried /\ listen # 0 /\ listen = stood.slot
        /\ o.state \in {"attaching", "holding"}
        /\ o.state = "holding" => o.slot = listen
        /\ \A r \in Request : req[r].pc \in {"start", "resume"} => o.state = "attaching"
    BY <1>0, <1>1, <2>1 DEF HeirListens, o
  <2>4. stood.slot = lastSlot
    BY <1>0 DEF StandsAtLast
  <2>5. stood'.slot = stood.slot
    <3>1. CASE w.slot >= 1
      BY <1>4, <1>5, <1>10, <2>3, <3>1
    <3>2. CASE ~(w.slot >= 1)
      BY <1>5, <2>4, <3>2
    <3> QED BY <3>1, <3>2
  <2> QED BY <1>5, <2>2, <2>3, <2>5 DEF Switch!tracker
<1> QED BY <1>13, <1>14, <1>15, <1>16, <1>17, <1>18 DEF SwitchSound, SwitchTyped

\* A word of the output that was let go counts late, and is marked.
LEMMA SayStaleSteps ==
    ASSUME Switch!SwitchAssumption, SwitchSound, Switch!SayStale
    PROVE  SwitchSound'
<1>0. /\ Switch!SwitchTypeOK /\ RequestsTyped /\ LentIsOnes /\ StandsAtLast /\ SpotIsKept /\ HeirListens
      /\ SwitchTyped
  BY DEF SwitchSound, SwitchTyped
<1>1. /\ Switch!Counts(stale) /\ stale \in WordType /\ stale' = Switch!NoWord /\ UNCHANGED inst
      /\ excused' = excused \cup {"stray"}
  BY <1>0, Facts DEF Switch!SayStale
<1>2. /\ UNCHANGED <<active, chosen, turn, req, hold>>
      /\ latest' \in WordType /\ lastSlot' \in Switch!Slot0 /\ carried' \in BOOLEAN /\ listen' \in Switch!Slot0
      /\ stood' \in [slot : Switch!Slot0, spot : BOOLEAN] /\ stood'.slot = lastSlot'
  BY <1>1, CountsIs
<1>3. excused' # {} /\ "stray" \in excused' /\ Switch!Here' = Switch!Here
  BY <1>1, <1>2 DEF Switch!Here
<1>4. Switch!SwitchTypeOK'
  <2>1. excused' \subseteq {"stray", "unsaid"}
    BY <1>0, <1>1 DEF Switch!SwitchTypeOK
  <2> QED BY <1>0, <1>1, <1>2, <2>1 DEF Switch!SwitchTypeOK, WordType
<1>5. RequestsTyped'
  BY <1>0, <1>1, <1>2, <1>3 DEF RequestsTyped
<1>6. LentIsOnes'
  BY <1>0, <1>2, <1>3 DEF LentIsOnes
<1>7. StandsAtLast'
  BY <1>0, <1>1, <1>2, <1>3 DEF StandsAtLast
<1>8. SpotIsKept'
  BY <1>0, <1>1, <1>3 DEF SpotIsKept
<1>9. HeirListens'
  BY <1>3 DEF HeirListens
<1> QED BY <1>4, <1>5, <1>6, <1>7, <1>8, <1>9 DEF SwitchSound, SwitchTyped

-----------------------------------------------------------------------------
LEMMA SpotIs ==
    ASSUME Switch!SwitchAssumption, NEW w \in WordType
    PROVE  Switch!SpotOf(w) \in Switch!Slot0
BY DEF Switch!SpotOf, WordType

\* A change begins: what the output last said of its spot goes with it, unless
\* it has said nothing since it was told where to stand.
LEMMA BeginsSteps ==
    ASSUME Switch!SwitchAssumption, SwitchSound, NEW r \in Request,
           NEW what \in {"switch", "press", "scan", "hold"}, NEW to \in Output \cup {None},
           NEW again \in BOOLEAN, Switch!Begins(r, what, to, again), chosen' \in Output,
           UNCHANGED hold \/ hold' = "taken", what = "hold" => ~again
    PROVE  SwitchSound'
<1>0. /\ Switch!SwitchTypeOK /\ RequestsTyped /\ LentIsOnes /\ StandsAtLast /\ SpotIsKept /\ HeirListens
      /\ SwitchTyped
  BY DEF SwitchSound, SwitchTyped
<1> DEFINE q == [Switch!Idle EXCEPT !.pc = "off", !.what = what, !.to = to, !.again = again,
                             !.spot = Switch!SpotOf(latest)]
<1>1. /\ req[r] = Switch!Idle /\ turn = None /\ hold = "no" /\ turn' = r /\ excused' = Switch!Unsaid /\ Switch!At(r, q)
      /\ UNCHANGED <<inst, active, Switch!status, Switch!tracker, stale, stood>>
      /\ UNCHANGED <<latest, lastSlot, carried, listen>>
  BY DEF Switch!Begins, Switch!status, Switch!tracker
<1>2. Switch!SpotOf(latest) \in Switch!Slot0
  BY <1>0, Facts, SpotIs
<1>3. /\ q \in RequestType /\ q.pc = "off" /\ q.what = what /\ q.again = again
      /\ q.spot = Switch!SpotOf(latest)
  BY <1>2, IdleIs DEF RequestType
<1> HIDE DEF q
<1>4. /\ req' \in [Request -> RequestType] /\ req'[r] = q
      /\ \A x \in Request : x # r => req'[x] = req[x]
  BY <1>0, <1>1, <1>3, AtIs
<1>5. \A x \in Request : req[x].pc \notin {"off", "on", "start", "resume", "say"}
  BY <1>0, <1>1 DEF Switch!SwitchTypeOK, Switch!SwitchAssumption
<1>6. /\ Switch!SpotOf(latest)' = Switch!SpotOf(latest) /\ Switch!Here' = Switch!Here /\ hold' \in {"no", "taken"}
      /\ excused' \subseteq {"stray", "unsaid"} /\ ("stray" \notin excused' => "stray" \notin excused)
      /\ (excused' = {} => excused = {} /\ (Switch!Here => inst[active].told))
  BY <1>0, <1>1 DEF Switch!SpotOf, Switch!Here, Switch!Unsaid, Switch!SwitchTypeOK
<1>7. Switch!SwitchTypeOK'
  <2>1. \A x \in Request : req'[x].pc \in {"off", "on", "start", "resume", "say"} <=> turn' = x
    BY <1>1, <1>3, <1>4, <1>5
  <2> QED BY <1>0, <1>1, <1>6, <2>1 DEF Switch!SwitchTypeOK
<1>8. RequestsTyped'
  BY <1>0, <1>1, <1>3, <1>4, <1>5 DEF RequestsTyped
<1>9. LentIsOnes'
  BY <1>0, <1>1, <1>3, <1>4, <1>6 DEF LentIsOnes
<1>10. StandsAtLast'
  <2>1. \A x \in Request : Carries(x)' => x = r
    BY <1>3, <1>4, <1>5 DEF Carries
  <2> QED BY <1>0, <1>1, <1>3, <1>4, <1>5, <1>6, <2>1 DEF StandsAtLast
<1>11. SpotIsKept'
  BY <1>0, <1>1, <1>3, <1>4, <1>5, <1>6 DEF SpotIsKept
<1>12. HeirListens'
  BY <1>0, <1>1, <1>3, <1>4, <1>5, <1>6 DEF HeirListens
<1> QED BY <1>7, <1>8, <1>9, <1>10, <1>11, <1>12 DEF SwitchSound, SwitchTyped

LEMMA BeginSteps ==
    ASSUME Switch!SwitchAssumption, SwitchSound, NEW r \in Request,
           Switch!PickAnother(r) \/ Switch!AttachAgain(r) \/ Switch!Hold(r)
    PROVE  SwitchSound'
<1>0. chosen \in Output
  BY DEF SwitchSound, SwitchTyped, Switch!SwitchTypeOK
<1>1. CASE Switch!PickAnother(r)
  <2>1. PICK o \in Output : chosen' = o /\ Switch!Begins(r, "switch", o, FALSE)
    BY <1>1 DEF Switch!PickAnother
  <2> QED BY <1>1, <2>1, BeginsSteps DEF Switch!PickAnother
<1>2. CASE Switch!AttachAgain(r)
  <2>1. UNCHANGED <<chosen, hold>> /\ \E what \in {"press", "scan"} : Switch!Begins(r, what, chosen, TRUE)
    BY <1>2 DEF Switch!AttachAgain
  <2>2. PICK what \in {"press", "scan"} : Switch!Begins(r, what, chosen, TRUE)
    BY <2>1
  <2> QED BY <1>0, <2>1, <2>2, BeginsSteps
<1>3. CASE Switch!Hold(r)
  BY <1>0, <1>3, BeginsSteps DEF Switch!Hold
<1> QED BY <1>1, <1>2, <1>3

\* The old output is let go, and the spot with the request; the hold keeps
\* neither.
LEMMA OffSteps ==
    ASSUME Switch!SwitchAssumption, SwitchSound, NEW r \in Request, Switch!Off(r)
    PROVE  SwitchSound'
<1>0. /\ Switch!SwitchTypeOK /\ RequestsTyped /\ LentIsOnes /\ StandsAtLast /\ SpotIsKept /\ HeirListens
      /\ SwitchTyped
  BY DEF SwitchSound, SwitchTyped
<1>1. /\ req[r].pc = "off" /\ active' = 0 /\ inst' = Switch!Detached
      /\ stale' \in {Switch!NoWord} \cup (IF Switch!Here THEN {Switch!Says(inst[active])} ELSE {})
      /\ UNCHANGED <<chosen, lastSlot, Switch!tracker, excused>>
      /\ UNCHANGED <<carried, listen>>
  BY DEF Switch!Off, Switch!tracker
<1>2. /\ turn = r /\ hold # "lent" /\ ~Switch!Here' /\ req[r] \in RequestType /\ lastSlot \in Switch!Slot0
      /\ 0 \in Switch!Slot0
      /\ \A x \in Request : x # r => req[x].pc \notin {"off", "on", "start", "resume", "say", "lent"}
  <2>1. turn = r /\ \A x \in Request : x # r => req[x].pc \notin {"off", "on", "start", "resume", "say"}
    BY <1>0, <1>1, TurnIsOne
  <2>2. hold # "lent"
    BY <1>0, <2>1 DEF LentIsOnes, Switch!SwitchAssumption
  <2> QED BY <1>0, <1>1, <2>1, <2>2, Facts DEF LentIsOnes, Switch!Here
<1>3. stale' = Switch!NoWord \/ stale' \in WordType
  BY <1>0, <1>1, Facts, SaysIs
<1>4. /\ inst' \in Seq(BackendType) /\ Len(inst') = Len(inst)
      /\ \A n \in 1..Len(inst) : inst'[n] = inst[n] \/ inst'[n] = Switch!LetGo
      /\ \A n \in 1..Len(inst) : inst'[n].here = FALSE
  <2>1. \A n \in 1..Len(inst) : ~inst'[n].here /\ inst'[n] \in BackendType
    BY <1>0, <1>1, DetachedIs
  <2>2. \A n \in 1..Len(inst) : inst'[n].here = FALSE
    BY <2>1 DEF BackendType
  <2> QED BY <1>0, <1>1, <2>2, DetachedIs
\* What both ways make of it.
<1>5. ASSUME NEW q \in RequestType, Switch!At(r, q), q.pc \in {"on", "lent"}, latest' \in WordType,
             stood' \in [slot : Switch!Slot0, spot : BOOLEAN], stood'.slot = stood.slot,
             hold' \in {"no", "taken", "lent", "back"}, turn' \in Request \cup {None},
             q.pc = "on" => turn' = r /\ hold' # "lent" /\ q.spot = req[r].spot /\ q.prev = lastSlot
                            /\ stood'.spot = stood.spot,
             q.pc = "lent" => turn' = None /\ hold' = "lent" /\ q.spot = 0 /\ ~q.again
                              /\ stood'.spot = FALSE,
             Switch!SpotOf(latest') = 0 \/ latest' = latest
      PROVE  SwitchSound'
  <2>1. /\ req' \in [Request -> RequestType] /\ req'[r] = q
        /\ \A x \in Request : x # r => req'[x] = req[x]
    BY <1>0, <1>5, AtIs
  <2>2. \A x \in Request : x # r => req'[x].pc \notin {"off", "on", "start", "resume", "say", "lent"}
    BY <1>2, <2>1
  <2>3. \A n \in 1..Len(inst) : /\ inst'[n].state = "attaching" => inst'[n].slot = 0
                                /\ inst'[n].told => inst'[n].slot >= 1
                                                    \/ (~inst'[n].well /\ inst'[n].out = Lendable)
    BY <1>0, <1>4, LetGoIs DEF RequestsTyped, SpotIsKept
  <2>4. Switch!SwitchTypeOK'
    <3>1. \A n \in 1..Len(inst') : inst'[n].here <=> n = active'
      BY <1>1, <1>4
    <3>2. \A x \in Request : req'[x].pc \in {"off", "on", "start", "resume", "say"} <=> turn' = x
      BY <1>5, <2>1, <2>2 DEF Switch!SwitchAssumption
    <3>3. active' \in 0..Len(inst')
      BY <1>0, <1>1, <1>4, Facts
    <3> QED BY <1>0, <1>1, <1>3, <1>4, <1>5, <3>1, <3>2, <3>3
            DEF Switch!SwitchTypeOK, BackendType, WordType
  <2>5. RequestsTyped'
    BY <1>0, <1>2, <1>4, <1>5, <2>1, <2>2, <2>3 DEF RequestsTyped
  <2>6. LentIsOnes'
    BY <1>2, <1>5, <2>1, <2>2 DEF LentIsOnes
  <2>7. StandsAtLast'
    <3>1. \A x \in Request : Carries(x)' => x = r /\ q.pc = "on"
      BY <1>5, <2>1, <2>2 DEF Carries
    <3>2. Carries(r)
      BY <1>1 DEF Carries
    <3>3. "stray" \notin excused => Switch!SpotOf(latest)' \in {0, lastSlot}
      BY <1>0, <1>5 DEF StandsAtLast, Switch!SpotOf
    <3>4. \A x \in Request : req'[x].pc # "start"
      BY <1>5, <2>1, <2>2
    <3> QED BY <1>0, <1>1, <1>5, <2>1, <3>1, <3>2, <3>3, <3>4 DEF StandsAtLast
  <2>8. SpotIsKept'
    <3>1. CASE q.pc = "lent"
      BY <1>4, <1>5, <2>3, <3>1 DEF SpotIsKept
    <3>2. CASE q.pc = "on"
      BY <1>0, <1>1, <1>4, <1>5, <2>1, <2>2, <2>3, <3>2 DEF SpotIsKept
    <3> QED BY <1>5, <3>1, <3>2
  <2>9. HeirListens'
    BY <1>2 DEF HeirListens
  <2> QED BY <2>4, <2>5, <2>6, <2>7, <2>8, <2>9 DEF SwitchSound, SwitchTyped
<1>6. CASE req[r].what = "hold"
  <2> DEFINE q == [req[r] EXCEPT !.pc = "lent", !.spot = 0]
  <2>1. /\ hold' = "lent" /\ turn' = None /\ latest' = Switch!Word("stopped", 0, 0)
        /\ stood' = [stood EXCEPT !.spot = FALSE] /\ Switch!At(r, q)
    BY <1>6 DEF Switch!Off
  <2>2. q \in RequestType /\ q.pc = "lent" /\ q.spot = 0 /\ q.again = req[r].again
    BY <1>2 DEF RequestType
  <2>3. ~req[r].again
    BY <1>0, <1>1, <1>6 DEF LentIsOnes
  <2>4. latest' \in WordType /\ Switch!SpotOf(latest') = 0
    BY <1>2, <2>1 DEF Switch!Word, WordType, Switch!SpotOf
  <2>5. stood' \in [slot : Switch!Slot0, spot : BOOLEAN] /\ stood'.slot = stood.slot /\ stood'.spot = FALSE
    BY <1>0, <2>1, Facts
  <2> HIDE DEF q
  <2> QED BY <1>5, <2>1, <2>2, <2>3, <2>4, <2>5
<1>7. CASE req[r].what # "hold"
  <2> DEFINE q == [req[r] EXCEPT !.pc = "on", !.prev = lastSlot]
  <2>1. /\ latest' = (IF req[r].again THEN latest ELSE Switch!Word("disconnected", 0, 0)) /\ Switch!At(r, q)
        /\ UNCHANGED <<hold, turn, stood>>
    BY <1>7 DEF Switch!Off
  <2>2. q \in RequestType /\ q.pc = "on" /\ q.spot = req[r].spot /\ q.prev = lastSlot
    BY <1>2 DEF RequestType
  <2>3. Switch!Word("disconnected", 0, 0) \in WordType /\ Switch!SpotOf(Switch!Word("disconnected", 0, 0)) = 0
    BY <1>2 DEF Switch!Word, WordType, Switch!SpotOf
  <2>4. latest' \in WordType /\ (Switch!SpotOf(latest') = 0 \/ latest' = latest)
    BY <1>0, <2>1, <2>3, Facts
  <2>5. /\ stood' \in [slot : Switch!Slot0, spot : BOOLEAN] /\ stood' = stood
        /\ hold' \in {"no", "taken", "lent", "back"} /\ turn' \in Request \cup {None}
    BY <1>0, <2>1, Facts
  <2> HIDE DEF q
  <2> QED BY <1>2, <1>5, <2>1, <2>2, <2>4, <2>5
<1> QED BY <1>6, <1>7

\* HQPlayer comes back from its job with no spot to go to.
LEMMA EndJobSteps ==
    ASSUME Switch!SwitchAssumption, SwitchSound, NEW r \in Request, Switch!EndJob(r)
    PROVE  SwitchSound'
<1>0. /\ Switch!SwitchTypeOK /\ RequestsTyped /\ LentIsOnes /\ StandsAtLast /\ SpotIsKept /\ HeirListens
      /\ SwitchTyped
  BY DEF SwitchSound, SwitchTyped
<1> DEFINE q == [req[r] EXCEPT !.pc = "on", !.to = Lendable]
<1>1. /\ req[r].pc = "lent" /\ turn = None /\ turn' = r /\ hold' = "back" /\ Switch!At(r, q)
      /\ UNCHANGED <<inst, active, chosen, latest, lastSlot, carried, listen, stale, stood, excused>>
  BY DEF Switch!EndJob, Switch!outputs, Switch!status, Switch!tracker
<1>2. /\ hold = "lent" /\ ~Switch!Here /\ ~Switch!Here' /\ req[r].spot = 0 /\ ~req[r].again
      /\ \A x \in Request : x # r => req[x].pc # "lent"
      /\ \A x \in Request : req[x].pc \notin {"off", "on", "start", "resume", "say"}
  BY <1>0, <1>1 DEF LentIsOnes, Switch!SwitchTypeOK, Switch!SwitchAssumption, Switch!Here
<1>3. /\ q \in RequestType /\ q.pc = "on" /\ q.spot = 0 /\ q.again = req[r].again
  <2>1. req[r] \in RequestType /\ Lendable \in Output
    BY <1>0, Facts DEF Switch!SwitchAssumption
  <2> QED BY <1>2, <2>1 DEF RequestType
<1> HIDE DEF q
<1>4. /\ req' \in [Request -> RequestType] /\ req'[r] = q
      /\ \A x \in Request : x # r => req'[x] = req[x]
  BY <1>0, <1>1, <1>3, AtIs
<1>5. Switch!SpotOf(latest)' = Switch!SpotOf(latest)
  BY <1>1 DEF Switch!SpotOf
<1>6. Switch!SwitchTypeOK'
  <2>1. \A x \in Request : req'[x].pc \in {"off", "on", "start", "resume", "say"} <=> turn' = x
    BY <1>1, <1>2, <1>3, <1>4
  <2> QED BY <1>0, <1>1, <2>1 DEF Switch!SwitchTypeOK
<1>7. RequestsTyped'
  BY <1>0, <1>1, <1>2, <1>3, <1>4 DEF RequestsTyped
<1>8. LentIsOnes'
  BY <1>0, <1>1, <1>2, <1>3, <1>4 DEF LentIsOnes
<1>9. StandsAtLast'
  <2>1. \A x \in Request : Carries(x)' => x = r
    BY <1>2, <1>3, <1>4 DEF Carries
  <2>2. \A x \in Request : req'[x].pc # "start"
    BY <1>2, <1>3, <1>4
  <2> QED BY <1>0, <1>1, <1>2, <1>3, <1>4, <1>5, <2>1, <2>2 DEF StandsAtLast
<1>10. SpotIsKept'
  BY <1>0, <1>1, <1>2 DEF SpotIsKept
<1>11. HeirListens'
  BY <1>2 DEF HeirListens
<1> QED BY <1>6, <1>7, <1>8, <1>9, <1>10, <1>11 DEF SwitchSound, SwitchTyped

\* The listen is carried to the output that is named, when there is a spot.
LEMMA OnSteps ==
    ASSUME Switch!SwitchAssumption, SwitchSound, NEW r \in Request, Switch!On(r)
    PROVE  SwitchSound'
<1>0. /\ Switch!SwitchTypeOK /\ RequestsTyped /\ LentIsOnes /\ StandsAtLast /\ SpotIsKept /\ HeirListens
      /\ SwitchTyped
  BY DEF SwitchSound, SwitchTyped
<1> DEFINE q == [Switch!Idle EXCEPT !.pc = "start", !.what = req[r].what, !.spot = req[r].spot,
                             !.prev = IF req[r].again THEN req[r].prev ELSE lastSlot]
           b == [Switch!Attached(req[r].to) EXCEPT !.heir = Switch!Inherits]
           n == Len(inst) + 1
<1>1. /\ req[r].pc = "on" /\ carried' = (req[r].spot >= 1 /\ listen # 0)
      /\ inst' = Append(inst, b) /\ active' = n /\ Switch!At(r, q)
      /\ UNCHANGED <<chosen, latest, lastSlot, listen, stale, turn, hold, stood, excused>>
  BY DEF Switch!On, Switch!status
<1>2. /\ ~Switch!Here /\ turn = r /\ hold # "lent" /\ req[r] \in RequestType /\ Len(inst) \in Nat
      /\ lastSlot \in Switch!Slot0 /\ Switch!Inherits \in BOOLEAN
      /\ \A x \in Request : x # r => req[x].pc \notin {"off", "on", "start", "resume", "say"}
  <2>1. turn = r /\ \A x \in Request : x # r => req[x].pc \notin {"off", "on", "start", "resume", "say"}
    BY <1>0, <1>1, TurnIsOne
  <2>2. ~Switch!Here /\ hold # "lent"
    BY <1>0, <1>1, <2>1 DEF LentIsOnes, RequestsTyped, Switch!SwitchAssumption
  <2>3. Switch!Inherits \in BOOLEAN
    BY <1>0, Facts DEF Switch!Inherits
  <2> QED BY <1>0, <1>1, <2>1, <2>2, <2>3, Facts
<1>3. req[r].spot \in Switch!Slot0 /\ req[r].spot \in Int
  <2>1. req[r].spot \in Switch!Slot0
    BY <1>2 DEF RequestType
  <2> QED BY <1>0, <2>1, Facts
<1>4. /\ q \in RequestType /\ q.pc = "start" /\ q.spot = req[r].spot
      /\ q.prev = IF req[r].again THEN req[r].prev ELSE lastSlot
  BY <1>2, IdleIs DEF RequestType
<1>5. /\ b \in BackendType /\ b.here = TRUE /\ b.state = "attaching" /\ b.slot = 0
      /\ b.heir = Switch!Inherits /\ b.told = FALSE
  <2> DEFINE named == Switch!Attached(req[r].to)
  <2>1. req[r].to \in Output \cup {None}
    BY <1>2 DEF RequestType
  <2>2. named \in BackendType /\ named.here = TRUE /\ named.state = "attaching" /\ named.slot = 0 /\ named.told = FALSE
    BY <2>1, AttachedIs
  <2> HIDE DEF named
  <2>3. b = [named EXCEPT !.heir = Switch!Inherits]
    BY DEF named
  <2> HIDE DEF b
  <2> QED BY <1>2, <2>2, <2>3 DEF BackendType
<1> HIDE DEF q, b
<1>6. /\ req' \in [Request -> RequestType] /\ req'[r] = q
      /\ \A x \in Request : x # r => req'[x] = req[x]
  BY <1>0, <1>1, <1>4, AtIs
<1>7. /\ inst' \in Seq(BackendType) /\ Len(inst') = n /\ inst'[n] = b
      /\ \A m \in 1..Len(inst) : inst'[m] = inst[m]
      /\ \A m \in 1..Len(inst') : inst'[m].here <=> m = n
  BY <1>0, <1>1, <1>2, <1>5, AppendedIs
<1>8. Switch!Here' /\ inst'[active'] = b /\ Switch!SpotOf(latest)' = Switch!SpotOf(latest)
  BY <1>1, <1>2, <1>7 DEF Switch!Here, Switch!SpotOf
<1>9. \A m \in 1..Len(inst') : m \in 1..Len(inst) \/ m = n
  BY <1>2, <1>7
<1>10. \A x \in Request : x # r => req'[x].pc \notin {"off", "on", "start", "resume", "say"}
  BY <1>2, <1>6
<1>11. Switch!SwitchTypeOK'
  <2>1. \A x \in Request : req'[x].pc \in {"off", "on", "start", "resume", "say"} <=> turn' = x
    BY <1>1, <1>2, <1>4, <1>6, <1>10
  <2>2. active' \in 0..Len(inst') /\ carried' \in BOOLEAN
    BY <1>1, <1>2, <1>3, <1>7
  <2> QED BY <1>0, <1>1, <1>7, <2>1, <2>2 DEF Switch!SwitchTypeOK, BackendType
<1>12. RequestsTyped'
  <2>1. \A m \in 1..Len(inst') : inst'[m].state = "attaching" => inst'[m].slot = 0
    BY <1>0, <1>5, <1>7, <1>9 DEF RequestsTyped
  <2>2. \A x \in Request : req'[x].pc = "press" => req'[x].inst \in 1..Len(inst')
    BY <1>0, <1>2, <1>4, <1>6, <1>7 DEF RequestsTyped
  <2> QED BY <1>2, <1>4, <1>6, <1>8, <1>10, <2>1, <2>2 DEF RequestsTyped
<1>13. LentIsOnes'
  BY <1>0, <1>1, <1>2, <1>4, <1>6, <1>10 DEF LentIsOnes
<1>14. StandsAtLast'
  <2>1. \A x \in Request : Carries(x)' => x = r
    BY <1>10 DEF Carries
  <2>2. Carries(r)
    BY <1>1 DEF Carries
  <2>3. "stray" \notin excused => q.spot \in {0, lastSlot} /\ q.prev = lastSlot
    BY <1>0, <1>1, <1>4, <2>2 DEF StandsAtLast
  <2> QED BY <1>0, <1>1, <1>5, <1>6, <1>8, <2>1, <2>3 DEF StandsAtLast
<1>15. SpotIsKept'
  <2>1. \A m \in 1..Len(inst') : inst'[m].told =>
            inst'[m].slot >= 1 \/ (~inst'[m].well /\ inst'[m].out = Lendable)
    BY <1>0, <1>5, <1>7, <1>9 DEF SpotIsKept
  <2> QED BY <1>0, <1>1, <1>2, <1>4, <1>5, <1>6, <1>8, <1>10, <2>1 DEF SpotIsKept
<1>16. HeirListens'
  <2> SUFFICES ASSUME excused = {}, Switch!Inherits
               PROVE  carried' /\ listen # 0 /\ listen = stood.slot
    BY <1>1, <1>5, <1>8 DEF HeirListens
  <2>1. req[r].spot >= 1
    BY <1>0, <1>1 DEF SpotIsKept, Switch!Inherits
  <2> QED BY <1>1, <2>1 DEF Switch!Inherits
<1> QED BY <1>11, <1>12, <1>13, <1>14, <1>15, <1>16 DEF SwitchSound, SwitchTyped

\* What did not start leaves its spot in the status.
LEMMA StartFailsSteps ==
    ASSUME Switch!SwitchAssumption, SwitchSound, NEW r \in Request, Switch!StartFails(r)
    PROVE  SwitchSound'
<1>0. /\ Switch!SwitchTypeOK /\ RequestsTyped /\ LentIsOnes /\ StandsAtLast /\ SpotIsKept /\ HeirListens
      /\ SwitchTyped
  BY DEF SwitchSound, SwitchTyped
<1>1. /\ req[r].pc = "start" /\ inst[active].out \in Rendered /\ active' = 0 /\ inst' = Switch!Detached
      /\ latest' = Switch!Failed(req[r].spot) /\ turn' = None /\ hold' = "no" /\ Switch!At(r, Switch!Idle)
      /\ UNCHANGED <<chosen, lastSlot, carried, listen, stale, stood, excused>>
  BY DEF Switch!StartFails, Switch!tracker, Switch!Unlock
<1>2. /\ turn = r /\ hold # "lent" /\ ~Switch!Here' /\ req[r] \in RequestType /\ 0 \in Switch!Slot0
      /\ inst[active].state = "attaching"
      /\ \A x \in Request : x # r => req[x].pc \notin {"off", "on", "start", "resume", "say", "lent"}
  <2>1. turn = r /\ \A x \in Request : x # r => req[x].pc \notin {"off", "on", "start", "resume", "say"}
    BY <1>0, <1>1, TurnIsOne
  <2>2. hold # "lent"
    BY <1>0, <2>1 DEF LentIsOnes, Switch!SwitchAssumption
  <2> QED BY <1>0, <1>1, <2>1, <2>2, Facts DEF LentIsOnes, StandsAtLast, Switch!Here
<1>3. /\ inst' \in Seq(BackendType) /\ Len(inst') = Len(inst)
      /\ \A n \in 1..Len(inst) : inst'[n] = inst[n] \/ inst'[n] = Switch!LetGo
      /\ \A n \in 1..Len(inst) : inst'[n].here = FALSE
  <2>1. \A n \in 1..Len(inst) : ~inst'[n].here /\ inst'[n] \in BackendType
    BY <1>0, <1>1, DetachedIs
  <2>2. \A n \in 1..Len(inst) : inst'[n].here = FALSE
    BY <2>1 DEF BackendType
  <2> QED BY <1>0, <1>1, <2>2, DetachedIs
<1>4. /\ req' \in [Request -> RequestType] /\ req'[r] = Switch!Idle
      /\ \A x \in Request : x # r => req'[x] = req[x]
  BY <1>0, <1>1, AtIs, IdleIs
<1>5. \A x \in Request : req'[x].pc \notin {"off", "on", "start", "resume", "say", "lent"}
  BY <1>2, <1>4, IdleIs
<1>6. latest' \in WordType /\ Switch!SpotOf(latest)' = req[r].spot
  <2>1. req[r].spot \in Switch!Slot0
    BY <1>2 DEF RequestType
  <2>2. latest' = Switch!Word("disconnected", 0, req[r].spot)
    BY <1>1 DEF Switch!Failed
  <2> QED BY <1>2, <2>1, <2>2 DEF Switch!Word, WordType, Switch!SpotOf
<1>7. \A n \in 1..Len(inst) : /\ inst'[n].state = "attaching" => inst'[n].slot = 0
                              /\ inst'[n].told => inst'[n].slot >= 1
                                                  \/ (~inst'[n].well /\ inst'[n].out = Lendable)
  BY <1>0, <1>3, LetGoIs DEF RequestsTyped, SpotIsKept
<1>8. Switch!SwitchTypeOK'
  <2>1. \A n \in 1..Len(inst') : inst'[n].here <=> n = active'
    BY <1>1, <1>3
  <2>2. \A x \in Request : req'[x].pc \in {"off", "on", "start", "resume", "say"} <=> turn' = x
    BY <1>1, <1>5 DEF Switch!SwitchAssumption
  <2>3. active' \in 0..Len(inst')
    BY <1>0, <1>1, <1>3, Facts
  <2> QED BY <1>0, <1>1, <1>3, <1>6, <2>1, <2>2, <2>3 DEF Switch!SwitchTypeOK, BackendType, WordType
<1>9. RequestsTyped'
  BY <1>0, <1>3, <1>4, <1>5, <1>7, IdleIs DEF RequestsTyped
<1>10. LentIsOnes'
  BY <1>1, <1>5 DEF LentIsOnes
<1>11. StandsAtLast'
  <2>1. \A x \in Request : ~Carries(x)'
    BY <1>5 DEF Carries
  <2>2. Carries(r)
    BY <1>1, <1>2 DEF Carries
  <2>3. "stray" \notin excused => req[r].spot \in {0, lastSlot}
    BY <1>0, <2>2 DEF StandsAtLast
  <2> QED BY <1>0, <1>1, <1>5, <1>6, <2>1, <2>3 DEF StandsAtLast
<1>12. SpotIsKept'
  BY <1>0, <1>1, <1>2, <1>3, <1>5, <1>6, <1>7 DEF SpotIsKept
<1>13. HeirListens'
  BY <1>2 DEF HeirListens
<1> QED BY <1>8, <1>9, <1>10, <1>11, <1>12, <1>13 DEF SwitchSound, SwitchTyped

\* The change is over.
LEMMA LeaveSteps ==
    ASSUME Switch!SwitchAssumption, SwitchSound, NEW r \in Request, Switch!Leave(r)
    PROVE  SwitchSound'
<1>0. /\ Switch!SwitchTypeOK /\ RequestsTyped /\ LentIsOnes /\ StandsAtLast /\ SpotIsKept /\ HeirListens
      /\ SwitchTyped
  BY DEF SwitchSound, SwitchTyped
<1>1. /\ req[r].pc = "say" /\ turn' = None /\ hold' = "no" /\ (Switch!At(r, Switch!Pressing) \/ Switch!At(r, Switch!Idle))
      /\ UNCHANGED <<inst, active, chosen, latest, lastSlot, carried, listen, stale, stood, excused>>
  BY DEF Switch!Leave, Switch!outputs, Switch!status, Switch!tracker, Switch!Unlock
<1>2. /\ Switch!Here /\ Switch!Here' /\ turn = r /\ hold # "lent"
      /\ \A x \in Request : x # r => req[x].pc \notin {"off", "on", "start", "resume", "say", "lent"}
  <2>1. turn = r /\ \A x \in Request : x # r => req[x].pc \notin {"off", "on", "start", "resume", "say"}
    BY <1>0, <1>1, TurnIsOne
  <2>2. hold # "lent"
    BY <1>0, <2>1 DEF LentIsOnes, Switch!SwitchAssumption
  <2> QED BY <1>0, <1>1, <2>1, <2>2 DEF LentIsOnes, RequestsTyped, Switch!Here
<1>3. PICK q \in RequestType : /\ Switch!At(r, q) /\ q.pc \in {"idle", "press"}
                               /\ q.pc = "press" => q.inst \in 1..Len(inst)
  <2>1. Switch!Pressing \in RequestType /\ Switch!Pressing.pc = "press" /\ Switch!Pressing.inst \in 1..Len(inst)
    BY <1>0, <1>2, PressingIs, Facts
  <2>2. Switch!Idle \in RequestType /\ Switch!Idle.pc = "idle"
    BY IdleIs
  <2> HIDE DEF Switch!Pressing, Switch!Idle
  <2> QED BY <1>1, <2>1, <2>2
<1>4. /\ req' \in [Request -> RequestType] /\ req'[r] = q
      /\ \A x \in Request : x # r => req'[x] = req[x]
  BY <1>0, <1>3, AtIs
<1>5. \A x \in Request : req'[x].pc \notin {"off", "on", "start", "resume", "say", "lent"}
  BY <1>2, <1>3, <1>4
<1>6. Switch!SpotOf(latest)' = Switch!SpotOf(latest)
  BY <1>1 DEF Switch!SpotOf
<1>7. Switch!SwitchTypeOK'
  <2>1. \A x \in Request : req'[x].pc \in {"off", "on", "start", "resume", "say"} <=> turn' = x
    BY <1>1, <1>5 DEF Switch!SwitchAssumption
  <2> QED BY <1>0, <1>1, <2>1 DEF Switch!SwitchTypeOK
<1>8. RequestsTyped'
  BY <1>0, <1>1, <1>2, <1>3, <1>4, <1>5 DEF RequestsTyped
<1>9. LentIsOnes'
  BY <1>1, <1>5 DEF LentIsOnes
<1>10. StandsAtLast'
  <2>1. \A x \in Request : ~Carries(x)'
    BY <1>5 DEF Carries
  <2> QED BY <1>0, <1>1, <1>5, <1>6, <2>1 DEF StandsAtLast
<1>11. SpotIsKept'
  <2>1. \A x \in Request : req[x].pc \notin {"off", "on"}
    BY <1>1, <1>2
  <2> QED BY <1>0, <1>1, <1>2, <1>5, <1>6, <2>1 DEF SpotIsKept
<1>12. HeirListens'
  BY <1>0, <1>1, <1>2, <1>5 DEF HeirListens
<1> QED BY <1>7, <1>8, <1>9, <1>10, <1>11, <1>12 DEF SwitchSound, SwitchTyped

-----------------------------------------------------------------------------
LEMMA SwitchStarts ==
    ASSUME Switch!SwitchAssumption, Switch!SwitchInit
    PROVE  SwitchSound
<1> DEFINE b == [Switch!Attached(chosen) EXCEPT !.state = "playing", !.slot = 1, !.told = TRUE]
<1>1. /\ chosen \in Output /\ inst = <<b>> /\ active = 1 /\ latest = Switch!Word("playing", 1, 0)
      /\ lastSlot = 1 /\ carried = FALSE /\ listen = 1 /\ stale = Switch!NoWord /\ turn = None
      /\ req = [r \in Request |-> Switch!Idle] /\ hold = "no"
      /\ stood = [slot |-> 1, spot |-> TRUE] /\ excused = {}
  BY DEF Switch!SwitchInit
<1>2. 0 \in Switch!Slot0 /\ 1 \in Switch!Slot0
  BY DEF Switch!SwitchAssumption, Switch!Slot0
<1>3. /\ b \in BackendType /\ b.here = TRUE /\ b.state = "playing" /\ b.slot = 1
      /\ b.heir = FALSE /\ b.told = TRUE
  <2> DEFINE named == Switch!Attached(chosen)
  <2>1. named \in BackendType /\ named.here = TRUE /\ named.heir = FALSE
    BY <1>1, AttachedIs
  <2> HIDE DEF named
  <2>2. b = [named EXCEPT !.state = "playing", !.slot = 1, !.told = TRUE]
    BY DEF named
  <2> HIDE DEF b
  <2> QED BY <1>2, <2>1, <2>2 DEF BackendType
<1> HIDE DEF b
<1>4. /\ inst \in Seq(BackendType) /\ Len(inst) = 1 /\ inst[1] = b /\ Switch!Here
      /\ \A n \in 1..Len(inst) : n = 1
  BY <1>1, <1>3 DEF Switch!Here
<1>5. /\ req \in [Request -> RequestType]
      /\ \A r \in Request : req[r].pc = "idle"
  BY <1>1, IdleIs
<1>6. latest \in WordType /\ Switch!SpotOf(latest) = 1
  BY <1>1, <1>2 DEF Switch!Word, WordType, Switch!SpotOf
<1>7. Switch!SwitchTypeOK
  <2>1. \A r \in Request : req[r].pc \in {"off", "on", "start", "resume", "say"} <=> turn = r
    BY <1>1, <1>5 DEF Switch!SwitchAssumption
  <2>2. stood \in [slot : Switch!Slot0, spot : BOOLEAN] /\ lastSlot \in Switch!Slot0 /\ listen \in Switch!Slot0
    BY <1>1, <1>2
  <2>3. /\ active \in 0..Len(inst) /\ turn \in Request \cup {None} /\ carried \in BOOLEAN
        /\ \A n \in 1..Len(inst) : inst[n].here <=> n = active
    <3>1. \A n \in 1..Len(inst) : inst[n].here = TRUE /\ n = active
      BY <1>1, <1>3, <1>4
    <3>2. active = 1 /\ Len(inst) = 1 /\ turn = None /\ carried = FALSE
      BY <1>1, <1>4
    <3>3. active \in 0..Len(inst)
      BY ONLY <3>2
    <3>4. \A n \in 1..Len(inst) : inst[n].here <=> n = active
      BY ONLY <3>1
    <3>5. turn \in Request \cup {None} /\ carried \in BOOLEAN
      BY ONLY <3>2
    <3> QED BY ONLY <3>3, <3>4, <3>5
  <2>4. hold \in {"no", "taken", "lent", "back"} /\ excused \subseteq {"stray", "unsaid"}
    BY <1>1
  <2>5. chosen \in Output /\ stale = Switch!NoWord
    BY <1>1
  <2> HIDE <1>1
  <2> QED BY <1>4, <1>6, <2>1, <2>2, <2>3, <2>4, <2>5 DEF Switch!SwitchTypeOK, BackendType, WordType
<1>8. RequestsTyped
  BY <1>3, <1>4, <1>5 DEF RequestsTyped
<1>9. LentIsOnes
  BY <1>1, <1>5 DEF LentIsOnes
<1>10. StandsAtLast
  <2>1. stood.slot = lastSlot /\ Switch!SpotOf(latest) = lastSlot
    BY <1>1, <1>6
  <2> QED BY <1>5, <2>1 DEF StandsAtLast, Carries
<1>11. SpotIsKept
  BY <1>1, <1>3, <1>4, <1>5, <1>6 DEF SpotIsKept
<1>12. HeirListens
  BY <1>1, <1>3, <1>4 DEF HeirListens
<1> QED BY <1>7, <1>8, <1>9, <1>10, <1>11, <1>12 DEF SwitchSound, SwitchTyped

LEMMA SwitchSteps ==
    ASSUME Switch!SwitchAssumption, SwitchSound, [Switch!SwitchNext]_(Switch!vars)
    PROVE  SwitchSound'
<1>1. CASE Switch!World
  BY <1>1, WorldSteps
<1>2. CASE Switch!Say
  BY <1>2, SaySteps
<1>3. CASE Switch!SayStale
  BY <1>3, SayStaleSteps
<1>4. ASSUME NEW r \in Request,
             \/ Switch!PickAnother(r) \/ Switch!AttachAgain(r) \/ Switch!Hold(r) \/ Switch!TakeOutput(r)
             \/ Switch!Off(r) \/ Switch!EndJob(r) \/ Switch!On(r) \/ Switch!StartFails(r) \/ Switch!Start(r) \/ Switch!ResumeAt(r) \/ Switch!Leave(r)
             \/ Switch!Command(r)
      PROVE  SwitchSound'
  <2>1. CASE Switch!PickAnother(r) \/ Switch!AttachAgain(r) \/ Switch!Hold(r)
    BY <2>1, BeginSteps
  <2>2. CASE Switch!TakeOutput(r)
    BY <2>2, TakeOutputSteps
  <2>3. CASE Switch!Off(r)
    BY <2>3, OffSteps
  <2>4. CASE Switch!EndJob(r)
    BY <2>4, EndJobSteps
  <2>5. CASE Switch!On(r)
    BY <2>5, OnSteps
  <2>6. CASE Switch!StartFails(r)
    BY <2>6, StartFailsSteps
  <2>7. CASE Switch!Start(r)
    BY <2>7, StartSteps
  <2>8. CASE Switch!ResumeAt(r)
    BY <2>8, ResumeSteps
  <2>9. CASE Switch!Leave(r)
    BY <2>9, LeaveSteps
  <2>10. CASE Switch!Command(r)
    BY <2>10, CommandSteps
  <2> QED BY <1>4, <2>1, <2>2, <2>3, <2>4, <2>5, <2>6, <2>7, <2>8, <2>9, <2>10
<1>5. CASE UNCHANGED Switch!vars
  <2>1. /\ UNCHANGED <<inst, active, chosen, latest, lastSlot, carried, listen, stale, turn, req>>
        /\ UNCHANGED <<hold, stood, excused>>
    BY <1>5 DEF Switch!vars, Switch!outputs, Switch!status, Switch!tracker
  <2>2. /\ Switch!Here' = Switch!Here /\ Switch!SpotOf(latest)' = Switch!SpotOf(latest)
        /\ \A r \in Request : Carries(r)' <=> Carries(r)
    BY <2>1 DEF Switch!Here, Switch!SpotOf, Carries
  <2>3. Switch!SwitchTypeOK'
    BY <2>1 DEF SwitchSound, SwitchTyped, Switch!SwitchTypeOK
  <2>4. RequestsTyped'
    BY <2>1, <2>2 DEF SwitchSound, SwitchTyped, RequestsTyped
  <2>5. LentIsOnes'
    BY <2>1, <2>2 DEF SwitchSound, LentIsOnes
  <2>6. StandsAtLast'
    BY <2>1, <2>2 DEF SwitchSound, StandsAtLast
  <2>7. SpotIsKept'
    BY <2>1, <2>2 DEF SwitchSound, SpotIsKept
  <2>8. HeirListens'
    BY <2>1, <2>2 DEF SwitchSound, HeirListens
  <2> QED BY <2>3, <2>4, <2>5, <2>6, <2>7, <2>8 DEF SwitchSound, SwitchTyped
<1> QED BY <1>1, <1>2, <1>3, <1>4, <1>5 DEF Switch!SwitchNext

\* Of the lent output nothing is asked and nothing is told: every step that
\* reaches an output needs one attached, or the locks, or the end of the job.
LEMMA LentIsLeft ==
    ASSUME Switch!SwitchAssumption, SwitchSound, Switch!SwitchNext
    PROVE  Switch!LeavesTheLentAlone
<1> SUFFICES ASSUME hold = "lent"
             PROVE  UNCHANGED <<inst, active>>
  BY DEF Switch!LeavesTheLentAlone
<1>1. /\ ~Switch!Here /\ \A r \in Request : req[r].pc \notin {"off", "on", "start", "resume", "say"}
      /\ \A r \in Request : req[r].pc \in {"start", "resume", "say"} => Switch!Here
  BY DEF SwitchSound, SwitchTyped, Switch!SwitchTypeOK, RequestsTyped, LentIsOnes, Switch!SwitchAssumption
<1>2. CASE Switch!World \/ Switch!Say
  BY <1>1, <1>2 DEF Switch!World, Switch!Fit, Switch!Say
<1>3. CASE Switch!SayStale
  BY <1>3 DEF Switch!SayStale, Switch!Counts
<1>4. ASSUME NEW r \in Request,
             \/ Switch!PickAnother(r) \/ Switch!AttachAgain(r) \/ Switch!Hold(r) \/ Switch!TakeOutput(r)
      PROVE  UNCHANGED <<inst, active>>
  BY <1>4 DEF Switch!PickAnother, Switch!AttachAgain, Switch!Hold, Switch!TakeOutput, Switch!Begins
<1>5. ASSUME NEW r \in Request,
             Switch!Off(r) \/ Switch!On(r) \/ Switch!StartFails(r) \/ Switch!Start(r) \/ Switch!ResumeAt(r) \/ Switch!Leave(r)
      PROVE  UNCHANGED <<inst, active>>
  BY <1>1, <1>5 DEF Switch!Off, Switch!On, Switch!StartFails, Switch!Start, Switch!ResumeAt, Switch!Leave
<1>6. ASSUME NEW r \in Request, Switch!EndJob(r)
      PROVE  UNCHANGED <<inst, active>>
  BY <1>6 DEF Switch!EndJob, Switch!outputs
<1>7. ASSUME NEW r \in Request, Switch!Command(r)
      PROVE  UNCHANGED <<inst, active>>
  BY <1>7 DEF Switch!Command, Switch!Takes
<1> QED BY <1>2, <1>3, <1>4, <1>5, <1>6, <1>7 DEF Switch!SwitchNext

\* The place it is told is the last one named, and its first words find the
\* listen where it is.
LEMMA ListenGoesOn ==
    ASSUME Switch!SwitchAssumption, SwitchSound, Switch!SwitchNext
    PROVE  Switch!GoesOn
<1>0. SwitchTyped /\ RequestsTyped /\ Switch!SwitchTypeOK
  BY DEF SwitchSound, SwitchTyped
<1>1. ASSUME NEW r \in Request, Switch!ResumeAt(r), inst[active].state = "attaching",
             "stray" \notin excused
      PROVE  inst'[active].slot = stood.slot
  <2> DEFINE o == inst[active]
             p == Switch!Place(req[r])
  <2>1. req[r].pc = "resume" /\ Switch!Here
    BY <1>0, <1>1 DEF Switch!ResumeAt, RequestsTyped
  <2>2. PICK b \in Switch!Placed(o, p) : Switch!Goes(b)
    BY <1>1 DEF Switch!ResumeAt
  <2>3. o \in BackendType /\ o.here /\ p \in Switch!Slot0 /\ p = stood.slot /\ o.slot = 0
    BY <1>0, <1>1, <2>1, Facts, PlaceIs DEF Switch!SwitchTypeOK, RequestsTyped
  <2>t. o.state = "attaching"
    BY <1>1
  <2> HIDE DEF p, o
  <2>4. b \in Switch!Placed(o, p)
    BY <2>2
  <2>5. b \in BackendType /\ b.here = o.here /\ b.slot = p
    <3>1. o \in BackendType /\ p \in Switch!Slot0
      BY <2>3
    <3>2. /\ b \in BackendType /\ b.here = o.here
          /\ \/ b = o /\ o.state # "attaching"
             \/ b.slot = p
             \/ p = 0 /\ b.slot = o.slot
      BY ONLY <3>1, <2>4, PlacedIs, Switch!SwitchAssumption
    <3> QED BY <2>t, <2>3, <3>2
  <2>6. inst'[active] = b
    BY <1>0, <2>1, <2>2, <2>3, <2>5, GoesIs
  <2> QED BY <2>3, <2>5, <2>6
<1>2. ASSUME excused' = {}, Switch!Say, inst[active].heir
      PROVE  listen' = listen
  <2>1. excused = {}
    BY <1>2 DEF Switch!Say
  <2>2. Switch!Here /\ Switch!Tracked(Switch!Says(inst[active]))
    BY <1>2 DEF Switch!Say, Switch!Counts
  <2> QED BY <1>2, <2>1, <2>2, FirstWords DEF Switch!tracker
<1> QED BY <1>1, <1>2 DEF Switch!GoesOn, Switch!FirstWordsEndNothing

\* Through every change of output what was said of the spot, and whose listen
\* it is, stay together.
LEMMA SwitchIsSound == ASSUME Switch!SwitchAssumption PROVE Switch!SwitchSpec => []SwitchSound
<1>1. Switch!SwitchInit => SwitchSound
  BY SwitchStarts
<1>2. SwitchSound /\ [Switch!SwitchNext]_(Switch!vars) => SwitchSound'
  BY SwitchSteps
<1> QED BY <1>1, <1>2, PTL DEF Switch!SwitchSpec

-----------------------------------------------------------------------------
(* WakeStreams, for any number of nodes, keys, streams and limits.  One    *)
(* invariant, WakeSound: a slot is held by a stream of a node of its key,  *)
(* one for each node; the counts are those of the slots; and a stream that *)
(* runs, or keeps its key announced, holds one.                            *)

\* No stream stands twice in the slots of a key.
OnceEach(q) == \A i, j \in 1..Len(q) : q[i] = q[j] => i = j

\* At most one stream.
AtMostOne(S) == \A t, u \in S : t = u

\* A slot is held by a stream that runs or died, of a node of the key, one for each node.
SlotsSound ==
    /\ \A k \in Account : OnceEach(slots[k])
    /\ \A k \in Account : \A s \in StreamsOf(k) :
          stage[s] \in {"open", "dead"} /\ node[s] \in Node /\ KeyOf(s) = k
    /\ \A k \in Account : \A s, t \in StreamsOf(k) : node[s].name = node[t].name => s = t

\* A request is one of a node.
AsksSound == \A s \in Stream : stage[s] # "none" => node[s] \in Node

\* The counts are those of the slots.
CountsSound ==
    /\ IsFiniteSet(Occupied)
    /\ held = Cardinality(Occupied)
    /\ \A i \in Ip : byIp[i] = Cardinality({s \in Occupied : node[s].ip = i})

Reachable == \A s \in Stream : Live(s) => HoldsItsSlot(s)

\* The inductive invariant.
WakeSound == /\ WakeTypeOK /\ SlotsSound /\ AsksSound /\ CountsSound /\ Reachable
             /\ AnnounceLives /\ OffEnds

-----------------------------------------------------------------------------
\* What a key's slots are without one of them.
LEMMA WithoutIs ==
    ASSUME NEW S, NEW q \in Seq(S), OnceEach(q), NEW gone, AtMostOne(gone)
    PROVE  /\ Without(q, gone) \in Seq(S) /\ OnceEach(Without(q, gone))
           /\ ToSet(Without(q, gone)) = ToSet(q) \ gone
<1>1. CASE ToSet(q) \cap gone = {}
  <2>1. \A i \in 1..Len(q) : q[i] \notin gone
    BY <1>1 DEF ToSet
  <2>2. Without(q, gone) = [i \in 1..Len(q) |-> q[i]]
    BY <1>1, <2>1 DEF Without, One
  <2>3. Without(q, gone) = q
    BY <2>2
  <2> QED BY <1>1, <2>3
<1>2. CASE ToSet(q) \cap gone # {}
  <2>1. PICK p \in 1..Len(q) : q[p] \in gone
    BY <1>2 DEF ToSet
  <2>2. \A i \in 1..Len(q) : q[i] \in gone <=> i = p
    BY <2>1 DEF AtMostOne, OnceEach
  <2> DEFINE w == [i \in 1..(Len(q) - 1) |-> IF i >= p THEN q[i + 1] ELSE q[i]]
  <2>3. Without(q, gone) = [i \in 1..(Len(q) - 1) |-> IF \E j \in 1..i : q[j] \in gone THEN q[i + 1] ELSE q[i]]
    BY <1>2 DEF Without, One
  <2>4. \A i \in 1..(Len(q) - 1) : (\E j \in 1..i : q[j] \in gone) <=> i >= p
    BY <2>1, <2>2
  <2>5. Without(q, gone) = w
    BY <2>3, <2>4
  <2>6. Len(q) \in Nat /\ Len(q) >= 1 /\ \A i \in 1..Len(q) : q[i] \in S
    BY <2>1
  <2>7. \A i \in 1..(Len(q) - 1) : w[i] \in S /\ w[i] = IF i >= p THEN q[i + 1] ELSE q[i]
    BY <2>6
  <2>8. w \in Seq(S) /\ Len(w) = Len(q) - 1 /\ DOMAIN w = 1..(Len(q) - 1)
    BY <2>6, <2>7, IsASeq
  <2> HIDE DEF w
  <2>9. OnceEach(w)
    BY <2>6, <2>7, <2>8 DEF OnceEach
  <2>10. ToSet(w) = ToSet(q) \ gone
    <3>1. ASSUME NEW x \in ToSet(w) PROVE x \in ToSet(q) \ gone
      <4>1. PICK i \in 1..(Len(q) - 1) : x = w[i]
        BY <2>8, <3>1 DEF ToSet
      <4>2. CASE i < p
        <5>1. i \in 1..Len(q) /\ x = q[i] /\ x \notin gone
          BY <2>1, <2>2, <2>6, <2>7, <4>1, <4>2
        <5> QED BY <5>1 DEF ToSet
      <4>3. CASE i >= p
        <5>1. i + 1 \in 1..Len(q) /\ x = q[i + 1] /\ x \notin gone
          BY <2>1, <2>2, <2>6, <2>7, <4>1, <4>3
        <5> QED BY <5>1 DEF ToSet
      <4> QED BY <2>1, <2>6, <4>2, <4>3
    <3>2. ASSUME NEW x \in ToSet(q) \ gone PROVE x \in ToSet(w)
      <4>1. PICK i \in 1..Len(q) : x = q[i]
        BY <3>2 DEF ToSet
      <4>2. i # p
        BY <2>1, <3>2, <4>1
      <4>3. CASE i < p
        BY <2>1, <2>6, <2>7, <2>8, <4>1, <4>3 DEF ToSet
      <4>4. CASE i > p
        <5>1. i - 1 \in 1..(Len(q) - 1) /\ i - 1 >= p /\ (i - 1) + 1 = i
          BY <2>1, <2>6, <4>4
        <5>2. w[i - 1] = x
          BY <2>7, <4>1, <5>1
        <5> QED BY <2>8, <5>1, <5>2 DEF ToSet
      <4> QED BY <2>1, <4>2, <4>3, <4>4
    <3> QED BY <3>1, <3>2
  <2> QED BY <2>5, <2>8, <2>9, <2>10
<1> QED BY <1>1, <1>2

\* A stream that takes a slot is the newest of its key.
LEMMA AppendIs ==
    ASSUME NEW S, NEW q \in Seq(S), OnceEach(q), NEW s \in S, s \notin ToSet(q)
    PROVE  /\ Append(q, s) \in Seq(S) /\ OnceEach(Append(q, s))
           /\ ToSet(Append(q, s)) = ToSet(q) \cup {s} /\ Append(q, s) # <<>>
<1>1. /\ Append(q, s) \in Seq(S) /\ Len(Append(q, s)) = Len(q) + 1 /\ DOMAIN Append(q, s) = 1..(Len(q) + 1)
      /\ \A i \in 1..Len(q) : Append(q, s)[i] = q[i]
      /\ Append(q, s)[Len(q) + 1] = s
      /\ DOMAIN q = 1..Len(q) /\ Len(q) \in Nat
  OBVIOUS
<1>2. \A i \in 1..Len(q) : q[i] # s
  BY <1>1 DEF ToSet
<1>3. OnceEach(Append(q, s))
  BY <1>1, <1>2 DEF OnceEach
<1>4. ToSet(Append(q, s)) = ToSet(q) \cup {s}
  BY <1>1 DEF ToSet
<1> QED BY <1>1, <1>3, <1>4

\* A set that loses one, or none.
LEMMA LosesOne ==
    ASSUME NEW A, IsFiniteSet(A), NEW Y \in SUBSET A, AtMostOne(Y)
    PROVE  /\ IsFiniteSet(A \ Y) /\ Cardinality(A \ Y) = Cardinality(A) - Cardinality(Y)
           /\ Cardinality(A) \in Nat /\ Cardinality(Y) \in {0, 1} /\ Cardinality(Y) <= Cardinality(A)
<1>1. Cardinality(A) \in Nat
  BY FS_CardinalityType
<1>2. CASE Y = {}
  <2>1. A \ Y = A /\ Cardinality(Y) = 0
    BY <1>2, FS_EmptySet
  <2> QED BY <1>1, <2>1
<1>3. CASE Y # {}
  <2>1. PICK y \in Y : Y = {y}
    BY <1>3 DEF AtMostOne
  <2>2. Cardinality(Y) = 1
    BY <2>1, FS_Singleton
  <2>3. y \in A
    BY <2>1
  <2>4. IsFiniteSet(A \ {y}) /\ Cardinality(A \ {y}) = Cardinality(A) - 1
    BY <2>3, FS_RemoveElement
  <2>5. Cardinality(A \ {y}) \in Nat
    BY <2>4, FS_CardinalityType
  <2> QED BY <1>1, <2>1, <2>2, <2>4, <2>5
<1> QED BY <1>2, <1>3

-----------------------------------------------------------------------------
\* What is known of the slots and of those who hold them.
LEMMA SlotFacts ==
    ASSUME WakeSound
    PROVE  /\ \A k \in Account : /\ slots[k] \in Seq(Stream) /\ OnceEach(slots[k]) /\ StreamsOf(k) \subseteq Stream
                                 /\ StreamsOf(k) = {} <=> slots[k] = <<>>
           /\ Occupied \subseteq Stream
           /\ \A s \in Occupied : /\ node[s] \in Node /\ KeyOf(s) \in Account /\ s \in StreamsOf(KeyOf(s))
                                  /\ stage[s] \in {"open", "dead"}
           /\ \A s \in Stream : node[s] \in Node =>
                /\ KeyOf(s) \in Account /\ node[s].ip \in Ip
                /\ HoldsItsSlot(s) <=> s \in Occupied
                /\ HoldsItsSlot(s) <=> s \in StreamsOf(KeyOf(s))
           /\ \A s \in Stream : Live(s) => s \in Occupied /\ node[s] \in Node
           /\ \A k \in Account : \A s \in StreamsOf(k) : s \in Occupied /\ KeyOf(s) = k
<1>1. ASSUME NEW k \in Account
      PROVE  /\ slots[k] \in Seq(Stream) /\ OnceEach(slots[k]) /\ StreamsOf(k) \subseteq Stream
             /\ StreamsOf(k) = {} <=> slots[k] = <<>>
             /\ StreamsOf(k) = {slots[k][i] : i \in 1..Len(slots[k])}
  <2>1. slots[k] \in Seq(Stream) /\ OnceEach(slots[k])
    BY DEF WakeSound, WakeTypeOK, SlotsSound
  <2>2. StreamsOf(k) = {slots[k][i] : i \in 1..Len(slots[k])}
    BY <2>1 DEF StreamsOf, ToSet
  <2>3. \A i \in 1..Len(slots[k]) : slots[k][i] \in Stream
    BY <2>1
  <2>4. slots[k] # <<>> <=> 1 \in 1..Len(slots[k])
    BY <2>1
  <2>5. (\E i \in 1..Len(slots[k]) : TRUE) <=> 1 \in 1..Len(slots[k])
    BY <2>1
  <2>6. StreamsOf(k) # {} <=> \E i \in 1..Len(slots[k]) : TRUE
    BY <2>2
  <2> QED BY <2>1, <2>2, <2>3, <2>4, <2>5, <2>6
<1>2. \A k \in Account : \A s \in StreamsOf(k) :
         s \in Occupied /\ node[s] \in Node /\ KeyOf(s) = k /\ stage[s] \in {"open", "dead"}
  BY DEF WakeSound, SlotsSound, Occupied
<1>3. \A s \in Occupied : \E k \in Account : s \in StreamsOf(k)
  BY DEF Occupied
<1>4. ASSUME NEW s \in Stream, node[s] \in Node
      PROVE  /\ KeyOf(s) \in Account /\ node[s].ip \in Ip
             /\ HoldsItsSlot(s) <=> s \in Occupied
             /\ HoldsItsSlot(s) <=> s \in StreamsOf(KeyOf(s))
  <2>1. KeyOf(s) \in Account /\ node[s].ip \in Ip
    BY <1>4 DEF KeyOf, Account, Ip
  <2>2. HoldsItsSlot(s) <=> s \in StreamsOf(KeyOf(s))
    BY <1>1, <2>1 DEF HoldsItsSlot, Contains
  <2>3. s \in StreamsOf(KeyOf(s)) <=> s \in Occupied
    BY <1>2, <1>3, <2>1
  <2> QED BY <2>1, <2>2, <2>3
<1>5. \A s \in Stream : Live(s) => s \in Occupied /\ node[s] \in Node
  BY <1>4 DEF WakeSound, Reachable, Live, AsksSound
<1> QED BY <1>1, <1>2, <1>3, <1>4, <1>5

\* Steps that leave the slots and who holds them as they are.
LEMMA QuietStep ==
    ASSUME WakeSound, WakeTypeOK', UNCHANGED <<slots, held, byIp, clients, voucher>>,
           \A s \in Occupied : node'[s] = node[s] /\ stage'[s] = stage[s],
           \A s \in Stream : stage'[s] # "none" => node'[s] \in Node,
           \A s \in Stream : Live(s)' => Live(s),
           OffEnds'
    PROVE  WakeSound'
<1>1. /\ Occupied' = Occupied /\ \A k \in Account : StreamsOf(k)' = StreamsOf(k)
      /\ \A k \in Account : \A s \in StreamsOf(k) : s \in Occupied
  BY SlotFacts DEF Occupied, StreamsOf
<1>2. SlotsSound'
  <2>1. \A s \in Occupied : KeyOf(s)' = KeyOf(s)
    BY DEF KeyOf
  <2>2. \A k \in Account : OnceEach(slots'[k])
    BY SlotFacts
  <2>3. ASSUME NEW k \in Account, NEW s \in StreamsOf(k)'
        PROVE  /\ stage'[s] \in {"open", "dead"} /\ node'[s] \in Node /\ KeyOf(s)' = k
               /\ \A t \in StreamsOf(k)' : node'[s].name = node'[t].name => s = t
    BY <1>1, <2>1, <2>3 DEF WakeSound, SlotsSound
  <2> QED BY <2>2, <2>3 DEF SlotsSound
<1>3. AsksSound'
  BY DEF AsksSound
<1>4. CountsSound'
  <2>1. ASSUME NEW i \in Ip PROVE byIp'[i] = Cardinality({s \in Occupied' : node'[s].ip = i})
    <3>1. {s \in Occupied' : node'[s].ip = i} = {s \in Occupied : node[s].ip = i}
      BY <1>1
    <3> QED BY <3>1 DEF WakeSound, CountsSound
  <2> QED BY <1>1, <2>1 DEF WakeSound, CountsSound
<1>5. ASSUME NEW s \in Stream, Live(s)'
      PROVE  HoldsItsSlot(s)' /\ KeyOf(s)' = KeyOf(s)
  <2>1. Live(s) /\ node'[s] = node[s]
    BY <1>5, SlotFacts
  <2> QED BY <2>1 DEF WakeSound, Reachable, HoldsItsSlot, KeyOf
<1>6. Reachable'
  BY <1>5 DEF Reachable
<1>7. AnnounceLives'
  <2>1. \A k \in clients' : slots'[k] # <<>>
    BY DEF WakeSound, AnnounceLives
  <2>2. ASSUME NEW s \in voucher', Live(s)' PROVE KeyOf(s)' \in clients'
    <3>1. s \in Stream /\ s \in voucher
      BY <2>2 DEF WakeTypeOK
    <3>2. Live(s) /\ KeyOf(s)' = KeyOf(s)
      BY <1>5, <2>2, <3>1
    <3> QED BY <3>1, <3>2 DEF WakeSound, AnnounceLives
  <2> QED BY <2>1, <2>2 DEF AnnounceLives
<1> QED BY <1>2, <1>3, <1>4, <1>6, <1>7 DEF WakeSound

\* What gives up its slot is one stream of the key, or none.
LEMMA YieldsOne ==
    ASSUME WakeAssumption, WakeSound, NEW n \in Node
    PROVE  n.key \in Account /\ Yielding(n) \subseteq StreamsOf(n.key) /\ AtMostOne(Yielding(n))
<1>1. n.key \in Account
  BY DEF Account
<1>2. Previous(n) \subseteq StreamsOf(n.key) /\ AtMostOne(Previous(n))
  BY <1>1 DEF Previous, StreamsOf, AtMostOne, WakeSound, SlotsSound
<1>3. Len(slots[n.key]) >= MaxPerKey => Head(slots[n.key]) \in StreamsOf(n.key)
  <2>1. slots[n.key] \in Seq(Stream) /\ (Len(slots[n.key]) >= MaxPerKey => 1 \in 1..Len(slots[n.key]))
    BY <1>1, SlotFacts DEF WakeAssumption
  <2>2. Len(slots[n.key]) >= MaxPerKey => Head(slots[n.key]) = slots[n.key][1]
    BY <2>1
  <2> QED BY <2>1, <2>2 DEF StreamsOf, ToSet
<1>4. CASE Previous(n) # {}
  BY <1>1, <1>2, <1>4 DEF Yielding
<1>5. CASE Previous(n) = {}
  <2>1. Yielding(n) = IF Len(slots[n.key]) >= MaxPerKey THEN {Head(slots[n.key])} ELSE {}
    BY <1>5 DEF Yielding
  <2> QED BY <1>1, <1>3, <2>1 DEF AtMostOne
<1> QED BY <1>4, <1>5

\* A stream takes its slot: what yields it is told to end, and the counts follow.
LEMMA RegisterStep ==
    ASSUME WakeAssumption, WakeSound, NEW s \in Stream, stage[s] \in {"none", "proof"},
           NEW n \in Node, NEW v \in BOOLEAN, Register(s, n, v), UNCHANGED <<relaying, cap>>,
           slipped' \subseteq Stream, slipped \ {s} \subseteq slipped', v => relaying \/ s \in slipped'
    PROVE  WakeSound'
<1> DEFINE k == n.key
           Y == Yielding(n)
           Kept == Occupied \ Y
<1>1. k \in Account /\ Y \subseteq StreamsOf(k) /\ AtMostOne(Y) /\ n.ip \in Ip
  BY YieldsOne DEF Ip
<1>2. s \notin Occupied /\ Y \subseteq Occupied
  BY <1>1, SlotFacts
<1>3. PICK outcome \in {"open", "dead"} :
         stage' = [t \in Stream |->
                      CASE t = s                         -> outcome
                        [] t \in Y /\ stage[t] = "dead"  -> "none"
                        [] OTHER                         -> stage[t]]
  BY DEF Register
<1>4. /\ slots' = [slots EXCEPT ![k] = Append(Without(slots[k], Y), s)]
      /\ held' = held + 1 - Cardinality(Y)
      /\ byIp' = [i \in Ip |-> byIp[i] + One(i = n.ip) - Cardinality({t \in Y : node[t].ip = i})]
      /\ closed' = (closed \cup {t \in Y : stage[t] = "open"}) \ {s}
      /\ clients' = (IF v THEN clients \cup {k} ELSE clients)
      /\ voucher' = (IF v THEN voucher \cup {s} ELSE voucher \ {s})
      /\ node' = [t \in Stream |-> CASE t = s                         -> n
                                     [] t \in Y /\ stage[t] = "dead"  -> None
                                     [] OTHER                         -> node[t]]
  <2>1. slots' = [slots EXCEPT ![k] = Append(Without(slots[k], Y), s)] /\ held' = held + 1 - Cardinality(Y)
    BY DEF Register
  <2>2. byIp' = [i \in Ip |-> byIp[i] + One(i = n.ip) - Cardinality({t \in Y : node[t].ip = i})]
    BY DEF Register
  <2>3. closed' = (closed \cup {t \in Y : stage[t] = "open"}) \ {s}
    BY DEF Register, ToldToEnd
  <2>4. /\ clients' = (IF v THEN clients \cup {k} ELSE clients)
        /\ voucher' = (IF v THEN voucher \cup {s} ELSE voucher \ {s})
    BY DEF Register
  <2>5. node' = [t \in Stream |-> CASE t = s                         -> n
                                   [] t \in Y /\ stage[t] = "dead"  -> None
                                   [] OTHER                         -> node[t]]
    BY DEF Register
  <2> QED BY <2>1, <2>2, <2>3, <2>4, <2>5
<1>5. /\ stage'[s] \in {"open", "dead"} /\ node'[s] = n
      /\ \A t \in Stream \ {s} : \/ stage'[t] = stage[t] /\ node'[t] = node[t]
                                 \/ t \in Y /\ stage[t] = "dead" /\ stage'[t] = "none" /\ node'[t] = None
      /\ \A t \in Stream \ ({s} \cup Y) : stage'[t] = stage[t] /\ node'[t] = node[t]
  BY <1>3, <1>4
<1> HIDE DEF Y
<1>6. /\ slots'[k] \in Seq(Stream) /\ OnceEach(slots'[k]) /\ slots'[k] # <<>>
      /\ StreamsOf(k)' = (StreamsOf(k) \ Y) \cup {s}
      /\ slots' \in [Account -> Seq(Stream)]
      /\ \A j \in Account \ {k} : slots'[j] = slots[j] /\ StreamsOf(j)' = StreamsOf(j)
  <2>1. /\ Without(slots[k], Y) \in Seq(Stream) /\ OnceEach(Without(slots[k], Y))
        /\ ToSet(Without(slots[k], Y)) = ToSet(slots[k]) \ Y
    BY <1>1, SlotFacts, WithoutIs
  <2>2. s \notin ToSet(Without(slots[k], Y))
    BY <1>1, <1>2, <2>1, SlotFacts DEF StreamsOf
  <2> DEFINE w == Without(slots[k], Y)
  <2> HIDE DEF w
  <2>3. /\ Append(w, s) \in Seq(Stream) /\ OnceEach(Append(w, s)) /\ Append(w, s) # <<>>
        /\ ToSet(Append(w, s)) = ToSet(w) \cup {s}
    BY <2>1, <2>2, AppendIs DEF w
  <2>4. slots \in [Account -> Seq(Stream)]
    BY DEF WakeSound, WakeTypeOK
  <2>5. slots'[k] = Append(w, s) /\ slots' \in [Account -> Seq(Stream)] /\ \A j \in Account \ {k} : slots'[j] = slots[j]
    BY <1>1, <1>4, <2>3, <2>4 DEF w
  <2> QED BY <2>1, <2>3, <2>5 DEF StreamsOf, w
<1>7. Occupied' = Kept \cup {s}
  <2>1. ASSUME NEW t \in Occupied' PROVE t \in Kept \cup {s}
    <3>1. PICK j \in Account : t \in StreamsOf(j)'
      BY <2>1 DEF Occupied
    <3>2. CASE j = k
      BY <1>1, <1>6, <3>1, <3>2, SlotFacts
    <3>3. CASE j # k
      BY <1>1, <1>6, <3>1, <3>3, SlotFacts
    <3> QED BY <3>2, <3>3
  <2>2. ASSUME NEW t \in Kept \cup {s} PROVE \E j \in Account : t \in StreamsOf(j)'
    <3>1. CASE t = s
      BY <1>1, <1>6, <3>1
    <3>2. CASE t # s
      <4>1. t \in Occupied /\ t \notin Y
        BY <2>2, <3>2
      <4>2. KeyOf(t) \in Account /\ t \in StreamsOf(KeyOf(t))
        BY <4>1, SlotFacts
      <4> QED BY <1>6, <4>1, <4>2
    <3> QED BY <3>1, <3>2
  <2> QED BY <2>1, <2>2 DEF Occupied
<1>8. \A t \in Kept : t \in Stream /\ t # s /\ stage'[t] = stage[t] /\ node'[t] = node[t] /\ KeyOf(t)' = KeyOf(t)
  BY <1>2, <1>5, SlotFacts DEF KeyOf
<1>9. CountsSound' /\ held' \in Nat /\ byIp' \in [Ip -> Nat]
  <2>1. IsFiniteSet(Occupied) /\ held = Cardinality(Occupied)
        /\ \A i \in Ip : byIp[i] = Cardinality({t \in Occupied : node[t].ip = i})
    BY DEF WakeSound, CountsSound
  <2>2. IsFiniteSet(Kept) /\ Cardinality(Kept) = Cardinality(Occupied) - Cardinality(Y)
        /\ Cardinality(Occupied) \in Nat /\ Cardinality(Y) \in {0, 1} /\ Cardinality(Y) <= Cardinality(Occupied)
    BY <1>1, <1>2, <2>1, LosesOne
  <2>3. IsFiniteSet(Occupied') /\ Cardinality(Occupied') = Cardinality(Kept) + 1
    BY <1>2, <1>7, <2>2, FS_AddElement
  <2>4. held' = Cardinality(Occupied') /\ held' \in Nat
    BY <1>4, <2>1, <2>2, <2>3
  <2>5. ASSUME NEW i \in Ip
        PROVE  byIp'[i] = Cardinality({t \in Occupied' : node'[t].ip = i}) /\ byIp'[i] \in Nat
    <3> DEFINE A == {t \in Occupied : node[t].ip = i}
               B == {t \in Y : node[t].ip = i}
    <3>1. B \in SUBSET A /\ AtMostOne(B) /\ A \in SUBSET Occupied
      BY <1>1, <1>2 DEF AtMostOne
    <3>2. IsFiniteSet(A)
      BY <2>1, <3>1, FS_Subset
    <3>3. {t \in Occupied' : node'[t].ip = i} = IF i = n.ip THEN (A \ B) \cup {s} ELSE A \ B
      <4>1. \A t \in Kept : node'[t].ip = i <=> node[t].ip = i
        BY <1>8
      <4>2. node'[s].ip = n.ip
        BY <1>5
      <4>3. {t \in Kept : node'[t].ip = i} = A \ B
        BY <4>1
      <4>4. {t \in Occupied' : node'[t].ip = i} = {t \in Kept : node'[t].ip = i} \cup {t \in {s} : node'[t].ip = i}
        BY <1>7
      <4>5. {t \in {s} : node'[t].ip = i} = IF i = n.ip THEN {s} ELSE {}
        BY <4>2
      <4> HIDE DEF A, B
      <4> QED BY <4>3, <4>4, <4>5
    <3>4. s \notin A \ B
      BY <1>2
    <3>5. byIp[i] = Cardinality(A) /\ byIp'[i] = byIp[i] + One(i = n.ip) - Cardinality(B)
      BY <1>4, <2>1
    <3> HIDE DEF A, B
    <3>6. IsFiniteSet(A \ B) /\ Cardinality(A \ B) = Cardinality(A) - Cardinality(B) /\ Cardinality(A) \in Nat
          /\ Cardinality(B) \in {0, 1} /\ Cardinality(B) <= Cardinality(A)
      BY <3>1, <3>2, LosesOne
    <3>7. Cardinality((A \ B) \cup {s}) = Cardinality(A \ B) + 1
      BY <3>4, <3>6, FS_AddElement
    <3> DEFINE x == Cardinality(A)
               y == Cardinality(B)
               z == Cardinality(A \ B)
    <3>8. x \in Nat /\ y \in {0, 1} /\ y <= x /\ z = x - y /\ byIp[i] = x
      BY <3>5, <3>6
    <3>9. CASE i = n.ip
      <4>1. byIp'[i] = x + 1 - y
        BY <3>5, <3>9 DEF One
      <4>2. Cardinality({t \in Occupied' : node'[t].ip = i}) = z + 1
        BY <3>3, <3>7, <3>9
      <4> HIDE DEF x, y, z
      <4> QED BY <3>8, <4>1, <4>2
    <3>10. CASE i # n.ip
      <4>1. byIp'[i] = x + 0 - y
        BY <3>5, <3>10 DEF One
      <4>2. Cardinality({t \in Occupied' : node'[t].ip = i}) = z
        BY <3>3, <3>10
      <4> HIDE DEF x, y, z
      <4> QED BY <3>8, <4>1, <4>2
    <3> QED BY <3>9, <3>10
  <2>6. byIp' = [i \in Ip |-> byIp'[i]]
    BY <1>4
  <2>7. byIp' \in [Ip -> Nat]
    BY <2>5, <2>6
  <2> QED BY <2>3, <2>4, <2>5, <2>7 DEF CountsSound
<1>10. WakeTypeOK'
  <2>1. stage' \in [Stream -> {"none", "proof", "open", "dead"}] /\ node' \in [Stream -> Node \cup {None}]
    BY <1>3, <1>4 DEF WakeSound, WakeTypeOK
  <2>2. closed' \subseteq Stream /\ voucher' \subseteq Stream /\ clients' \subseteq Account
    <3>1. Y \subseteq Stream /\ closed \subseteq Stream /\ voucher \subseteq Stream /\ clients \subseteq Account
      BY <1>1, SlotFacts DEF WakeSound, WakeTypeOK
    <3> QED BY <1>1, <1>4, <3>1
  <2> QED BY <1>6, <1>9, <2>1, <2>2 DEF WakeSound, WakeTypeOK
<1>11. SlotsSound'
  <2>1. \A j \in Account : OnceEach(slots'[j])
    BY <1>6, SlotFacts
  <2>2. ASSUME NEW j \in Account, NEW t \in StreamsOf(j)'
        PROVE  /\ stage'[t] \in {"open", "dead"} /\ node'[t] \in Node /\ KeyOf(t)' = j
               /\ t = s \/ t \in StreamsOf(j) \cap Kept
    <3>1. CASE t = s
      <4>1. j = k
        BY <1>2, <1>6, <2>2, <3>1, SlotFacts
      <4> QED BY <1>5, <3>1, <4>1 DEF KeyOf
    <3>2. CASE t # s
      <4>1. t \in StreamsOf(j) /\ t \notin Y
        <5>1. CASE j = k
          BY <1>6, <2>2, <3>2, <5>1
        <5>2. CASE j # k
          <6>1. t \in StreamsOf(j) /\ KeyOf(t) = j
            BY <1>6, <2>2, <5>2, SlotFacts
          <6> QED BY <1>1, <5>2, <6>1, SlotFacts
        <5> QED BY <5>1, <5>2
      <4>2. t \in Kept /\ KeyOf(t) = j
        BY <4>1, SlotFacts
      <4> QED BY <1>8, <4>1, <4>2, SlotFacts
    <3> QED BY <3>1, <3>2
  <2>3. ASSUME NEW j \in Account, NEW t \in StreamsOf(j)', t # s, s \in StreamsOf(j)' PROVE node'[t].name # n.name
    <3>1. t \in StreamsOf(k) \cap Kept
      BY <1>2, <1>6, <2>2, <2>3, SlotFacts
    <3>2. node'[t] = node[t]
      BY <1>8, <3>1
    <3>3. Previous(n) # {} => Y = Previous(n)
      BY DEF Y, Yielding
    <3> QED BY <3>1, <3>2, <3>3 DEF Previous, StreamsOf
  <2>4. ASSUME NEW j \in Account, NEW t \in StreamsOf(j)', NEW u \in StreamsOf(j)', node'[t].name = node'[u].name
        PROVE  t = u
    <3>1. CASE t = s \/ u = s
      BY <1>5, <2>3, <2>4, <3>1
    <3>2. CASE t # s /\ u # s
      BY <1>8, <2>2, <2>4, <3>2 DEF WakeSound, SlotsSound
    <3> QED BY <3>1, <3>2
  <2> QED BY <2>1, <2>2, <2>4 DEF SlotsSound
<1>12. AsksSound'
  BY <1>5 DEF WakeSound, AsksSound
<1>13. ASSUME NEW t \in Stream, Live(t)', t # s
       PROVE  t \in Kept /\ Live(t) /\ KeyOf(t)' = KeyOf(t)
  <2>1. t \notin Y
    BY <1>3, <1>4, <1>13 DEF Live
  <2>2. Live(t)
    BY <1>4, <1>5, <1>13, <2>1 DEF Live
  <2> QED BY <1>8, <2>1, <2>2, SlotFacts
<1>14. ASSUME NEW t \in Stream, Live(t)'
       PROVE  \E j \in Account : KeyOf(t)' = j /\ t \in StreamsOf(j)'
  <2>1. t \in Occupied'
    BY <1>7, <1>13, <1>14
  <2>2. PICK j \in Account : t \in StreamsOf(j)'
    BY <2>1 DEF Occupied
  <2>3. node'[t] \in Node /\ KeyOf(t)' = j
    BY <1>11, <2>2 DEF SlotsSound
  <2> QED BY <2>1, <2>2, <2>3
<1>15. Reachable'
  <2> SUFFICES ASSUME NEW t \in Stream, Live(t)' PROVE HoldsItsSlot(t)'
    BY DEF Reachable
  <2>1. PICK j \in Account : KeyOf(t)' = j /\ t \in StreamsOf(j)'
    BY <1>14
  <2>2. slots'[j] \in Seq(Stream)
    BY <1>6
  <2> QED BY <2>1, <2>2 DEF HoldsItsSlot, Contains, StreamsOf, ToSet
<1>16. AnnounceLives'
  <2>1. ASSUME NEW j \in clients' PROVE slots'[j] # <<>>
    <3>1. j \in Account /\ (j # k => j \in clients)
      BY <1>4, <1>10, <2>1 DEF WakeTypeOK
    <3> QED BY <1>6, <3>1 DEF WakeSound, AnnounceLives
  <2>2. ASSUME NEW t \in voucher', Live(t)' PROVE KeyOf(t)' \in clients'
    <3>1. CASE t = s
      BY <1>4, <1>5, <2>2, <3>1 DEF KeyOf
    <3>2. CASE t # s
      <4>1. t \in Stream /\ t \in voucher
        BY <1>4, <1>10, <2>2, <3>2 DEF WakeTypeOK
      <4>2. Live(t) /\ KeyOf(t)' = KeyOf(t)
        BY <1>13, <2>2, <3>2, <4>1
      <4> QED BY <1>4, <4>1, <4>2 DEF WakeSound, AnnounceLives
    <3> QED BY <3>1, <3>2
  <2> QED BY <2>1, <2>2 DEF AnnounceLives
<1>17. OffEnds'
  <2> SUFFICES ASSUME ~relaying, NEW t \in voucher' \ slipped', Live(t)' PROVE FALSE
    BY DEF OffEnds
  <2>1. t # s
    BY <1>4
  <2>2. t \in Stream /\ t \in voucher /\ t \notin slipped
    BY <1>4, <1>10, <2>1 DEF WakeTypeOK
  <2>3. Live(t)
    BY <1>13, <2>1, <2>2
  <2> QED BY <2>2, <2>3 DEF WakeSound, OffEnds
<1> QED BY <1>9, <1>10, <1>11, <1>12, <1>15, <1>16, <1>17 DEF WakeSound

\* A stream that ends gives its slot back, if it still holds it, and the last of its key the announce.
LEMMA EndsStep ==
    ASSUME WakeAssumption, WakeSound, NEW s \in Stream, Ends(s)
    PROVE  WakeSound'
<1>0. stage[s] = "open" /\ node[s] \in Node /\ KeyOf(s) \in Account /\ node[s].ip \in Ip
      /\ (HoldsItsSlot(s) <=> s \in Occupied) /\ (HoldsItsSlot(s) <=> s \in StreamsOf(KeyOf(s)))
  BY SlotFacts DEF Ends, WakeSound, AsksSound
<1>. PICK k \in Account : k = KeyOf(s)
  BY <1>0
<1>1. stage[s] = "open" /\ node[s] \in Node /\ k \in Account /\ node[s].ip \in Ip
      /\ (HoldsItsSlot(s) <=> s \in Occupied) /\ (HoldsItsSlot(s) <=> s \in StreamsOf(k))
  BY <1>0
<1>2. /\ slots' = [slots EXCEPT ![k] = Without(slots[k], {s})]
      /\ held' = held - One(HoldsItsSlot(s))
      /\ byIp' = [byIp EXCEPT ![node[s].ip] = @ - One(HoldsItsSlot(s))]
      /\ clients' = (IF LastOfItsKey(s) THEN clients \ {k} ELSE clients)
      /\ stage' = [stage EXCEPT ![s] = "none"] /\ node' = [node EXCEPT ![s] = None]
      /\ voucher' = voucher \ {s} /\ closed' = closed \ {s} /\ slipped' = slipped \ {s}
      /\ UNCHANGED <<relaying, cap>>
  BY DEF Ends, Unregister
<1>3. /\ stage' \in [Stream -> {"none", "proof", "open", "dead"}] /\ node' \in [Stream -> Node \cup {None}]
      /\ stage'[s] = "none" /\ \A t \in Stream \ {s} : stage'[t] = stage[t] /\ node'[t] = node[t]
  BY <1>2 DEF WakeSound, WakeTypeOK
<1>4. /\ slots' \in [Account -> Seq(Stream)] /\ OnceEach(slots'[k])
      /\ StreamsOf(k)' = StreamsOf(k) \ {s}
      /\ \A j \in Account \ {k} : slots'[j] = slots[j] /\ StreamsOf(j)' = StreamsOf(j)
  <2>1. /\ Without(slots[k], {s}) \in Seq(Stream) /\ OnceEach(Without(slots[k], {s}))
        /\ ToSet(Without(slots[k], {s})) = ToSet(slots[k]) \ {s}
    <3>1. AtMostOne({s})
      BY DEF AtMostOne
    <3>2. slots[k] \in Seq(Stream) /\ OnceEach(slots[k])
      BY SlotFacts
    <3> QED BY <3>1, <3>2, WithoutIs
  <2> DEFINE w == Without(slots[k], {s})
  <2> HIDE DEF w
  <2>2. slots \in [Account -> Seq(Stream)]
    BY DEF WakeSound, WakeTypeOK
  <2>3. slots'[k] = w /\ slots' \in [Account -> Seq(Stream)] /\ \A j \in Account \ {k} : slots'[j] = slots[j]
    BY <1>1, <1>2, <2>1, <2>2 DEF w
  <2> QED BY <2>1, <2>3 DEF StreamsOf, w
<1>5. \A j \in Account \ {k} : s \notin StreamsOf(j)
  BY SlotFacts
<1>6. Occupied' = Occupied \ {s}
  <2>1. \A j \in Account : StreamsOf(j)' = StreamsOf(j) \ {s}
    BY <1>4, <1>5
  <2> QED BY <2>1 DEF Occupied
<1>7. \A t \in Occupied \ {s} : t \in Stream /\ stage'[t] = stage[t] /\ node'[t] = node[t] /\ KeyOf(t)' = KeyOf(t)
  BY <1>3, SlotFacts DEF KeyOf
<1>8. CountsSound' /\ held' \in Nat /\ byIp' \in [Ip -> Nat]
  <2>1. IsFiniteSet(Occupied) /\ held = Cardinality(Occupied)
        /\ \A i \in Ip : byIp[i] = Cardinality({t \in Occupied : node[t].ip = i})
    BY DEF WakeSound, CountsSound
  <2>2. IsFiniteSet(Occupied \ {s})
        /\ Cardinality(Occupied \ {s}) = IF s \in Occupied THEN Cardinality(Occupied) - 1 ELSE Cardinality(Occupied)
    BY <2>1, FS_RemoveElement
  <2>3. Cardinality(Occupied \ {s}) \in Nat /\ Cardinality(Occupied) \in Nat
    BY <2>1, <2>2, FS_CardinalityType
  <2>4. held' = Cardinality(Occupied') /\ held' \in Nat
    BY <1>1, <1>2, <1>6, <2>1, <2>2, <2>3 DEF One
  <2>5. ASSUME NEW i \in Ip
        PROVE  byIp'[i] = Cardinality({t \in Occupied' : node'[t].ip = i}) /\ byIp'[i] \in Nat
    <3> DEFINE A == {t \in Occupied : node[t].ip = i}
    <3>1. A \in SUBSET Occupied
      OBVIOUS
    <3>2. IsFiniteSet(A)
      BY <2>1, <3>1, FS_Subset
    <3>3. {t \in Occupied' : node'[t].ip = i} = A \ {s}
      BY <1>6, <1>7
    <3>4. s \in A <=> (s \in Occupied /\ i = node[s].ip)
      OBVIOUS
    <3>5. byIp[i] = Cardinality(A)
      BY <2>1
    <3>6. byIp'[i] = IF i = node[s].ip /\ s \in Occupied THEN byIp[i] - 1 ELSE byIp[i]
      <4>1. byIp \in [Ip -> Nat]
        BY DEF WakeSound, WakeTypeOK
      <4> QED BY <1>1, <1>2, <4>1 DEF One
    <3> HIDE DEF A
    <3>7. IsFiniteSet(A \ {s}) /\ Cardinality(A \ {s}) = IF s \in A THEN Cardinality(A) - 1 ELSE Cardinality(A)
      BY <3>2, FS_RemoveElement
    <3>8. Cardinality(A \ {s}) \in Nat
      BY <3>7, FS_CardinalityType
    <3> QED BY <3>3, <3>4, <3>5, <3>6, <3>7, <3>8
  <2>6. byIp' = [i \in Ip |-> byIp'[i]]
    BY <1>2 DEF WakeSound, WakeTypeOK
  <2>7. byIp' \in [Ip -> Nat]
    BY <2>5, <2>6
  <2>8. IsFiniteSet(Occupied')
    BY <1>6, <2>2
  <2> QED BY <2>4, <2>5, <2>7, <2>8 DEF CountsSound
<1>9. WakeTypeOK'
  BY <1>2, <1>3, <1>4, <1>8 DEF WakeSound, WakeTypeOK
<1>10. SlotsSound'
  <2>1. \A j \in Account : OnceEach(slots'[j])
    BY <1>4, SlotFacts
  <2>2. ASSUME NEW j \in Account, NEW t \in StreamsOf(j)'
        PROVE  /\ stage'[t] \in {"open", "dead"} /\ node'[t] \in Node /\ KeyOf(t)' = j
               /\ t \in StreamsOf(j) /\ node'[t] = node[t]
    <3>1. t \in StreamsOf(j) /\ t # s
      BY <1>4, <1>5, <2>2
    <3> QED BY <1>7, <3>1, SlotFacts
  <2>3. ASSUME NEW j \in Account, NEW t \in StreamsOf(j)', NEW u \in StreamsOf(j)', node'[t].name = node'[u].name
        PROVE  t = u
    BY <2>2, <2>3 DEF WakeSound, SlotsSound
  <2> QED BY <2>1, <2>2, <2>3 DEF SlotsSound
<1>11. AsksSound'
  BY <1>3 DEF WakeSound, AsksSound
<1>12. ASSUME NEW t \in Stream, Live(t)'
       PROVE  t # s /\ Live(t) /\ t \in Occupied \ {s} /\ KeyOf(t)' = KeyOf(t)
  <2>1. t # s /\ Live(t)
    BY <1>2, <1>3, <1>12 DEF Live
  <2> QED BY <1>7, <2>1, SlotFacts
<1>13. Reachable'
  <2> SUFFICES ASSUME NEW t \in Stream, Live(t)' PROVE HoldsItsSlot(t)'
    BY DEF Reachable
  <2>1. PICK j \in Account : t \in StreamsOf(j)' /\ KeyOf(t)' = j
    <3>1. t \in Occupied'
      BY <1>6, <1>12
    <3> QED BY <1>10, <3>1 DEF Occupied, SlotsSound
  <2>2. slots'[j] \in Seq(Stream)
    BY <1>4
  <2> QED BY <2>1, <2>2 DEF HoldsItsSlot, Contains, StreamsOf, ToSet
<1>14. AnnounceLives'
  <2>1. LastOfItsKey(s) <=> StreamsOf(k) \subseteq {s}
    BY DEF LastOfItsKey, StreamsOf
  <2>2. ASSUME NEW j \in clients' PROVE slots'[j] # <<>>
    <3>1. j \in Account /\ j \in clients /\ slots[j] # <<>>
      BY <1>2, <2>2 DEF WakeSound, WakeTypeOK, AnnounceLives
    <3>2. CASE j = k
      <4>1. ~(StreamsOf(k) \subseteq {s})
        BY <1>2, <2>1, <2>2, <3>2
      <4>2. StreamsOf(k)' # {}
        BY <1>4, <4>1
      <4>3. ToSet(<<>>) = {}
        BY DEF ToSet
      <4> QED BY <3>2, <4>2, <4>3 DEF StreamsOf
    <3>3. CASE j # k
      BY <1>4, <3>1, <3>3
    <3> QED BY <3>2, <3>3
  <2>3. ASSUME NEW t \in voucher', Live(t)' PROVE KeyOf(t)' \in clients'
    <3>1. t \in Stream /\ t \in voucher
      BY <1>2, <2>3 DEF WakeSound, WakeTypeOK
    <3>2. t # s /\ Live(t) /\ t \in Occupied /\ KeyOf(t)' = KeyOf(t)
      BY <1>12, <2>3, <3>1
    <3>3. KeyOf(t) \in clients
      BY <3>1, <3>2 DEF WakeSound, AnnounceLives
    <3>4. KeyOf(t) = k => ~LastOfItsKey(s)
      BY <2>1, <3>2, SlotFacts
    <3> QED BY <1>2, <3>2, <3>3, <3>4
  <2> QED BY <2>2, <2>3 DEF AnnounceLives
<1>15. OffEnds'
  <2> SUFFICES ASSUME ~relaying, NEW t \in voucher' \ slipped', Live(t)' PROVE FALSE
    BY <1>2 DEF OffEnds
  <2>1. t \in Stream /\ t \in voucher \ slipped /\ Live(t)
    BY <1>2, <1>12 DEF WakeSound, WakeTypeOK
  <2> QED BY <2>1 DEF WakeSound, OffEnds
<1> QED BY <1>8, <1>9, <1>10, <1>11, <1>13, <1>14, <1>15 DEF WakeSound

-----------------------------------------------------------------------------
\* A relay that starts holds nobody.
LEMMA WakeInitSound == ASSUME WakeAssumption, WakeInit PROVE WakeSound
<1>1. \A k \in Account : slots[k] = <<>> /\ StreamsOf(k) = {} /\ OnceEach(slots[k])
  BY DEF WakeInit, StreamsOf, ToSet, OnceEach
<1>2. Occupied = {}
  BY <1>1 DEF Occupied
<1>3. CountsSound
  <2>1. ASSUME NEW i \in Ip PROVE byIp[i] = Cardinality({s \in Occupied : node[s].ip = i})
    <3>1. {s \in Occupied : node[s].ip = i} = {}
      BY <1>2
    <3>2. byIp[i] = 0
      BY DEF WakeInit
    <3> QED BY <3>1, <3>2, FS_EmptySet
  <2>2. held = Cardinality(Occupied) /\ IsFiniteSet(Occupied)
    BY <1>2, FS_EmptySet DEF WakeInit
  <2> QED BY <2>1, <2>2 DEF CountsSound
<1>4. WakeTypeOK
  BY DEF WakeInit, WakeTypeOK, WakeAssumption
<1>5. SlotsSound
  BY <1>1 DEF SlotsSound
<1>6. AsksSound /\ Reachable /\ AnnounceLives /\ OffEnds
  BY DEF WakeInit, AsksSound, Reachable, AnnounceLives, OffEnds, Live
<1> QED BY <1>3, <1>4, <1>5, <1>6 DEF WakeSound

\* A request that is refused leaves no trace, one that is admitted takes its slot.
LEMMA AdmitStep ==
    ASSUME WakeAssumption, WakeSound, NEW s \in Stream, stage[s] \in {"none", "proof"},
           NEW n \in Node, NEW v \in BOOLEAN, Admit(s, n, v), UNCHANGED <<relaying, cap>>,
           slipped' \subseteq Stream, slipped \ {s} \subseteq slipped', v => relaying \/ s \in slipped'
    PROVE  WakeSound'
<1>1. CASE Refused(n)
  <2>1. /\ stage' = [stage EXCEPT ![s] = "none"] /\ node' = [node EXCEPT ![s] = None]
        /\ UNCHANGED <<slots, held, byIp, voucher, closed, clients>>
    BY <1>1 DEF Admit
  <2>2. s \notin Occupied
    BY SlotFacts
  <2>3. /\ stage' \in [Stream -> {"none", "proof", "open", "dead"}] /\ node' \in [Stream -> Node \cup {None}]
        /\ stage'[s] = "none" /\ \A t \in Stream \ {s} : stage'[t] = stage[t] /\ node'[t] = node[t]
    BY <2>1 DEF WakeSound, WakeTypeOK
  <2>4. \A t \in Stream : Live(t)' => Live(t) /\ t # s
    BY <2>1, <2>3 DEF Live
  <2>5. OffEnds'
    BY <2>1, <2>4 DEF WakeSound, WakeTypeOK, OffEnds
  <2>6. WakeTypeOK'
    BY <2>1, <2>3 DEF WakeSound, WakeTypeOK
  <2>7. \A t \in Occupied : node'[t] = node[t] /\ stage'[t] = stage[t]
    BY <2>2, <2>3, SlotFacts
  <2>8. \A t \in Stream : stage'[t] # "none" => node'[t] \in Node
    BY <2>3 DEF WakeSound, AsksSound
  <2> QED BY <2>1, <2>4, <2>5, <2>6, <2>7, <2>8, QuietStep
<1>2. CASE ~Refused(n)
  <2>1. Register(s, n, v)
    BY <1>2 DEF Admit
  <2> QED BY <2>1, RegisterStep
<1> QED BY <1>1, <1>2

\* A friend that subscribes, and a stranger whose proof is in.
LEMMA SubscribeStep ==
    ASSUME WakeAssumption, WakeSound, NEW s \in Stream, FriendSubscribes(s) \/ Proved(s)
    PROVE  WakeSound'
<1>1. CASE FriendSubscribes(s)
  <2>1. PICK n \in Node, v \in BOOLEAN : Admit(s, n, v /\ relaying)
    BY <1>1 DEF FriendSubscribes
  <2>2. (v /\ relaying) \in BOOLEAN
    OBVIOUS
  <2>3. stage[s] = "none" /\ slipped' = slipped \ {s} /\ UNCHANGED <<relaying, cap>> /\ slipped' \subseteq Stream
    BY <1>1 DEF FriendSubscribes, WakeSound, WakeTypeOK
  <2> DEFINE honoured == v /\ relaying
  <2>4. honoured \in BOOLEAN /\ (honoured => relaying) /\ Admit(s, n, honoured)
    BY <2>1, <2>2
  <2> HIDE DEF honoured
  <2> QED BY <2>3, <2>4, AdmitStep
<1>2. CASE Proved(s)
  <2>1. stage[s] = "proof" /\ Admit(s, node[s], TRUE) /\ UNCHANGED <<relaying, cap>>
        /\ slipped' = IF relaying THEN slipped ELSE slipped \cup {s}
    BY <1>2 DEF Proved
  <2>2. node[s] \in Node
    BY <2>1 DEF WakeSound, AsksSound
  <2>3. slipped' \subseteq Stream /\ slipped \ {s} \subseteq slipped' /\ (relaying \/ s \in slipped')
    BY <2>1 DEF WakeSound, WakeTypeOK
  <2>4. PICK n \in Node : n = node[s]
    BY <2>2
  <2>5. Admit(s, n, TRUE)
    BY <2>1, <2>4
  <2> QED BY <2>1, <2>3, <2>5, AdmitStep
<1> QED BY <1>1, <1>2

\* A stranger that asks or is sent away holds no slot.
LEMMA AwaitStep ==
    ASSUME WakeAssumption, WakeSound, NEW s \in Stream, StrangerAsks(s) \/ NotProved(s)
    PROVE  WakeSound'
<1>1. /\ stage[s] \in {"none", "proof"} /\ UNCHANGED <<slots, held, byIp, voucher, closed, clients, relaying, cap>>
      /\ slipped \ {s} \subseteq slipped' /\ slipped' \subseteq slipped
      /\ \/ stage' = [stage EXCEPT ![s] = "proof"] /\ \E n \in Node : node' = [node EXCEPT ![s] = n]
         \/ stage' = [stage EXCEPT ![s] = "none"] /\ node' = [node EXCEPT ![s] = None]
  BY DEF StrangerAsks, NotProved
<1>2. /\ stage' \in [Stream -> {"none", "proof", "open", "dead"}] /\ node' \in [Stream -> Node \cup {None}]
      /\ stage'[s] \in {"none", "proof"} /\ (stage'[s] = "proof" => node'[s] \in Node)
      /\ \A t \in Stream \ {s} : stage'[t] = stage[t] /\ node'[t] = node[t]
  BY <1>1 DEF WakeSound, WakeTypeOK
<1>3. s \notin Occupied
  BY <1>1, SlotFacts
<1>4. \A t \in Stream : Live(t)' => Live(t) /\ t # s
  BY <1>1, <1>2 DEF Live
<1>5. OffEnds'
  BY <1>1, <1>4 DEF WakeSound, WakeTypeOK, OffEnds
<1>6. WakeTypeOK'
  BY <1>1, <1>2 DEF WakeSound, WakeTypeOK
<1>7. \A t \in Occupied : node'[t] = node[t] /\ stage'[t] = stage[t]
  BY <1>2, <1>3, SlotFacts
<1>8. \A t \in Stream : stage'[t] # "none" => node'[t] \in Node
  BY <1>2 DEF WakeSound, AsksSound
<1> QED BY <1>1, <1>4, <1>5, <1>6, <1>7, <1>8, QuietStep

\* The switch and the cap: streams are told to end, and no slot is touched.
LEMMA RelayStep ==
    ASSUME WakeAssumption, WakeSound, SwitchedOff \/ RoleLost \/ SwitchedOn \/ AdaptCap \/ UNCHANGED wakeVars
    PROVE  WakeSound'
<1>1. UNCHANGED <<slots, held, byIp, stage, node, voucher, clients>> /\ closed \subseteq closed'
  BY DEF SwitchedOff, RoleLost, SwitchedOn, AdaptCap, wakeVars
<1>2. UNION {StreamsOf(k) : k \in clients} \subseteq Stream
  BY SlotFacts DEF WakeSound, WakeTypeOK
<1>3. WakeTypeOK'
  <2>1. closed' \subseteq Stream /\ slipped' \subseteq Stream /\ relaying' \in BOOLEAN
    BY <1>2 DEF SwitchedOff, RoleLost, SwitchedOn, AdaptCap, wakeVars, WakeSound, WakeTypeOK
  <2>2. cap' \in CapBase .. CapMax
    BY DEF SwitchedOff, RoleLost, SwitchedOn, AdaptCap, wakeVars, WakeSound, WakeTypeOK, WakeAssumption
  <2> QED BY <1>1, <2>1, <2>2 DEF WakeSound, WakeTypeOK
<1>4. \A t \in Stream : Live(t)' => Live(t)
  BY <1>1 DEF Live
<1>5. OffEnds'
  <2>1. CASE SwitchedOff
    <3> SUFFICES ASSUME NEW t \in voucher', Live(t)' PROVE FALSE
      BY <2>1 DEF OffEnds
    <3>1. t \in voucher /\ t \in Stream /\ Live(t) /\ t \notin closed'
      BY <1>1, <1>4 DEF WakeSound, WakeTypeOK, Live
    <3>2. KeyOf(t) \in clients /\ t \in StreamsOf(KeyOf(t))
      BY <3>1, SlotFacts DEF WakeSound, AnnounceLives
    <3> QED BY <2>1, <3>1, <3>2 DEF SwitchedOff
  <2>2. CASE ~SwitchedOff
    <3>1. UNCHANGED <<slipped, voucher>> /\ (~relaying' => ~relaying)
      BY <2>2 DEF RoleLost, SwitchedOn, AdaptCap, wakeVars
    <3> QED BY <1>4, <3>1 DEF WakeSound, WakeTypeOK, OffEnds
  <2> QED BY <2>1, <2>2
<1>6. \A t \in Stream : stage'[t] # "none" => node'[t] \in Node
  BY <1>1 DEF WakeSound, AsksSound
<1> QED BY <1>1, <1>3, <1>4, <1>5, <1>6, QuietStep

\* Every step keeps the slots, the counts and the announces in step.
LEMMA WakeStepSound ==
    ASSUME WakeAssumption, WakeSound, [WakeNext]_wakeVars PROVE WakeSound'
<1>1. ASSUME NEW s \in Stream,
             FriendSubscribes(s) \/ StrangerAsks(s) \/ Proved(s) \/ NotProved(s) \/ Ends(s)
      PROVE  WakeSound'
  BY <1>1, SubscribeStep, AwaitStep, EndsStep
<1>2. CASE SwitchedOff \/ RoleLost \/ SwitchedOn \/ AdaptCap \/ UNCHANGED wakeVars
  BY <1>2, RelayStep
<1> QED BY <1>1, <1>2 DEF WakeNext

\* The invariant holds in every state.
THEOREM WakeIsSound == ASSUME WakeAssumption PROVE WakeSpec => []WakeSound
BY WakeInitSound, WakeStepSound, PTL DEF WakeSpec

\* Every variable holds a value of its kind.
THEOREM WakeTypeCorrect == ASSUME WakeAssumption PROVE WakeSpec => []WakeTypeOK
<1>1. WakeSound => WakeTypeOK
  BY DEF WakeSound
<1> QED BY <1>1, WakeIsSound, PTL

\* A client is announced as long as its key holds a stream, and no longer
\* (handle_wake_stream's finally against register's supersession).
THEOREM AnnouncesLive == ASSUME WakeAssumption PROVE WakeSpec => []AnnounceLives
<1>1. WakeSound => AnnounceLives
  BY DEF WakeSound
<1> QED BY <1>1, WakeIsSound, PTL

\* A stream that runs holds a slot, and the counts are those of the slots
\* (WakeRegistry.register, unregister and _left).
THEOREM CountsAreTrue == ASSUME WakeAssumption PROVE WakeSpec => []RegistryExact
<1>1. WakeSound => RegistryExact
  BY DEF WakeSound, Reachable, CountsSound, Occupied, RegistryExact
<1> QED BY <1>1, WakeIsSound, PTL

\* A relay switched off holds no client's stream, but one whose proof was under
\* way (close_relay_clients).
THEOREM OffIsOff == ASSUME WakeAssumption PROVE WakeSpec => []OffEnds
<1>1. WakeSound => OffEnds
  BY DEF WakeSound
<1> QED BY <1>1, WakeIsSound, PTL

-----------------------------------------------------------------------------
(* The node that has the parts                                             *)

\* A behaviour that starts in a part is one of the part.
LEMMA GateBehaves == In("gate") /\ Spec => Gate!GateSpec
<1>1. In("gate") /\ Init => Gate!GateInit
  BY DEF Init, In
<1>2. In("gate") /\ [Next]_vars => In("gate")' /\ [Gate!GateNext]_(Gate!gateVars)
  BY DEF Next, vars, gateVars, Gate!gateVars, In
<1> QED BY <1>1, <1>2, PTL DEF Spec, Gate!GateSpec

LEMMA IdentityBehaves == In("identity") /\ Spec => Identity!IdentitySpec
<1>1. In("identity") /\ Init => Identity!IdentityInit
  BY DEF Init, In
<1>2. In("identity") /\ [Next]_vars => In("identity")' /\ [Identity!IdentityNext]_(Identity!identityVars)
  BY DEF Next, vars, identityVars, Identity!identityVars, In
<1> QED BY <1>1, <1>2, PTL DEF Spec, Identity!IdentitySpec

LEMMA WakeBehaves == In("wake") /\ Spec => WakeSpec
<1>1. In("wake") /\ Init => WakeInit
  BY DEF Init, In
<1>2. In("wake") /\ [Next]_vars => In("wake")' /\ [WakeNext]_wakeVars
  BY DEF Next, vars, wakeVars, In
<1> QED BY <1>1, <1>2, PTL DEF Spec, WakeSpec

LEMMA BrowserBehaves ==
    In("browser") /\ Spec => Browser!BrowserInit /\ [][Browser!BrowserNext]_(Browser!browserVars)
<1>1. In("browser") /\ Init => Browser!BrowserInit
  BY DEF Init, In
<1>2. In("browser") /\ [Next]_vars => In("browser")' /\ [Browser!BrowserNext]_(Browser!browserVars)
  BY DEF Next, vars, browserVars, Browser!browserVars, In
<1> QED BY <1>1, <1>2, PTL DEF Spec

LEMMA SwitchBehaves == In("switch") /\ Spec => Switch!SwitchSpec
<1>1. In("switch") /\ Init => Switch!SwitchInit
  BY DEF Init, In
<1>2. In("switch") /\ [Next]_vars => In("switch")' /\ [Switch!SwitchNext]_(Switch!vars)
  BY DEF Next, vars, switchVars, Switch!vars, Switch!outputs, Switch!status, Switch!tracker, In
<1> QED BY <1>1, <1>2, PTL DEF Spec, Switch!SwitchSpec

\* One that starts elsewhere never gets into it.
LEMMA GateStaysAway == ~In("gate") /\ Spec => []~In("gate")
<1>1. ~In("gate") /\ [Next]_vars => ~In("gate")'
  BY DEF Next, vars, In
<1> QED BY <1>1, PTL DEF Spec

LEMMA IdentityStaysAway == ~In("identity") /\ Spec => []~In("identity")
<1>1. ~In("identity") /\ [Next]_vars => ~In("identity")'
  BY DEF Next, vars, In
<1> QED BY <1>1, PTL DEF Spec

LEMMA WakeStaysAway == ~In("wake") /\ Spec => []~In("wake")
<1>1. ~In("wake") /\ [Next]_vars => ~In("wake")'
  BY DEF Next, vars, In
<1> QED BY <1>1, PTL DEF Spec

LEMMA BrowserStaysAway == ~In("browser") /\ Spec => []~In("browser")
<1>1. ~In("browser") /\ [Next]_vars => ~In("browser")'
  BY DEF Next, vars, In
<1> QED BY <1>1, PTL DEF Spec

LEMMA SwitchStaysAway == ~In("switch") /\ Spec => []~In("switch")
<1>1. ~In("switch") /\ [Next]_vars => ~In("switch")'
  BY DEF Next, vars, In
<1> QED BY <1>1, PTL DEF Spec

-----------------------------------------------------------------------------
LEMMA GateIsTyped == Spec => [](In("gate") => Gate!GateTypeOK)
<1>1. Gate!GateSpec => []Gate!GateTypeOK
  BY PeerAssumption, Gate!GateTypeCorrect
<1> QED BY <1>1, GateBehaves, GateStaysAway, PTL

LEMMA IdentityIsTyped == Spec => [](In("identity") => Identity!IdentityTypeOK)
<1>1. Identity!IdentitySpec => []Identity!IdentityTypeOK
  BY PeerAssumption, Identity!IdentityTypeCorrect
<1> QED BY <1>1, IdentityBehaves, IdentityStaysAway, PTL

LEMMA WakeIsTyped == Spec => [](In("wake") => WakeTypeOK)
<1>1. WakeSpec => []WakeTypeOK
  BY PeerAssumption, WakeTypeCorrect
<1> QED BY <1>1, WakeBehaves, WakeStaysAway, PTL

LEMMA BrowserIsTyped == Spec => [](In("browser") => Browser!BrowserTypeOK)
<1>1. Browser!BrowserInit /\ [][Browser!BrowserNext]_(Browser!browserVars) => []Browser!BrowserTypeOK
  BY PeerAssumption, Browser!BrowserTypeCorrect
<1> QED BY <1>1, BrowserBehaves, BrowserStaysAway, PTL

LEMMA SwitchIsTyped == Spec => [](In("switch") => Switch!SwitchTypeOK)
<1>1. Switch!SwitchSpec => []SwitchSound
  BY PeerAssumption, SwitchIsSound
<1>2. SwitchSound => Switch!SwitchTypeOK
  BY DEF SwitchSound, SwitchTyped
<1> QED BY <1>1, <1>2, SwitchBehaves, SwitchStaysAway, PTL

\* Every variable of the part a behaviour is of holds a value of its kind.
THEOREM PeerTypeCorrect == Spec => []PeerTypeOK
<1>1. (In("gate") => Gate!GateTypeOK) /\ (In("identity") => Identity!IdentityTypeOK)
      /\ (In("wake") => WakeTypeOK) /\ (In("browser") => Browser!BrowserTypeOK)
      /\ (In("switch") => Switch!SwitchTypeOK) => PeerTypeOK
  BY DEF PeerTypeOK
<1> QED BY <1>1, GateIsTyped, IdentityIsTyped, WakeIsTyped, BrowserIsTyped, SwitchIsTyped, PTL

-----------------------------------------------------------------------------
\* A quote admits once (gate_service.check_payment).
THEOREM PaysOnce == Spec => []PaidOnce
<1>1. Gate!GateSpec => []Gate!PaidOnce
  BY PeerAssumption, Gate!AdmitsOnce
<1>2. (Gate!PaidOnce => PaidOnce) /\ (~In("gate") => PaidOnce)
  BY DEF PaidOnce
<1> QED BY <1>1, <1>2, GateBehaves, GateStaysAway, PTL

\* A client that solves what it is asked is never blamed (gate_pool).
THEOREM HonestUnblamed == Spec => []HonestIsNeverBlamed
<1>1. Gate!GateSpec => []Gate!HonestIsNeverBlamed
  BY PeerAssumption, Gate!HonestAreNotBlamed
<1>2. (Gate!HonestIsNeverBlamed => HonestIsNeverBlamed) /\ (~In("gate") => HonestIsNeverBlamed)
  BY DEF HonestIsNeverBlamed
<1> QED BY <1>1, <1>2, GateBehaves, GateStaysAway, PTL

\* The votes of a claim are of distinct others (gate_pool.silver_vote).
THEOREM OthersVote == Spec => []VotesAreOfOthers
<1>1. Gate!GateSpec => []Gate!VotesAreOfOthers
  BY PeerAssumption, Gate!VotesAreDistinct
<1>2. (Gate!VotesAreOfOthers => VotesAreOfOthers) /\ (~In("gate") => VotesAreOfOthers)
  BY DEF VotesAreOfOthers
<1> QED BY <1>1, <1>2, GateBehaves, GateStaysAway, PTL

\* An answer the server knows is spent on one packet (gate_pool).
THEOREM SpendsOnce == Spec => []GoldIsSpentOnce
<1>1. Gate!GateSpec => []Gate!GoldIsSpentOnce
  BY PeerAssumption, Gate!GoldIsSpent
<1>2. (Gate!GoldIsSpentOnce => GoldIsSpentOnce) /\ (~In("gate") => GoldIsSpentOnce)
  BY DEF GoldIsSpentOnce
<1> QED BY <1>1, <1>2, GateBehaves, GateStaysAway, PTL

-----------------------------------------------------------------------------
\* A banned key stays failed (identity_registry).
THEOREM BannedStayFailed == Spec => []BansStick
<1>1. Identity!IdentitySpec => []Identity!BansStick
  BY PeerAssumption, Identity!BannedStayBanned
<1>2. (Identity!BansStick => BansStick) /\ (~In("identity") => BansStick)
  BY DEF BansStick
<1> QED BY <1>1, <1>2, IdentityBehaves, IdentityStaysAway, PTL

\* A key that succeeds a banned one is banned (identity_registry._succeed).
THEOREM RebornAreBanned == Spec => []RebirthKeepsTheBan
<1>1. Identity!IdentitySpec => []Identity!RebirthKeepsTheBan
  BY PeerAssumption, Identity!BansPassOn
<1>2. (Identity!RebirthKeepsTheBan => RebirthKeepsTheBan) /\ (~In("identity") => RebirthKeepsTheBan)
  BY DEF RebirthKeepsTheBan
<1> QED BY <1>1, <1>2, IdentityBehaves, IdentityStaysAway, PTL

\* A key is as old as what it succeeds (identity_registry._succeed).
THEOREM RebornAreAsOld == Spec => []RebirthKeepsTheAge
<1>1. Identity!IdentitySpec => []Identity!RebirthKeepsTheAge
  BY PeerAssumption, Identity!AgePassesOn
<1>2. (Identity!RebirthKeepsTheAge => RebirthKeepsTheAge) /\ (~In("identity") => RebirthKeepsTheAge)
  BY DEF RebirthKeepsTheAge
<1> QED BY <1>1, <1>2, IdentityBehaves, IdentityStaysAway, PTL

\* A mailbox is not lost to an old certificate (identity_registry.observe).
THEOREM MailboxesAreKept == Spec => MailboxIsKept
<1>1. Identity!IdentitySpec => [][Identity!KeepsTheMailbox]_(Identity!identityVars)
  BY PeerAssumption, Identity!MailboxesStay
<1>2. [Identity!KeepsTheMailbox]_(Identity!identityVars) => [In("identity") => Identity!KeepsTheMailbox]_identityVars
  BY DEF identityVars, Identity!identityVars
<1>3. ~In("identity") => [In("identity") => Identity!KeepsTheMailbox]_identityVars
  OBVIOUS
<1> QED BY <1>1, <1>2, <1>3, IdentityBehaves, IdentityStaysAway, PTL DEF MailboxIsKept

-----------------------------------------------------------------------------
\* A client is announced as long as it holds a stream (handle_wake_stream).
THEOREM ClientsAreAnnounced == Spec => []AnnounceLivesWithItsStreams
<1>1. WakeSpec => []AnnounceLives
  BY PeerAssumption, AnnouncesLive
<1>2. (AnnounceLives => AnnounceLivesWithItsStreams) /\ (~In("wake") => AnnounceLivesWithItsStreams)
  BY DEF AnnounceLivesWithItsStreams
<1> QED BY <1>1, <1>2, WakeBehaves, WakeStaysAway, PTL

\* A stream that runs can be reached, and the counts are true (wake_registry).
THEOREM RegistryCounts == Spec => []RegistryIsExact
<1>1. WakeSpec => []RegistryExact
  BY PeerAssumption, CountsAreTrue
<1>2. (RegistryExact => RegistryIsExact) /\ (~In("wake") => RegistryIsExact)
  BY DEF RegistryIsExact
<1> QED BY <1>1, <1>2, WakeBehaves, WakeStaysAway, PTL

\* A relay switched off holds no client's stream (close_relay_clients).
THEOREM OffHoldsNobody == Spec => []OffEndsTheSlots
<1>1. WakeSpec => []OffEnds
  BY PeerAssumption, OffIsOff
<1>2. (OffEnds => OffEndsTheSlots) /\ (~In("wake") => OffEndsTheSlots)
  BY DEF OffEndsTheSlots
<1> QED BY <1>1, <1>2, WakeBehaves, WakeStaysAway, PTL

-----------------------------------------------------------------------------
\* Of two tabs one is told to let go (browser_backend.attach_tab), as long as the
\* end of a tab's stream is noticed before its next one opens.
THEOREM OneTabRenders == ~LateEnds /\ Spec => []OneRenderer
<1> SUFFICES ASSUME ~LateEnds PROVE Spec => []OneRenderer
  OBVIOUS
<1>1. Browser!BrowserInit /\ [][Browser!BrowserNext]_(Browser!browserVars) => []Browser!OneRenderer
  BY PeerAssumption, Browser!OneTabRenders
<1>2. (Browser!OneRenderer => OneRenderer) /\ (~In("browser") => OneRenderer)
  BY DEF OneRenderer
<1> QED BY <1>1, <1>2, BrowserBehaves, BrowserStaysAway, PTL

-----------------------------------------------------------------------------
\* HQPlayer lent to a job is the job's alone (manager.hold).
THEOREM TheLentIsLeft == Spec => LentIsLeftAlone
<1>1. Switch!SwitchSpec => [][Switch!LeavesTheLentAlone]_(Switch!vars)
  <2>1. Switch!SwitchSpec => []SwitchSound
    BY PeerAssumption, SwitchIsSound
  <2>2. SwitchSound /\ [Switch!SwitchNext]_(Switch!vars) => [Switch!LeavesTheLentAlone]_(Switch!vars)
    BY PeerAssumption, LentIsLeft
  <2> QED BY <2>1, <2>2, PTL DEF Switch!SwitchSpec
<1>2. [Switch!LeavesTheLentAlone]_(Switch!vars) => [In("switch") => Switch!LeavesTheLentAlone]_switchVars
  BY DEF switchVars, Switch!vars, Switch!outputs, Switch!status, Switch!tracker
<1>3. ~In("switch") => [In("switch") => Switch!LeavesTheLentAlone]_switchVars
  OBVIOUS
<1> QED BY <1>1, <1>2, <1>3, SwitchBehaves, SwitchStaysAway, PTL DEF LentIsLeftAlone

\* The new output stands where the old one did, and the listen goes on there
\* (manager.activate, tracker.carry_listen).
THEOREM TheListenGoesOn == Spec => SwitchGoesOn
<1>1. Switch!SwitchSpec => [][Switch!GoesOn]_(Switch!vars)
  <2>1. Switch!SwitchSpec => []SwitchSound
    BY PeerAssumption, SwitchIsSound
  <2>2. SwitchSound /\ [Switch!SwitchNext]_(Switch!vars) => [Switch!GoesOn]_(Switch!vars)
    BY PeerAssumption, ListenGoesOn
  <2> QED BY <2>1, <2>2, PTL DEF Switch!SwitchSpec
<1>2. [Switch!GoesOn]_(Switch!vars) => [In("switch") => Switch!GoesOn]_switchVars
  BY DEF switchVars, Switch!vars, Switch!outputs, Switch!status, Switch!tracker
<1>3. ~In("switch") => [In("switch") => Switch!GoesOn]_switchVars
  OBVIOUS
<1> QED BY <1>1, <1>2, <1>3, SwitchBehaves, SwitchStaysAway, PTL DEF SwitchGoesOn
=============================================================================
