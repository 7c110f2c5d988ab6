------------------------ MODULE PlaybackQueueProofs -------------------------
(***************************************************************************)
(* Theorems of PlaybackQueue, for any number of items, routes, outputs and *)
(* generations, each from an invariant that goes on from the one before:   *)
(*   Sound     it is type correct, and a mutation finds at its last step   *)
(*             what it left at its first;                                  *)
(*   AllMeant  as long as no request numbers itself after the lock it took *)
(*             is let go, every slot was asked into that very queue;       *)
(*   AllApart  no item stands twice, in the queue or still to be brought;  *)
(*   AsSeen    an edit of the sheet does what the person saw;              *)
(*   KeptInv   PlaybackQueue implements QueuePromise;                      *)
(*   InOrder   an item of a run lands behind what the run placed before.   *)
(***************************************************************************)
EXTENDS PlaybackQueue, SequenceTheorems, TLAPS

-----------------------------------------------------------------------------
(* What the operators of the canonical queue return, for every queue: they *)
(* keep a sequence of items, the slots of the result are the slots it was  *)
(* given, the new ones and no other, and no item comes to stand twice.     *)

\* The slots of a queue of items are items.
LEMMA SlotsTyped ==
    ASSUME NEW S, NEW q \in Seq(S)
    PROVE  Slots(q) \subseteq S
BY DEF Slots

\* A part of a queue holds slots of that queue only.
LEMMA PartOfQueue ==
    ASSUME NEW S, NEW q \in Seq(S), NEW m \in 1..(Len(q) + 1), NEW n \in 0..Len(q)
    PROVE  /\ SubSeq(q, m, n) \in Seq(S)
           /\ Slots(SubSeq(q, m, n)) \subseteq Slots(q)
<1>1. \A i \in m..n : i \in 1..Len(q) /\ q[i] \in S
  OBVIOUS
<1>2. /\ SubSeq(q, m, n) \in Seq(S)
      /\ Len(SubSeq(q, m, n)) = IF m <= n THEN n - m + 1 ELSE 0
      /\ \A i \in 1..(n - m + 1) : SubSeq(q, m, n)[i] = q[m + i - 1]
  BY <1>1, SubSeqProperties
<1>3. ASSUME NEW i \in 1..Len(SubSeq(q, m, n))
      PROVE  m + i - 1 \in 1..Len(q) /\ SubSeq(q, m, n)[i] = q[m + i - 1]
  BY <1>2
<1> QED BY <1>2, <1>3 DEF Slots

\* Two queues put together hold the slots of both.
LEMMA SlotsTogether ==
    ASSUME NEW S, NEW p \in Seq(S), NEW q \in Seq(S)
    PROVE  p \o q \in Seq(S) /\ Slots(p \o q) = Slots(p) \cup Slots(q)
<1>1. /\ p \o q \in Seq(S)
      /\ Len(p \o q) = Len(p) + Len(q)
      /\ \A i \in 1..(Len(p) + Len(q)) : (p \o q)[i] = IF i <= Len(p) THEN p[i] ELSE q[i - Len(p)]
  BY ConcatProperties
<1>2. Slots(p \o q) \subseteq Slots(p) \cup Slots(q)
  <2> SUFFICES ASSUME NEW i \in 1..Len(p \o q)
               PROVE  (p \o q)[i] \in Slots(p) \cup Slots(q)
    BY DEF Slots
  <2>1. CASE i <= Len(p)
    BY <1>1, <2>1 DEF Slots
  <2>2. CASE i > Len(p)
    <3>1. i - Len(p) \in 1..Len(q) /\ (p \o q)[i] = q[i - Len(p)]
      BY <1>1, <2>2
    <3> QED BY <3>1 DEF Slots
  <2> QED BY <2>1, <2>2
<1>3. Slots(p) \subseteq Slots(p \o q)
  <2> SUFFICES ASSUME NEW i \in 1..Len(p) PROVE p[i] \in Slots(p \o q)
    BY DEF Slots
  <2>1. i \in 1..Len(p \o q) /\ (p \o q)[i] = p[i]
    BY <1>1
  <2> QED BY <2>1 DEF Slots
<1>4. Slots(q) \subseteq Slots(p \o q)
  <2> SUFFICES ASSUME NEW i \in 1..Len(q) PROVE q[i] \in Slots(p \o q)
    BY DEF Slots
  <2>1. i + Len(p) \in 1..Len(p \o q) /\ (p \o q)[i + Len(p)] = q[i]
    BY <1>1
  <2> QED BY <2>1 DEF Slots
<1> QED BY <1>1, <1>2, <1>3, <1>4

\* remove leaves slots of the queue.
LEMMA RemainingSlots ==
    ASSUME NEW S, NEW q \in Seq(S), NEW i \in 1..Len(q)
    PROVE  /\ WithoutSlot(q, i) \in Seq(S)
           /\ Slots(WithoutSlot(q, i)) \subseteq Slots(q)
<1> DEFINE front == SubSeq(q, 1, i - 1)
           back  == SubSeq(q, i + 1, Len(q))
<1>1. front \in Seq(S) /\ Slots(front) \subseteq Slots(q)
  BY PartOfQueue
<1>2. back \in Seq(S) /\ Slots(back) \subseteq Slots(q)
  BY PartOfQueue
<1>3. (front \o back) \in Seq(S) /\ Slots(front \o back) = Slots(front) \cup Slots(back)
  BY <1>1, <1>2, SlotsTogether
<1> QED BY <1>1, <1>2, <1>3 DEF WithoutSlot

\* clear_for_radio leaves one slot of the queue or none.
LEMMA KeptSlots ==
    ASSUME NEW S, NEW q \in Seq(S), NEW i
    PROVE  /\ KeepOnly(q, i) \in Seq(S)
           /\ Slots(KeepOnly(q, i)) \subseteq Slots(q)
<1>1. CASE i \in 1..Len(q)
  BY <1>1 DEF KeepOnly, Slots
<1>2. CASE i \notin 1..Len(q)
  BY <1>2 DEF KeepOnly, Slots
<1> QED BY <1>1, <1>2

\* index_of names a place of the queue, or 0.
LEMMA PlaceOfItem ==
    ASSUME NEW S, NEW q \in Seq(S), NEW item
    PROVE  IndexOf(q, item) \in 0..Len(q)
<1>1. CASE item \notin Slots(q)
  BY <1>1 DEF IndexOf
<1>2. CASE item \in Slots(q)
  <2>1. \E i \in 1..Len(q) : q[i] = item
    BY <1>2 DEF Slots
  <2> QED BY <1>2, <2>1 DEF IndexOf
<1> QED BY <1>1, <1>2

\* Two parts of a queue, one behind the other: each has no item twice when the
\* queue has none, and they share none.
LEMMA PartsOfDistinct ==
    ASSUME NEW S, NEW q \in Seq(S), Distinct(q), NEW m \in 1..(Len(q) + 1), NEW n \in 0..Len(q)
    PROVE  /\ Distinct(SubSeq(q, m, n))
           /\ n < m => Slots(SubSeq(q, 1, n)) \cap Slots(SubSeq(q, m, Len(q))) = {}
<1>1. ASSUME NEW a \in 1..(Len(q) + 1), NEW b \in 0..Len(q), NEW i \in 1..Len(SubSeq(q, a, b))
      PROVE  a + i - 1 \in a..b /\ a + i - 1 \in 1..Len(q) /\ SubSeq(q, a, b)[i] = q[a + i - 1]
  <2>1. \A k \in a..b : k \in 1..Len(q) /\ q[k] \in S
    OBVIOUS
  <2>2. /\ Len(SubSeq(q, a, b)) = IF a <= b THEN b - a + 1 ELSE 0
        /\ \A k \in 1..(b - a + 1) : SubSeq(q, a, b)[k] = q[a + k - 1]
    BY <2>1, SubSeqProperties
  <2> QED BY <2>2
<1>2. Distinct(SubSeq(q, m, n))
  <2>1. Len(SubSeq(q, m, n)) \in Nat
    BY PartOfQueue
  <2> SUFFICES ASSUME NEW i \in 1..Len(SubSeq(q, m, n)), NEW j \in 1..Len(SubSeq(q, m, n)),
                      SubSeq(q, m, n)[i] = SubSeq(q, m, n)[j]
               PROVE  i = j
    BY DEF Distinct
  <2>2. m + i - 1 = m + j - 1
    BY <1>1 DEF Distinct
  <2> QED BY <2>1, <2>2
<1>3. ASSUME n < m PROVE Slots(SubSeq(q, 1, n)) \cap Slots(SubSeq(q, m, Len(q))) = {}
  <2>1. ASSUME NEW x \in Slots(SubSeq(q, 1, n)) \cap Slots(SubSeq(q, m, Len(q)))
        PROVE  FALSE
    <3>1. PICK i \in 1..Len(SubSeq(q, 1, n)) : SubSeq(q, 1, n)[i] = x
      BY <2>1 DEF Slots
    <3>2. PICK j \in 1..Len(SubSeq(q, m, Len(q))) : SubSeq(q, m, Len(q))[j] = x
      BY <2>1 DEF Slots
    <3>3. 1 + i - 1 \in 1..n /\ 1 + i - 1 \in 1..Len(q) /\ x = q[1 + i - 1]
      BY <1>1, <3>1
    <3>4. m + j - 1 \in m..Len(q) /\ m + j - 1 \in 1..Len(q) /\ x = q[m + j - 1]
      BY <1>1, <3>2
    <3>5. 1 + i - 1 = m + j - 1
      BY <3>3, <3>4 DEF Distinct
    <3> QED BY <1>3, <3>3, <3>4, <3>5
  <2> QED BY <2>1
<1> QED BY <1>2, <1>3

\* A queue cut in two holds what it held.
LEMMA CutInTwo ==
    ASSUME NEW S, NEW q \in Seq(S), NEW n \in 0..Len(q)
    PROVE  /\ SubSeq(q, 1, n) \in Seq(S) /\ SubSeq(q, n + 1, Len(q)) \in Seq(S)
           /\ SubSeq(q, 1, n) \o SubSeq(q, n + 1, Len(q)) = q
           /\ Slots(SubSeq(q, 1, n)) \cup Slots(SubSeq(q, n + 1, Len(q))) = Slots(q)
<1>1. /\ SubSeq(q, 1, n) \in Seq(S) /\ SubSeq(q, n + 1, Len(q)) \in Seq(S)
      /\ Slots(SubSeq(q, 1, n)) \subseteq Slots(q) /\ Slots(SubSeq(q, n + 1, Len(q))) \subseteq Slots(q)
  BY PartOfQueue
<1>2. SubSeq(q, 1, n) \o SubSeq(q, n + 1, Len(q)) = q
  <2>1. SubSeq(q, 1, n) \o SubSeq(q, n + 1, Len(q)) = SubSeq(q, 1, Len(q))
    <3>1. 1 \in 1..(Len(q) + 1) /\ n \in (1 - 1)..Len(q) /\ Len(q) \in n..Len(q)
      OBVIOUS
    <3> QED BY <3>1, ConcatAdjacentSubSeq
  <2> QED BY <2>1, SubSeqFull
<1>3. Slots(SubSeq(q, 1, n) \o SubSeq(q, n + 1, Len(q)))
        = Slots(SubSeq(q, 1, n)) \cup Slots(SubSeq(q, n + 1, Len(q)))
  BY <1>1, SlotsTogether
<1> QED BY <1>1, <1>2, <1>3

\* Two queues that share no item have none twice when put together.
LEMMA DistinctTogether ==
    ASSUME NEW S, NEW p \in Seq(S), NEW q \in Seq(S), Distinct(p), Distinct(q),
           Slots(p) \cap Slots(q) = {}
    PROVE  Distinct(p \o q)
<1>1. /\ Len(p \o q) = Len(p) + Len(q) /\ Len(p) \in Nat /\ Len(q) \in Nat
      /\ \A i \in 1..(Len(p) + Len(q)) : (p \o q)[i] = IF i <= Len(p) THEN p[i] ELSE q[i - Len(p)]
  BY ConcatProperties
<1> SUFFICES ASSUME NEW i \in 1..Len(p \o q), NEW j \in 1..Len(p \o q), (p \o q)[i] = (p \o q)[j]
             PROVE  i = j
  BY DEF Distinct
<1>2. ASSUME NEW k \in 1..Len(p \o q)
      PROVE  /\ k <= Len(p) => k \in 1..Len(p) /\ (p \o q)[k] = p[k] /\ p[k] \in Slots(p)
             /\ k > Len(p) => /\ k - Len(p) \in 1..Len(q) /\ (p \o q)[k] = q[k - Len(p)]
                              /\ q[k - Len(p)] \in Slots(q)
  <2>1. k > Len(p) => k - Len(p) \in 1..Len(q)
    BY <1>1
  <2> QED BY <1>1, <2>1 DEF Slots
<1>3. CASE i <= Len(p) /\ j <= Len(p)
  BY <1>2, <1>3 DEF Distinct
<1>4. CASE i > Len(p) /\ j > Len(p)
  <2>1. i - Len(p) = j - Len(p)
    BY <1>2, <1>4 DEF Distinct
  <2> QED BY <1>1, <2>1
<1>5. CASE i <= Len(p) /\ j > Len(p)
  BY <1>2, <1>5
<1>6. CASE i > Len(p) /\ j <= Len(p)
  BY <1>2, <1>6
<1> QED BY <1>1, <1>3, <1>4, <1>5, <1>6

\* insert_after loses no slot and brings every new one; items that are not in
\* the queue yet stand in one slot each.
LEMMA InsertedExactly ==
    ASSUME NEW S, NEW q \in Seq(S), NEW new \in Seq(S), NEW at \in 0..Len(q)
    PROVE  /\ InsertAfter(q, at, new) \in Seq(S)
           /\ Slots(InsertAfter(q, at, new)) = Slots(q) \cup Slots(new)
           /\ Distinct(q) /\ Distinct(new) /\ Slots(q) \cap Slots(new) = {}
                => Distinct(InsertAfter(q, at, new))
<1> DEFINE front == SubSeq(q, 1, at)
           back  == SubSeq(q, at + 1, Len(q))
           begun == front \o new
<1>1. front \in Seq(S) /\ back \in Seq(S) /\ Slots(front) \cup Slots(back) = Slots(q)
  BY CutInTwo
<1>2. InsertAfter(q, at, new) = begun \o back
  BY DEF InsertAfter
<1>3. Distinct(q) => Distinct(front) /\ Distinct(back) /\ Slots(front) \cap Slots(back) = {}
  BY PartsOfDistinct
<1> HIDE DEF front, back
<1>4. begun \in Seq(S) /\ Slots(begun) = Slots(front) \cup Slots(new)
  BY <1>1, SlotsTogether
<1>5. ASSUME Distinct(q), Distinct(new), Slots(q) \cap Slots(new) = {} PROVE Distinct(begun)
  BY <1>1, <1>3, <1>5, DistinctTogether
<1> HIDE DEF begun
<1>6. (begun \o back) \in Seq(S) /\ Slots(begun \o back) = Slots(begun) \cup Slots(back)
  BY <1>1, <1>4, SlotsTogether
<1>7. ASSUME Distinct(q), Distinct(new), Slots(q) \cap Slots(new) = {} PROVE Distinct(begun \o back)
  BY <1>1, <1>3, <1>4, <1>5, <1>7, DistinctTogether
<1> QED BY <1>1, <1>2, <1>4, <1>6, <1>7

\* remove takes the one slot, and no other.
LEMMA RemovedExactly ==
    ASSUME NEW S, NEW q \in Seq(S), NEW i \in 1..Len(q), Distinct(q)
    PROVE  /\ Slots(WithoutSlot(q, i)) = Slots(q) \ {q[i]}
           /\ Distinct(WithoutSlot(q, i))
<1> DEFINE front == SubSeq(q, 1, i - 1)
           rest  == SubSeq(q, i, Len(q))
           back  == SubSeq(q, i + 1, Len(q))
<1>1. front \in Seq(S) /\ rest \in Seq(S) /\ Slots(front) \cup Slots(rest) = Slots(q)
  <2>1. i - 1 \in 0..Len(q) /\ (i - 1) + 1 = i
    OBVIOUS
  <2> QED BY <2>1, CutInTwo
<1>2. Slots(rest) = {q[i]} \cup Slots(back) /\ back \in Seq(S)
  <2>1. rest = <<q[i]>> \o back
    BY SubSeqRecursiveFirst
  <2>2. back \in Seq(S) /\ <<q[i]>> \in Seq(S)
    BY CutInTwo
  <2>3. Slots(<<q[i]>>) = {q[i]}
    BY DEF Slots
  <2> HIDE DEF back
  <2>4. Slots(<<q[i]>> \o back) = Slots(<<q[i]>>) \cup Slots(back)
    BY <2>2, SlotsTogether
  <2> QED BY <2>1, <2>2, <2>3, <2>4
<1>3. Distinct(front) /\ Distinct(back) /\ Slots(front) \cap Slots(back) = {}
  <2>1. i - 1 \in 0..Len(q) /\ i + 1 \in 1..(Len(q) + 1) /\ i - 1 < i + 1
    OBVIOUS
  <2> QED BY <2>1, PartsOfDistinct
<1>4. q[i] \notin Slots(front) /\ q[i] \notin Slots(back)
  <2>1. Slots(front) \cap Slots(rest) = {}
    <3>1. i - 1 \in 0..Len(q) /\ i \in 1..(Len(q) + 1) /\ i - 1 < i
      OBVIOUS
    <3> QED BY <3>1, PartsOfDistinct
  <2>2. Slots(SubSeq(q, 1, i)) \cap Slots(back) = {}
    <3>1. i \in 0..Len(q) /\ i + 1 \in 1..(Len(q) + 1) /\ i < i + 1
      OBVIOUS
    <3> QED BY <3>1, PartsOfDistinct
  <2>3. q[i] \in Slots(SubSeq(q, 1, i))
    <3>1. /\ Len(SubSeq(q, 1, i)) = i
          /\ \A k \in 1..i : SubSeq(q, 1, i)[k] = q[k]
      <4>1. \A k \in 1..i : q[k] \in S
        OBVIOUS
      <4> QED BY <4>1, SubSeqProperties
    <3> QED BY <3>1 DEF Slots
  <2> QED BY <1>2, <2>1, <2>2, <2>3
<1>5. WithoutSlot(q, i) = front \o back
  BY DEF WithoutSlot
<1> HIDE DEF front, back, rest
<1> QED BY <1>1, <1>2, <1>3, <1>4, <1>5, SlotsTogether, DistinctTogether

\* clear_for_radio leaves no item twice.
LEMMA KeptDistinct == \A q, i : Distinct(KeepOnly(q, i))
BY DEF KeepOnly, Distinct

\* Where insert_after leaves every slot.
LEMMA InsertedPlaces ==
    ASSUME NEW S, NEW q \in Seq(S), NEW new \in Seq(S), NEW at \in 0..Len(q)
    PROVE  /\ InsertAfter(q, at, new) \in Seq(S)
           /\ Len(InsertAfter(q, at, new)) = Len(q) + Len(new)
           /\ \A i \in 1..at : InsertAfter(q, at, new)[i] = q[i]
           /\ \A i \in 1..Len(new) : InsertAfter(q, at, new)[at + i] = new[i]
           /\ \A i \in (at + 1)..Len(q) : InsertAfter(q, at, new)[i + Len(new)] = q[i]
<1> DEFINE front == SubSeq(q, 1, at)
           back  == SubSeq(q, at + 1, Len(q))
           begun == front \o new
<1>1. front \in Seq(S) /\ back \in Seq(S)
  BY CutInTwo
<1>2. Len(front) = at /\ \A i \in 1..at : front[i] = q[i]
  <2>1. \A i \in 1..at : q[i] \in S
    OBVIOUS
  <2> QED BY <2>1, SubSeqProperties
<1>3. Len(back) = Len(q) - at /\ \A i \in (at + 1)..Len(q) : back[i - at] = q[i]
  <2>1. \A i \in (at + 1)..Len(q) : q[i] \in S
    OBVIOUS
  <2>2. /\ Len(back) = IF at + 1 <= Len(q) THEN Len(q) - (at + 1) + 1 ELSE 0
        /\ \A k \in 1..(Len(q) - (at + 1) + 1) : back[k] = q[at + 1 + k - 1]
    BY <2>1, SubSeqProperties
  <2>3. ASSUME NEW i \in (at + 1)..Len(q) PROVE back[i - at] = q[i]
    <3>1. i - at \in 1..(Len(q) - (at + 1) + 1) /\ at + 1 + (i - at) - 1 = i
      OBVIOUS
    <3> QED BY <2>2, <3>1
  <2> QED BY <2>2, <2>3
<1> HIDE DEF front, back
<1>4. /\ begun \in Seq(S) /\ Len(begun) = at + Len(new)
      /\ \A i \in 1..at : begun[i] = front[i]
      /\ \A i \in 1..Len(new) : begun[at + i] = new[i]
  <2>1. /\ begun \in Seq(S) /\ Len(begun) = Len(front) + Len(new)
        /\ \A i \in 1..(Len(front) + Len(new)) : begun[i] = IF i <= Len(front) THEN front[i] ELSE new[i - Len(front)]
    BY <1>1, ConcatProperties
  <2>2. Len(new) \in Nat
    OBVIOUS
  <2>3. ASSUME NEW i \in 1..Len(new) PROVE begun[at + i] = new[i]
    <3>1. at + i \in 1..(Len(front) + Len(new)) /\ ~(at + i <= Len(front)) /\ (at + i) - Len(front) = i
      BY <1>2, <2>2
    <3> QED BY <2>1, <3>1
  <2>4. \A i \in 1..at : i \in 1..(Len(front) + Len(new)) /\ i <= Len(front)
    BY <1>2, <2>2
  <2> QED BY <1>2, <2>1, <2>3, <2>4
<1> HIDE DEF begun
<1>5. /\ begun \o back \in Seq(S) /\ Len(begun \o back) = Len(q) + Len(new)
      /\ \A i \in 1..(at + Len(new)) : (begun \o back)[i] = begun[i]
      /\ \A i \in (at + 1)..Len(q) : (begun \o back)[i + Len(new)] = back[i - at]
  <2>1. /\ begun \o back \in Seq(S) /\ Len(begun \o back) = Len(begun) + Len(back)
        /\ \A i \in 1..(Len(begun) + Len(back)) :
             (begun \o back)[i] = IF i <= Len(begun) THEN begun[i] ELSE back[i - Len(begun)]
    <3>1. begun \in Seq(S) /\ back \in Seq(S)
      BY <1>1, <1>4
    <3> QED BY ONLY <3>1, ConcatProperties
  <2>2. Len(new) \in Nat /\ Len(q) \in Nat
    OBVIOUS
  <2>3. ASSUME NEW i \in (at + 1)..Len(q) PROVE (begun \o back)[i + Len(new)] = back[i - at]
    <3>1. /\ i + Len(new) \in 1..(Len(begun) + Len(back)) /\ ~(i + Len(new) <= Len(begun))
          /\ (i + Len(new)) - Len(begun) = i - at
      BY <1>3, <1>4, <2>2
    <3> QED BY <2>1, <3>1
  <2>4. \A i \in 1..(at + Len(new)) : i \in 1..(Len(begun) + Len(back)) /\ i <= Len(begun)
    BY <1>3, <1>4, <2>2
  <2>5. Len(begun) + Len(back) = Len(q) + Len(new)
    BY <1>3, <1>4, <2>2
  <2> QED BY <2>1, <2>3, <2>4, <2>5
<1>6. InsertAfter(q, at, new) = begun \o back
  BY DEF InsertAfter, begun, front, back
<1>7. /\ \A i \in 1..at : (begun \o back)[i] = q[i]
      /\ \A i \in 1..Len(new) : (begun \o back)[at + i] = new[i]
      /\ \A i \in (at + 1)..Len(q) : (begun \o back)[i + Len(new)] = q[i]
  BY <1>2, <1>3, <1>4, <1>5
<1> QED BY <1>5, <1>6, <1>7

\* What was inserted stands there side by side.
LEMMA InsertedPart ==
    ASSUME NEW S, NEW q \in Seq(S), NEW new \in Seq(S), NEW at \in 0..Len(q)
    PROVE  SubSeq(InsertAfter(q, at, new), at + 1, at + Len(new)) = new
<1> DEFINE all  == InsertAfter(q, at, new)
           part == SubSeq(all, at + 1, at + Len(new))
<1>1. /\ all \in Seq(S) /\ Len(all) = Len(q) + Len(new)
      /\ \A i \in 1..Len(new) : all[at + i] = new[i]
  <2>1. /\ InsertAfter(q, at, new) \in Seq(S)
        /\ Len(InsertAfter(q, at, new)) = Len(q) + Len(new)
        /\ \A i \in 1..at : InsertAfter(q, at, new)[i] = q[i]
        /\ \A i \in 1..Len(new) : InsertAfter(q, at, new)[at + i] = new[i]
        /\ \A i \in (at + 1)..Len(q) : InsertAfter(q, at, new)[i + Len(new)] = q[i]
    BY InsertedPlaces
  <2> QED BY <2>1
<1> HIDE DEF all
<1>2. \A k \in (at + 1)..(at + Len(new)) : all[k] \in S
  BY <1>1
<1>3. /\ part \in Seq(S)
      /\ Len(part) = IF at + 1 <= at + Len(new) THEN (at + Len(new)) - (at + 1) + 1 ELSE 0
      /\ \A k \in 1..((at + Len(new)) - (at + 1) + 1) : part[k] = all[(at + 1) + k - 1]
  BY <1>2, SubSeqProperties
<1>4. Len(part) = Len(new) /\ \A k \in 1..Len(new) : part[k] = new[k]
  <2>1. Len(new) \in Nat /\ (at + Len(new)) - (at + 1) + 1 = Len(new)
    OBVIOUS
  <2>2. \A k \in 1..Len(new) : (at + 1) + k - 1 = at + k
    OBVIOUS
  <2>3. at + 1 <= at + Len(new) <=> Len(new) # 0
    BY <2>1
  <2> HIDE DEF part
  <2> QED BY <1>1, <1>3, <2>1, <2>2, <2>3
<1> HIDE DEF part
<1>5. part = new
  BY <1>3, <1>4, SeqEqual
<1> QED BY <1>5 DEF part, all

\* index_of finds the one place an item stands at.
LEMMA IndexIs ==
    ASSUME NEW S, NEW q \in Seq(S), Distinct(q)
    PROVE  /\ \A i \in 1..Len(q) : IndexOf(q, q[i]) = i
           /\ \A x \in Slots(q) : IndexOf(q, x) \in 1..Len(q) /\ q[IndexOf(q, x)] = x
<1>1. ASSUME NEW x \in Slots(q) PROVE IndexOf(q, x) \in 1..Len(q) /\ q[IndexOf(q, x)] = x
  <2>1. \E i \in 1..Len(q) : q[i] = x
    BY DEF Slots
  <2> QED BY <2>1 DEF IndexOf
<1>2. ASSUME NEW i \in 1..Len(q) PROVE IndexOf(q, q[i]) = i
  <2>1. q[i] \in Slots(q)
    BY DEF Slots
  <2> QED BY <1>1, <2>1 DEF Distinct
<1> QED BY <1>1, <1>2

\* insert_after keeps the order of the slots there were, and what comes in
\* stands behind the slots up to its place.
LEMMA InsertKeepsOrder ==
    ASSUME NEW S, NEW q \in Seq(S), NEW new \in Seq(S), NEW at \in 0..Len(q),
           Distinct(q), Distinct(new), Slots(q) \cap Slots(new) = {}
    PROVE  /\ \A y, z \in Slots(q) : IndexOf(q, y) <= IndexOf(q, z) =>
                IndexOf(InsertAfter(q, at, new), y) <= IndexOf(InsertAfter(q, at, new), z)
           /\ \A y \in Slots(q), x \in Slots(new) : IndexOf(q, y) <= at =>
                IndexOf(InsertAfter(q, at, new), y) < IndexOf(InsertAfter(q, at, new), x)
           /\ \A i \in 1..Len(new) : IndexOf(InsertAfter(q, at, new), new[i]) = at + i
<1> DEFINE all == InsertAfter(q, at, new)
<1>1. Distinct(InsertAfter(q, at, new))
  BY InsertedExactly
<1>2. /\ all \in Seq(S) /\ Len(all) = Len(q) + Len(new)
      /\ \A i \in 1..at : all[i] = q[i]
      /\ \A i \in 1..Len(new) : all[at + i] = new[i]
      /\ \A i \in (at + 1)..Len(q) : all[i + Len(new)] = q[i]
  <2>1. /\ InsertAfter(q, at, new) \in Seq(S)
        /\ Len(InsertAfter(q, at, new)) = Len(q) + Len(new)
        /\ \A i \in 1..at : InsertAfter(q, at, new)[i] = q[i]
        /\ \A i \in 1..Len(new) : InsertAfter(q, at, new)[at + i] = new[i]
        /\ \A i \in (at + 1)..Len(q) : InsertAfter(q, at, new)[i + Len(new)] = q[i]
    BY InsertedPlaces
  <2> QED BY <2>1
<1>3. Distinct(all)
  BY <1>1
<1>0. Len(new) \in Nat /\ Len(q) \in Nat
  OBVIOUS
<1> HIDE DEF all
<1>4. \A i \in 1..Len(all) : IndexOf(all, all[i]) = i
  BY <1>2, <1>3, IndexIs
<1>5. ASSUME NEW i \in 1..Len(q)
      PROVE  IndexOf(all, q[i]) = IF i <= at THEN i ELSE i + Len(new)
  <2>1. CASE i <= at
    <3>1. i \in 1..at /\ i \in 1..Len(all)
      BY <1>0, <1>2, <2>1
    <3> QED BY <1>2, <1>4, <2>1, <3>1
  <2>2. CASE i > at
    <3>1. i \in (at + 1)..Len(q) /\ i + Len(new) \in 1..Len(all)
      BY <1>0, <1>2, <2>2
    <3>2. all[i + Len(new)] = q[i]
      BY <1>2, <3>1
    <3> QED BY <1>4, <2>2, <3>1, <3>2
  <2> QED BY <2>1, <2>2
<1>6. ASSUME NEW i \in 1..Len(new) PROVE IndexOf(all, new[i]) = at + i
  <2>1. at + i \in 1..Len(all)
    BY <1>0, <1>2
  <2> QED BY <1>2, <1>4, <2>1
<1>7. ASSUME NEW y \in Slots(q), NEW z \in Slots(q), IndexOf(q, y) <= IndexOf(q, z)
      PROVE  IndexOf(all, y) <= IndexOf(all, z)
  <2>1. /\ IndexOf(q, y) \in 1..Len(q) /\ q[IndexOf(q, y)] = y
        /\ IndexOf(q, z) \in 1..Len(q) /\ q[IndexOf(q, z)] = z
    BY IndexIs
  <2> DEFINE i == IndexOf(q, y)
             j == IndexOf(q, z)
  <2>2. /\ IndexOf(all, y) = IF i <= at THEN i ELSE i + Len(new)
        /\ IndexOf(all, z) = IF j <= at THEN j ELSE j + Len(new)
    BY <1>5, <2>1
  <2>3. i \in 1..Len(q) /\ j \in 1..Len(q) /\ i <= j
    BY <1>7, <2>1
  <2> HIDE DEF i, j
  <2> QED BY <1>0, <2>2, <2>3
<1>8. ASSUME NEW y \in Slots(q), NEW x \in Slots(new), IndexOf(q, y) <= at
      PROVE  IndexOf(all, y) < IndexOf(all, x)
  <2>1. IndexOf(q, y) \in 1..Len(q) /\ q[IndexOf(q, y)] = y
    BY IndexIs
  <2>2. PICK k \in 1..Len(new) : new[k] = x
    BY DEF Slots
  <2>3. IndexOf(all, x) = at + k
    BY <1>6, <2>2
  <2>4. IndexOf(all, y) = IndexOf(q, y)
    BY <1>5, <1>8, <2>1
  <2> QED BY <1>8, <2>1, <2>3, <2>4
<1> QED BY <1>6, <1>7, <1>8 DEF all

\* remove keeps the order of the slots that stay.
LEMMA RemoveKeepsOrder ==
    ASSUME NEW S, NEW q \in Seq(S), NEW i \in 1..Len(q), Distinct(q),
           NEW y \in Slots(WithoutSlot(q, i)), NEW z \in Slots(WithoutSlot(q, i)),
           IndexOf(q, y) <= IndexOf(q, z)
    PROVE  IndexOf(WithoutSlot(q, i), y) <= IndexOf(WithoutSlot(q, i), z)
<1> DEFINE front == SubSeq(q, 1, i - 1)
           back  == SubSeq(q, i + 1, Len(q))
           left  == WithoutSlot(q, i)
<1>0. Len(q) \in Nat /\ i \in Nat
  OBVIOUS
<1>1. Slots(left) = Slots(q) \ {q[i]} /\ Distinct(left) /\ left \in Seq(S)
  BY RemovedExactly, RemainingSlots
<1>2. /\ front \in Seq(S) /\ Len(front) = i - 1 /\ \A k \in 1..(i - 1) : front[k] = q[k]
  <2>1. \A k \in 1..(i - 1) : q[k] \in S
    OBVIOUS
  <2> QED BY <1>0, <2>1, SubSeqProperties
<1>3. /\ back \in Seq(S) /\ Len(back) = Len(q) - i /\ \A k \in (i + 1)..Len(q) : back[k - i] = q[k]
  <2>1. \A k \in (i + 1)..Len(q) : q[k] \in S
    OBVIOUS
  <2>2. /\ back \in Seq(S)
        /\ Len(back) = IF i + 1 <= Len(q) THEN Len(q) - (i + 1) + 1 ELSE 0
        /\ \A k \in 1..(Len(q) - (i + 1) + 1) : back[k] = q[i + 1 + k - 1]
    BY <1>0, <2>1, SubSeqProperties
  <2>3. ASSUME NEW k \in (i + 1)..Len(q) PROVE back[k - i] = q[k]
    <3>1. k - i \in 1..(Len(q) - (i + 1) + 1) /\ i + 1 + (k - i) - 1 = k
      BY <1>0
    <3> QED BY <2>2, <3>1
  <2> QED BY <1>0, <2>2, <2>3
<1>4. left = front \o back
  BY DEF WithoutSlot
<1> HIDE DEF front, back, left
<1>5. /\ Len(front \o back) = Len(front) + Len(back)
      /\ \A k \in 1..(Len(front) + Len(back)) :
           (front \o back)[k] = IF k <= Len(front) THEN front[k] ELSE back[k - Len(front)]
  BY <1>2, <1>3, ConcatProperties
<1>6. Len(left) = Len(q) - 1
  BY <1>0, <1>2, <1>3, <1>4, <1>5
<1>7. ASSUME NEW k \in 1..Len(q), k # i
      PROVE  IndexOf(left, q[k]) = IF k < i THEN k ELSE k - 1
  <2>1. CASE k < i
    <3>1. k \in 1..(i - 1) /\ k \in 1..(Len(front) + Len(back)) /\ k <= Len(front) /\ k \in 1..Len(left)
      BY <1>0, <1>2, <1>3, <1>6, <2>1
    <3>2. left[k] = q[k]
      BY <1>2, <1>4, <1>5, <3>1
    <3> QED BY <1>1, <2>1, <3>1, <3>2, IndexIs
  <2>2. CASE k > i
    <3>1. /\ k \in (i + 1)..Len(q) /\ k - 1 \in 1..(Len(front) + Len(back)) /\ ~(k - 1 <= Len(front))
          /\ k - 1 - Len(front) = k - i /\ k - 1 \in 1..Len(left)
      BY <1>0, <1>2, <1>3, <1>6, <2>2
    <3>2. left[k - 1] = q[k]
      BY <1>3, <1>4, <1>5, <3>1
    <3>3. IndexOf(left, left[k - 1]) = k - 1
      BY <1>1, <3>1, IndexIs
    <3> QED BY <1>0, <2>2, <3>2, <3>3
  <2> QED BY <1>0, <1>7, <2>1, <2>2
<1>8. ASSUME NEW x \in Slots(left)
      PROVE  /\ IndexOf(q, x) \in 1..Len(q) /\ q[IndexOf(q, x)] = x /\ IndexOf(q, x) # i
             /\ IndexOf(left, x) = IF IndexOf(q, x) < i THEN IndexOf(q, x) ELSE IndexOf(q, x) - 1
  <2>1. IndexOf(q, x) \in 1..Len(q) /\ q[IndexOf(q, x)] = x /\ x # q[i]
    BY <1>1, IndexIs
  <2> QED BY <1>7, <2>1
<1>9. y \in Slots(left) /\ z \in Slots(left)
  BY DEF left
<1>10. /\ IndexOf(left, y) = IF IndexOf(q, y) < i THEN IndexOf(q, y) ELSE IndexOf(q, y) - 1
       /\ IndexOf(left, z) = IF IndexOf(q, z) < i THEN IndexOf(q, z) ELSE IndexOf(q, z) - 1
       /\ IndexOf(q, y) \in Nat /\ IndexOf(q, z) \in Nat /\ IndexOf(q, y) # i /\ IndexOf(q, z) # i
  BY <1>8, <1>9
<1>11. IndexOf(left, y) <= IndexOf(left, z)
  BY <1>0, <1>10
<1> QED BY <1>11 DEF left

-----------------------------------------------------------------------------
(* What holds between the steps of one mutation, because the queue lock is *)
(* held from its first step to its last.                                   *)

\* A route stands in a mutation exactly while it holds the queue lock.
LockDiscipline == \A r \in Route : lock = r <=> pc[r] \in Locked

\* A new queue was begun only with a generation left to number it.
RoomToNumber == \A r \in Route : pc[r] \in {"replacing", "clearing"} => generation < MaxGen

\* A removal commits on the place it checked.
PlaceKept == \A r \in Route : pc[r] = "removing" => plan[r].at \in 1..Len(queue)

\* A new order is one of the sheet's slots, and commits on that very sheet.
SheetKept ==
    \A r \in Route :
      /\ pc[r] \in {"reorder", "reordering"} => Slots(plan[r].order) = Slots(plan[r].sheet)
      /\ pc[r] = "reordering" => queue = plan[r].sheet

\* Whoever brings items still has some to bring.
Bringing == {"asked", "replacing", "clearing", "numbering", "adding", "fill", "appending"}
WorkLeft == \A r \in Route : pc[r] \in Bringing => request[r].run # <<>>

\* The invariant type correctness needs: every step of a mutation finds what
\* its first step left.
Sound == TypeOK /\ LockDiscipline /\ RoomToNumber /\ PlaceKept /\ SheetKept /\ WorkLeft

-----------------------------------------------------------------------------
\* What is handed in of a run, and what is left of it, are items of that run.
LEMMA PartsOfRun ==
    ASSUME NEW s \in Seq(Item), NEW n \in 1..Len(s)
    PROVE  /\ SubSeq(s, 1, n) \in Seq(Item)
           /\ Slots(SubSeq(s, 1, n)) \subseteq Slots(s)
           /\ Rest(s, n) \in Seq(Item)
           /\ Slots(Rest(s, n)) \subseteq Slots(s)
           /\ Slots(s) \subseteq Item
           /\ s[n] \in Item
BY PartOfQueue DEF Rest, Slots

\* A route that goes on with its run is still of its type.
LEMMA AdvanceTyped ==
    ASSUME TypeOK, generation' \in 0..MaxGen, ConstantsAssumption,
           NEW r \in Route, NEW n \in 1..Len(request[r].run),
           NEW where \in {"fill", "numbering"}, Advance(r, n, where)
    PROVE  /\ request' \in [Route -> RequestType]
           /\ pc' = [pc EXCEPT ![r] = IF Rest(request[r].run, n) = <<>> THEN "idle" ELSE where]
           /\ \A s \in Route \ {r} : request'[s] = request[s]
           /\ Rest(request[r].run, n) # <<>> =>
                /\ request'[r].run = Rest(request[r].run, n)
                /\ request'[r].kind = request[r].kind
                /\ where = "fill" => request'[r].guard = generation'
<1> DEFINE req == request[r]
<1>1. request \in [Route -> RequestType] /\ req \in RequestType
  BY DEF TypeOK
<1>2. req.run \in Seq(Item)
  BY <1>1 DEF RequestType
<1>3. /\ Rest(req.run, n) \in Seq(Item)
      /\ Slots(SubSeq(req.run, 1, n)) \subseteq Item
      /\ req.run[n] \in Item
  BY <1>2, PartsOfRun
<1>4. NoRequest \in RequestType
  BY ConstantsAssumption DEF NoRequest, NewRequest, RequestType, Batches, NoAnchor
<1>5. CASE Rest(req.run, n) = <<>>
  BY <1>1, <1>4, <1>5 DEF Advance, Go
<1>6. CASE Rest(req.run, n) # <<>>
  <2> DEFINE guarded == IF where = "fill" THEN generation' ELSE req.guard
             done == [req EXCEPT !.run = Rest(req.run, n), !.cursor = req.run[n], !.tries = 0,
                                 !.guard = guarded, !.placed = @ \cup Slots(SubSeq(req.run, 1, n))]
  <2>1. guarded \in 0..MaxGen /\ 0 \in 0..(Tries - 1)
    BY <1>1, ConstantsAssumption DEF RequestType
  <2>2. done \in RequestType
    <3> HIDE DEF guarded
    <3> QED BY <1>1, <1>3, <2>1 DEF RequestType
  <2>3. request' = [request EXCEPT ![r] = done] /\ Go(r, where)
    BY <1>6 DEF Advance
  <2>4. /\ done.run = Rest(req.run, n) /\ done.kind = req.kind
        /\ where = "fill" => done.guard = generation'
    BY <1>1 DEF RequestType
  <2> HIDE DEF done
  <2> QED BY <1>1, <1>6, <2>2, <2>3, <2>4 DEF Go
<1> QED BY <1>5, <1>6

\* A filler that gives an item up, too.
LEMMA SkipTyped ==
    ASSUME TypeOK, ConstantsAssumption, NEW r \in Route, Skip(r),
           request[r].run # <<>>
    PROVE  /\ request' \in [Route -> RequestType]
           /\ \E where \in {"idle", "fill"} : pc' = [pc EXCEPT ![r] = where]
<1>1. request[r] \in RequestType /\ request[r].run \in Seq(Item)
  BY DEF TypeOK, RequestType
<1>2. Rest(request[r].run, 1) \in Seq(Item)
  <2>1. 1 \in 1..Len(request[r].run)
    BY <1>1
  <2> QED BY <1>1, <2>1, PartsOfRun
<1>3. NoRequest \in RequestType
  BY ConstantsAssumption DEF NoRequest, NewRequest, RequestType, Batches, NoAnchor
<1>4. CASE Rest(request[r].run, 1) = <<>>
  BY <1>3, <1>4 DEF Skip, Drop, Go, TypeOK
<1>5. CASE Rest(request[r].run, 1) # <<>>
  <2> DEFINE left == [request[r] EXCEPT !.run = Rest(request[r].run, 1), !.tries = 0]
  <2>1. left \in RequestType
    <3>1. 0 \in 0..(Tries - 1)
      BY ConstantsAssumption
    <3> QED BY <1>1, <1>2, <3>1 DEF RequestType
  <2>2. request' = [request EXCEPT ![r] = left] /\ Go(r, "fill")
    BY <1>5 DEF Skip
  <2> QED BY <2>1, <2>2 DEF Go, TypeOK
<1> QED BY <1>4, <1>5

\* An append goes behind a place of the queue, or to its end.
LEMMA AnchorTyped ==
    ASSUME TypeOK, NEW r \in Route, NEW slot \in Int, NEW out \in Int
    PROVE  Anchor(r, slot, out) \in Nat \cup {NoAnchor}
<1>1. IndexOf(queue, request[r].cursor) \in 0..Len(queue) /\ Len(queue) \in Nat
  BY PlaceOfItem DEF TypeOK
<1> QED BY <1>1 DEF Anchor, NoAnchor

\* What an append puts into the queue is the head of its run.
LEMMA InsertTyped ==
    ASSUME TypeOK, NEW r \in Route, NEW n \in 1..Len(request[r].run),
           NEW behind \in request[r].at..Len(queue), Insert(r, n, behind)
    PROVE  /\ queue' \in Seq(Item)
           /\ Slots(queue') \subseteq Slots(queue) \cup Slots(request[r].run)
<1> DEFINE new == SubSeq(request[r].run, 1, n)
<1>1. request[r].run \in Seq(Item) /\ request[r].at \in Nat \cup {NoAnchor} /\ queue \in Seq(Item)
  BY DEF TypeOK, RequestType
<1>2. new \in Seq(Item) /\ Slots(new) \subseteq Slots(request[r].run)
  BY <1>1, PartsOfRun
<1>3. CASE request[r].at = NoAnchor
  <2>1. queue' = queue \o new
    BY <1>3 DEF Insert
  <2> HIDE DEF new
  <2>2. queue \o new \in Seq(Item) /\ Slots(queue \o new) = Slots(queue) \cup Slots(new)
    BY <1>1, <1>2, SlotsTogether
  <2> QED BY <1>2, <2>1, <2>2
<1>4. CASE request[r].at # NoAnchor
  <2>1. behind \in 0..Len(queue)
    BY <1>1, <1>4
  <2>2. queue' = InsertAfter(queue, behind, new)
    BY <1>4 DEF Insert
  <2> HIDE DEF new
  <2>3. /\ InsertAfter(queue, behind, new) \in Seq(Item)
        /\ Slots(InsertAfter(queue, behind, new)) = Slots(queue) \cup Slots(new)
    <3>1. queue \in Seq(Item) /\ new \in Seq(Item)
      BY <1>1, <1>2
    <3> QED BY ONLY <2>1, <3>1, InsertedExactly
  <2> QED BY <1>2, <2>2, <2>3
<1> QED BY <1>3, <1>4

\* A batch is a sequence of items.
LEMMA BundlesTyped == \A items \in Bundles : items \in Seq(Item)
<1> SUFFICES ASSUME NEW n \in 1..Batch, NEW items \in [1..n -> Fresh] PROVE items \in Seq(Item)
  BY DEF Bundles
<1> QED BY ConstantsAssumption DEF Fresh

-----------------------------------------------------------------------------
\* An empty queue that nobody works on.
LEMMA SoundInit == Init => Sound
<1> SUFFICES ASSUME Init PROVE Sound
  OBVIOUS
<1>1. NoRequest \in RequestType
  BY ConstantsAssumption DEF NoRequest, NewRequest, RequestType, Batches, NoAnchor
<1>2. NoPlan \in PlanType
  BY DEF NoPlan, NewPlan, PlanType
<1>3. TypeOK
  BY <1>1, <1>2, ConstantsAssumption DEF Init, TypeOK
<1>4. LockDiscipline /\ RoomToNumber /\ PlaceKept /\ SheetKept /\ WorkLeft
  BY ConstantsAssumption DEF Init, LockDiscipline, Locked, RoomToNumber, PlaceKept, SheetKept, WorkLeft, Bringing
<1> QED BY <1>3, <1>4 DEF Sound

\* What people ask for.
LEMMA SoundAsks ==
    ASSUME Sound, NEW r \in Route, Asks(r)
    PROVE  Sound'
<1> USE DEF Sound, LockDiscipline, RoomToNumber, PlaceKept, SheetKept, WorkLeft, Bringing, Locked
<1>1. ASSUME NEW k \in Batches, NEW p \in {"next", "end"}, NEW items \in Bundles, Ask(r, k, p, items)
      PROVE  Sound'
  <2>1. items \in Seq(Item) /\ items # <<>>
    BY BundlesTyped DEF Bundles
  <2> DEFINE g == IF k = "stream" THEN generation ELSE 0
             where == IF k = "stream" THEN "fill" ELSE "asked"
             asked == NewRequest(k, p, items, g)
  <2>2. asked \in RequestType /\ asked.run = items
    <3>1. g \in 0..MaxGen /\ 0 \in 0..(Tries - 1)
      BY ConstantsAssumption DEF TypeOK
    <3> QED BY <2>1, <3>1 DEF NewRequest, RequestType, NoAnchor
  <2>3. /\ request' = [request EXCEPT ![r] = asked] /\ pc' = [pc EXCEPT ![r] = where]
        /\ where \in {"fill", "asked"} /\ pc[r] = "idle"
        /\ UNCHANGED <<queue, generation, active, lock, plan>>
    BY <1>1 DEF Ask, Go, Idle
  <2>4. meant' \in [Item -> 0..MaxGen]
    BY <1>1 DEF Ask, Means, TypeOK
  <2> HIDE DEF asked, where
  <2> QED BY <2>1, <2>2, <2>3, <2>4 DEF TypeOK
<1>2. ASSUME NEW i \in 1..Len(queue), PlanRemove(r, i)
      PROVE  Sound'
  <2> DEFINE seen == NewPlan(<<queue[i]>>, <<>>, i, None)
  <2>1. seen \in PlanType
    BY DEF NewPlan, PlanType, TypeOK
  <2>2. /\ plan' = [plan EXCEPT ![r] = seen] /\ pc' = [pc EXCEPT ![r] = "removal"]
        /\ pc[r] = "idle" /\ UNCHANGED <<queue, generation, active, lock, request, meant>>
    BY <1>2 DEF PlanRemove, Go, Idle
  <2> HIDE DEF seen
  <2> QED BY <2>1, <2>2 DEF TypeOK
<1>3. ASSUME NEW wanted \in Orders(queue), PlanReorder(r, wanted)
      PROVE  Sound'
  <2> DEFINE seen == NewPlan(queue, wanted, 0, active)
  <2>1. wanted \in Seq(Item)
    <3>1. Slots(queue) \subseteq Item
      BY DEF Slots, TypeOK
    <3>2. wanted \in [1..Len(queue) -> Item] /\ Len(queue) \in Nat
      BY <3>1 DEF Orders, TypeOK
    <3> QED BY <3>2
  <2>2. seen \in PlanType /\ Slots(seen.order) = Slots(seen.sheet)
    BY <2>1 DEF NewPlan, PlanType, TypeOK, Orders
  <2>3. /\ plan' = [plan EXCEPT ![r] = seen] /\ pc' = [pc EXCEPT ![r] = "reorder"]
        /\ pc[r] = "idle" /\ UNCHANGED <<queue, generation, active, lock, request, meant>>
    BY <1>3 DEF PlanReorder, Go, Idle
  <2> HIDE DEF seen
  <2> QED BY <2>2, <2>3 DEF TypeOK
<1> QED BY <1>1, <1>2, <1>3 DEF Asks

\* A route that meets the lock, or finds there is nothing to do behind it.
LEMMA SoundEnter ==
    ASSUME Sound, NEW r \in Route, Enter(r)
    PROVE  Sound'
<1> USE DEF Sound, LockDiscipline, RoomToNumber, PlaceKept, SheetKept, WorkLeft, Bringing, Locked
<1>0. NoRequest \in RequestType /\ NoPlan \in PlanType /\ Free \notin Route
  BY ConstantsAssumption DEF NoRequest, NewRequest, RequestType, Batches, NoAnchor,
                             NoPlan, NewPlan, PlanType
<1>1. CASE NoOutput(r)
  BY <1>0, <1>1 DEF NoOutput, Drop, Go, TypeOK
<1>2. CASE BeginReplace(r)
  BY <1>0, <1>2 DEF BeginReplace, Acquire, Go, TypeOK
<1>3. CASE BeginRadio(r)
  BY <1>0, <1>3 DEF BeginRadio, Acquire, Go, TypeOK
<1>4. ASSUME NEW slot \in -1..Len(queue), NEW out \in -1..Len(queue), BeginAppend(r, slot, out)
      PROVE  Sound'
  <2> DEFINE at == Anchor(r, slot, out)
             begun == [request[r] EXCEPT !.at = at]
  <2>1. at \in Nat \cup {NoAnchor}
    BY AnchorTyped DEF TypeOK
  <2> HIDE DEF at
  <2>2. request[r] \in RequestType /\ begun \in RequestType /\ begun.run = request[r].run
    BY <2>1 DEF TypeOK, RequestType
  <2>3. /\ request' = [request EXCEPT ![r] = begun] /\ pc[r] \in {"asked", "fill"}
        /\ \E where \in {"adding", "appending"} : pc' = [pc EXCEPT ![r] = where]
        /\ lock = Free /\ lock' = r /\ UNCHANGED <<queue, generation, active, plan, meant>>
    BY <1>4 DEF BeginAppend, Acquire, Go, at
  <2> HIDE DEF begun
  <2> QED BY <1>0, <2>2, <2>3 DEF TypeOK
<1>5. CASE StopFilling(r)
  BY <1>0, <1>5 DEF StopFilling, Drop, Go, TypeOK
<1>6. CASE BeginRemove(r)
  BY <1>0, <1>6 DEF BeginRemove, StillThere, Acquire, Go, TypeOK
<1>7. CASE MovedUnder(r)
  BY <1>0, <1>7 DEF MovedUnder, CloseSheet, Go, TypeOK
<1>8. CASE BeginReorder(r)
  BY <1>0, <1>8 DEF BeginReorder, PlanHolds, Acquire, Go, TypeOK
<1>9. CASE PlanOvertaken(r)
  BY <1>0, <1>9 DEF PlanOvertaken, CloseSheet, Go, TypeOK
<1> QED BY <1>1, <1>2, <1>3, <1>4, <1>5, <1>6, <1>7, <1>8, <1>9 DEF Enter

\* A route that holds the lock, or has just let it go.
LEMMA SoundLeave ==
    ASSUME Sound, NEW r \in Route, Leave(r)
    PROVE  Sound'
<1> USE DEF Sound, LockDiscipline, RoomToNumber, PlaceKept, SheetKept, WorkLeft, Bringing, Locked
<1>0. /\ NoRequest \in RequestType /\ NoPlan \in PlanType /\ Free \notin Route
      /\ request[r] \in RequestType /\ request[r].run \in Seq(Item) /\ plan[r] \in PlanType
  BY ConstantsAssumption DEF NoRequest, NewRequest, RequestType, Batches, NoAnchor,
                             NoPlan, NewPlan, PlanType, TypeOK
<1>1. ASSUME NEW n \in 1..Len(request[r].run), CommitReplace(r, n)
      PROVE  Sound'
  <2> DEFINE where == IF request[r].kind = "play" THEN "fill" ELSE "numbering"
  <2>1. /\ pc[r] = "replacing" /\ lock = r /\ lock' = Free /\ generation' = generation + 1
        /\ queue' = SubSeq(request[r].run, 1, n) /\ UNCHANGED <<active, plan>>
        /\ Advance(r, n, where) /\ where \in {"fill", "numbering"}
    BY <1>1 DEF CommitReplace, Release
  <2>2. generation' \in 0..MaxGen
    BY <2>1, ConstantsAssumption DEF TypeOK
  <2>3. /\ request' \in [Route -> RequestType]
        /\ pc' = [pc EXCEPT ![r] = IF Rest(request[r].run, n) = <<>> THEN "idle" ELSE where]
        /\ \A s \in Route \ {r} : request'[s] = request[s]
        /\ Rest(request[r].run, n) # <<>> => request'[r].run # <<>>
    BY <2>1, <2>2, AdvanceTyped, ConstantsAssumption
  <2>4. meant' \in [Item -> 0..MaxGen]
    BY <1>1, <2>1, <2>2 DEF CommitReplace, Means, TypeOK
  <2>5. queue' \in Seq(Item)
    BY <1>0, <2>1, PartsOfRun
  <2> HIDE DEF where
  <2>6. \A s \in Route \ {r} : pc[s] \notin Locked
    BY <2>1
  <2> QED BY <1>0, <2>1, <2>2, <2>3, <2>4, <2>5, <2>6 DEF TypeOK
<1>2. CASE AbandonReplace(r)
  BY <1>0, <1>2 DEF AbandonReplace, Release, Drop, Go, TypeOK
<1>3. CASE ReadGeneration(r)
  <2> DEFINE read == [request[r] EXCEPT !.guard = generation]
  <2>1. read \in RequestType /\ read.run = request[r].run
    BY <1>0 DEF TypeOK, RequestType
  <2>2. /\ request' = [request EXCEPT ![r] = read] /\ pc[r] = "numbering"
        /\ pc' = [pc EXCEPT ![r] = "fill"]
        /\ UNCHANGED <<queue, generation, active, lock, plan, meant>>
    BY <1>3 DEF ReadGeneration, Go
  <2> HIDE DEF read
  <2> QED BY <2>1, <2>2 DEF TypeOK
<1>4. ASSUME NEW n \in 1..Len(request[r].run), NEW behind \in request[r].at..Len(queue),
             NEW where \in {"fill", "numbering"}, pc[r] \in {"adding", "appending"},
             Release(r), Insert(r, n, behind), Advance(r, n, where),
             meant' \in [Item -> 0..MaxGen], UNCHANGED <<generation, active, plan>>
      PROVE  Sound'
  <2>1. queue' \in Seq(Item)
    BY <1>4, InsertTyped
  <2>2. /\ request' \in [Route -> RequestType]
        /\ pc' = [pc EXCEPT ![r] = IF Rest(request[r].run, n) = <<>> THEN "idle" ELSE where]
        /\ \A s \in Route \ {r} : request'[s] = request[s]
        /\ Rest(request[r].run, n) # <<>> => request'[r].run # <<>>
    BY <1>4, AdvanceTyped, ConstantsAssumption DEF TypeOK
  <2>3. lock = r /\ lock' = Free
    BY <1>4 DEF Release
  <2> QED BY <1>0, <1>4, <2>1, <2>2, <2>3 DEF TypeOK
<1>5. ASSUME NEW n \in 1..Len(request[r].run), NEW behind \in request[r].at..Len(queue),
             CommitAdd(r, n, behind)
      PROVE  Sound'
  <2>1. meant' \in [Item -> 0..MaxGen]
    BY <1>5 DEF CommitAdd, Means, TypeOK
  <2> QED BY <1>4, <1>5, <2>1 DEF CommitAdd
<1>6. ASSUME NEW behind \in request[r].at..Len(queue), CommitFill(r, behind)
      PROVE  Sound'
  <2>1. 1 \in 1..Len(request[r].run)
    BY <1>0, <1>6 DEF CommitFill
  <2> QED BY <1>4, <1>6, <2>1 DEF CommitFill, TypeOK
<1>7. CASE RefuseAdd(r)
  BY <1>0, <1>7 DEF RefuseAdd, Release, Drop, Go, TypeOK
<1>8. ASSUME pc[r] = "appending", Release(r), Skip(r), UNCHANGED <<queue, generation, active, plan, meant>>
      PROVE  Sound'
  <2>1. /\ request' \in [Route -> RequestType]
        /\ \E where \in {"idle", "fill"} : pc' = [pc EXCEPT ![r] = where]
    BY <1>8, SkipTyped, ConstantsAssumption
  <2>2. \A s \in Route \ {r} : request'[s] = request[s]
    BY <1>8 DEF Skip, Drop, TypeOK
  <2>3. pc'[r] = "fill" => request'[r].run # <<>>
    BY <1>0, <1>8 DEF Skip, Drop, Go, TypeOK, RequestType
  <2> QED BY <1>0, <1>8, <2>1, <2>2, <2>3 DEF Release, TypeOK
<1>9. CASE RefuseFill(r)
  BY <1>8, <1>9 DEF RefuseFill
<1>10. CASE DropFill(r)
  <2>1. CASE OnceMore(Offered(request[r].tries))
    <3> DEFINE again == [request[r] EXCEPT !.tries = Offered(@)]
    <3>1. Offered(request[r].tries) \in 0..(Tries - 1)
      BY <1>0, <2>1, ConstantsAssumption DEF OnceMore, Offered, RequestType
    <3>2. again \in RequestType /\ again.run = request[r].run
      BY <1>0, <3>1 DEF RequestType
    <3>3. /\ request' = [request EXCEPT ![r] = again] /\ pc[r] = "appending" /\ lock = r /\ lock' = Free
          /\ pc' = [pc EXCEPT ![r] = "fill"] /\ UNCHANGED <<queue, generation, active, plan, meant>>
      BY <1>10, <2>1 DEF DropFill, Go, Release
    <3> HIDE DEF again
    <3> QED BY <1>0, <3>2, <3>3 DEF TypeOK
  <2>2. CASE ~OnceMore(Offered(request[r].tries))
    BY <1>8, <1>10, <2>2 DEF DropFill
  <2> QED BY <2>1, <2>2
<1>11. ASSUME NEW kept \in Seq(Item), NEW g \in 0..MaxGen, NEW items, pc[r] = "clearing", Release(r),
              queue' = kept, generation' = g, g >= generation, Means(items, g),
              request' = [request EXCEPT ![r].guard = g], Go(r, "fill"), UNCHANGED <<active, plan>>
       PROVE  Sound'
  <2> DEFINE guarded == [request[r] EXCEPT !.guard = g]
  <2>1. guarded \in RequestType /\ guarded.run = request[r].run
    BY <1>0 DEF RequestType
  <2>2. /\ request' = [request EXCEPT ![r] = guarded] /\ lock = r /\ lock' = Free
        /\ pc' = [pc EXCEPT ![r] = "fill"]
    BY <1>11 DEF Go, Release
  <2>3. meant' \in [Item -> 0..MaxGen]
    BY <1>11 DEF Means, TypeOK
  <2>4. \A s \in Route \ {r} : pc[s] \notin Locked
    BY <2>2
  <2> HIDE DEF guarded
  <2>5. TypeOK'
    BY <1>0, <1>11, <2>1, <2>2, <2>3 DEF TypeOK
  <2>6. LockDiscipline' /\ RoomToNumber' /\ PlaceKept' /\ SheetKept'
    BY <1>0, <1>11, <2>2, <2>4 DEF TypeOK
  <2>7. WorkLeft'
    BY <1>0, <1>11, <2>1, <2>2 DEF TypeOK
  <2> QED BY <2>5, <2>6, <2>7
<1>12. ASSUME NEW slot \in 0..Len(queue), CommitRadio(r, slot)
       PROVE  Sound'
  <2>1. KeepOnly(queue, slot) \in Seq(Item)
    BY KeptSlots DEF TypeOK
  <2>2. generation + 1 \in 0..MaxGen
    BY <1>12, ConstantsAssumption DEF CommitRadio, TypeOK
  <2>3. /\ pc[r] = "clearing" /\ Release(r) /\ queue' = KeepOnly(queue, slot)
        /\ generation' = generation + 1
        /\ Means(Slots(queue') \cup Slots(request[r].run), generation + 1)
        /\ request' = [request EXCEPT ![r].guard = generation + 1]
        /\ Go(r, "fill") /\ UNCHANGED <<active, plan>>
    BY <1>12 DEF CommitRadio
  <2>4. generation + 1 >= generation
    BY DEF TypeOK
  <2> QED BY <1>11, <2>1, <2>2, <2>3, <2>4
<1>13. CASE RadioNotCleared(r)
  <2>1. /\ pc[r] = "clearing" /\ Release(r) /\ queue' = queue /\ generation' = generation
        /\ Means(Slots(request[r].run), generation)
        /\ request' = [request EXCEPT ![r].guard = generation]
        /\ Go(r, "fill") /\ UNCHANGED <<active, plan>>
    BY <1>13 DEF RadioNotCleared
  <2>2. queue \in Seq(Item) /\ generation \in 0..MaxGen /\ generation >= generation
    BY ConstantsAssumption DEF TypeOK
  <2> QED BY <1>11, <2>1, <2>2
<1>14. CASE AbandonRadio(r)
  BY <1>0, <1>14 DEF AbandonRadio, Release, Drop, Go, TypeOK
<1>15. ASSUME NEW gone, Forfeit(gone)
       PROVE  /\ request' \in [Route -> RequestType]
              /\ \A s \in Route : request'[s].run = request[s].run
  <2>1. ASSUME NEW s \in Route
        PROVE  request'[s] \in RequestType /\ request'[s].run = request[s].run
    <3> DEFINE forfeited == [request[s] EXCEPT !.placed = {}]
    <3>1. request[s] \in RequestType
      BY DEF TypeOK
    <3>2. forfeited \in RequestType /\ forfeited.run = request[s].run
      BY <3>1 DEF RequestType
    <3>3. request'[s] \in {request[s], forfeited}
      BY <1>15 DEF Forfeit
    <3> QED BY <3>1, <3>2, <3>3
  <2> QED BY <1>15, <2>1 DEF Forfeit
<1>16. CASE CommitRemove(r)
  <2>1. queue' \in Seq(Item)
    BY <1>16, RemainingSlots DEF CommitRemove, TypeOK
  <2>2. /\ request' \in [Route -> RequestType]
        /\ \A s \in Route : request'[s].run = request[s].run
    BY <1>15, <1>16 DEF CommitRemove
  <2>3. \A s \in Route \ {r} : pc[s] \notin Locked
    BY <1>16 DEF CommitRemove, Release
  <2> QED BY <1>0, <1>16, <2>1, <2>2, <2>3 DEF CommitRemove, CloseSheet, Go, Release, TypeOK
<1>17. CASE AbandonEdit(r)
  BY <1>0, <1>17 DEF AbandonEdit, CloseSheet, Go, Release, TypeOK
<1>18. CASE CommitReorder(r)
  <2>1. queue' \in Seq(Item)
    BY <1>0, <1>18 DEF CommitReorder, PlanType
  <2>2. /\ request' \in [Route -> RequestType]
        /\ \A s \in Route : request'[s].run = request[s].run
    BY <1>15, <1>18 DEF CommitReorder
  <2>3. \A s \in Route \ {r} : pc[s] \notin Locked
    BY <1>18 DEF CommitReorder, Release
  <2> QED BY <1>0, <1>18, <2>1, <2>2, <2>3 DEF CommitReorder, CloseSheet, Go, Release, TypeOK
<1> QED BY <1>1, <1>2, <1>3, <1>5, <1>6, <1>7, <1>9, <1>10, <1>12, <1>13, <1>14, <1>16, <1>17, <1>18 DEF Leave

\* Every step keeps it.
LEMMA SoundStep == Sound /\ [Next]_vars => Sound'
<1> SUFFICES ASSUME Sound, [Next]_vars PROVE Sound'
  OBVIOUS
<1>1. CASE SwitchOutput
  BY <1>1 DEF SwitchOutput, Sound, TypeOK, LockDiscipline, RoomToNumber, PlaceKept, SheetKept, WorkLeft
<1>2. CASE UNCHANGED vars
  BY <1>2 DEF vars, Sound, TypeOK, LockDiscipline, RoomToNumber, PlaceKept, SheetKept, WorkLeft
<1> QED BY <1>1, <1>2, SoundAsks, SoundEnter, SoundLeave DEF Next

\* Every variable holds a value of its kind, whatever the routes do and
\* however their steps fall between each other.
THEOREM TypeCorrect == Spec => []TypeOK
<1>1. Sound => TypeOK
  BY DEF Sound
<1> QED BY <1>1, SoundInit, SoundStep, PTL DEF Spec

-----------------------------------------------------------------------------
(* Every slot was asked into the queue there is, when no request reads the *)
(* generation after it let the lock go.                                    *)

\* No request numbers its filler once the lock is let go.
NumberedInTime == Kinds \cap {"playlist", "add"} = {}

\* A filler carries the generation its items were asked into, or one that is
\* past; it hands an item to the output only in the former.
Guarded(r) ==
    /\ request[r].guard <= generation
    /\ request[r].guard = generation => \A i \in Slots(request[r].run) : meant[i] = generation

GuardsHold ==
    \A r \in Route :
      /\ pc[r] = "asked" => request[r].kind \in Kinds
      /\ pc[r] = "replacing" => request[r].kind = "play"
      /\ pc[r] \notin {"numbering", "adding"}
      /\ pc[r] \in {"fill", "appending"} => Guarded(r)
      /\ pc[r] = "appending" => request[r].guard = generation

\* The inductive invariant: the queue's slots and the fillers' runs together.
AllMeant == Sound /\ GuardsHold /\ SlotsMeantForThisQueue

\* A step that numbers a new queue makes every other filler's generation past.
LEMMA NewNumberRetires ==
    ASSUME Sound, GuardsHold, NEW r \in Route, lock = r, generation' = generation + 1,
           \A s \in Route \ {r} : request'[s] = request[s] /\ pc'[s] = pc[s]
    PROVE  \A s \in Route \ {r} :
             /\ pc'[s] = "asked" => request'[s].kind \in Kinds
             /\ pc'[s] = "replacing" => request'[s].kind = "play"
             /\ pc'[s] \notin {"numbering", "adding", "appending"}
             /\ pc'[s] \in {"fill", "appending"} => Guarded(s)'
<1>1. generation \in Nat /\ \A s \in Route : request[s].guard \in Nat
  BY ConstantsAssumption DEF Sound, TypeOK, RequestType
<1>2. \A s \in Route \ {r} : pc[s] \notin Locked
  BY DEF Sound, LockDiscipline
<1> QED BY <1>1, <1>2 DEF GuardsHold, Guarded, Locked

\* An empty queue holds nothing that was asked elsewhere.
LEMMA AllMeantInit == Init => AllMeant
BY SoundInit DEF Init, AllMeant, GuardsHold, SlotsMeantForThisQueue, Slots

\* A step that leaves the queue, its generation and what was meant, and brings
\* no filler more than it had, leaves every item where it was asked.
LEMMA QuietStep ==
    ASSUME AllMeant, Sound', UNCHANGED <<queue, generation, meant>>,
           \A r \in Route :
             /\ pc'[r] = "asked" => pc[r] = "asked" /\ request'[r].kind = request[r].kind
             /\ pc'[r] = "replacing" => request'[r].kind = "play"
             /\ pc'[r] \notin {"numbering", "adding"}
             /\ pc'[r] \in {"fill", "appending"} =>
                  /\ pc[r] \in {"fill", "appending"}
                  /\ request'[r].guard = request[r].guard
                  /\ Slots(request'[r].run) \subseteq Slots(request[r].run)
             /\ pc'[r] = "appending" => request[r].guard = generation
    PROVE  AllMeant'
<1>1. GuardsHold'
  BY DEF AllMeant, GuardsHold, Guarded
<1>2. SlotsMeantForThisQueue'
  BY DEF AllMeant, SlotsMeantForThisQueue
<1> QED BY <1>1, <1>2 DEF AllMeant

\* What people ask for is meant for the queue it will be placed in.
LEMMA AllMeantAsks ==
    ASSUME AllMeant, Sound', NumberedInTime, NEW r \in Route, Asks(r)
    PROVE  AllMeant'
<1> USE DEF AllMeant, Sound
<1>1. ASSUME NEW k \in Batches, NEW p \in {"next", "end"}, NEW items \in Bundles, Ask(r, k, p, items)
      PROVE  AllMeant'
  <2> DEFINE g == IF k = "stream" THEN generation ELSE 0
             where == IF k = "stream" THEN "fill" ELSE "asked"
             asked == NewRequest(k, p, items, g)
  <2>1. /\ request' = [request EXCEPT ![r] = asked] /\ pc' = [pc EXCEPT ![r] = where]
        /\ k \in Kinds /\ UNCHANGED <<queue, generation>>
    BY <1>1 DEF Ask, Go
  <2>2. asked.run = items /\ asked.kind = k /\ asked.guard = g
    BY DEF NewRequest
  <2>3. \A i \in Item : meant'[i] = IF k = "stream" /\ i \in Slots(items) THEN generation ELSE meant[i]
    BY <1>1 DEF Ask, Means
  <2>4. Slots(items) \subseteq Item /\ Slots(queue) \subseteq Item
    BY BundlesTyped, SlotsTyped DEF TypeOK
  <2>5. \A s \in Route : Slots(request[s].run) \subseteq Item
    BY SlotsTyped DEF TypeOK, RequestType
  <2>6. SlotsMeantForThisQueue'
    BY <2>1, <2>3, <2>4 DEF SlotsMeantForThisQueue
  <2>7. generation \in Nat
    BY ConstantsAssumption DEF TypeOK
  <2> HIDE DEF asked
  <2>8. GuardsHold'
    <3> SUFFICES ASSUME NEW s \in Route
                 PROVE  /\ pc'[s] = "asked" => request'[s].kind \in Kinds
                        /\ pc'[s] = "replacing" => request'[s].kind = "play"
                        /\ pc'[s] \notin {"numbering", "adding"}
                        /\ pc'[s] \in {"fill", "appending"} => Guarded(s)'
                        /\ pc'[s] = "appending" => request'[s].guard = generation'
      BY DEF GuardsHold
    <3>1. CASE s = r
      BY <2>1, <2>2, <2>3, <2>4, <2>7, <3>1 DEF Guarded, TypeOK
    <3>2. CASE s # r
      <4>1. request'[s] = request[s] /\ pc'[s] = pc[s]
        BY <2>1, <3>2 DEF TypeOK
      <4> QED BY <2>1, <2>3, <2>5, <4>1 DEF GuardsHold, Guarded
    <3> QED BY <3>1, <3>2
  <2> QED BY <2>6, <2>8
<1>2. ASSUME NEW i \in 1..Len(queue), PlanRemove(r, i)
      PROVE  AllMeant'
  BY <1>2, QuietStep DEF PlanRemove, Go, TypeOK, GuardsHold
<1>3. ASSUME NEW wanted \in Orders(queue), PlanReorder(r, wanted)
      PROVE  AllMeant'
  BY <1>3, QuietStep DEF PlanReorder, Go, TypeOK, GuardsHold
<1> QED BY <1>1, <1>2, <1>3 DEF Asks

\* Taking the lock places nothing; a filler of a past queue is turned away.
LEMMA AllMeantEnter ==
    ASSUME AllMeant, Sound', NumberedInTime, NEW r \in Route, Enter(r)
    PROVE  AllMeant'
<1> USE DEF AllMeant, Sound
<1>1. CASE NoOutput(r)
  BY <1>1, QuietStep DEF NoOutput, Drop, Go, TypeOK, GuardsHold
<1>2. CASE BeginReplace(r)
  BY <1>2, QuietStep DEF BeginReplace, Acquire, Go, TypeOK, GuardsHold, NumberedInTime
<1>3. CASE BeginRadio(r)
  BY <1>3, QuietStep DEF BeginRadio, Acquire, Go, TypeOK, GuardsHold
<1>4. ASSUME NEW slot \in -1..Len(queue), NEW out \in -1..Len(queue), BeginAppend(r, slot, out)
      PROVE  AllMeant'
  <2> DEFINE begun == [request[r] EXCEPT !.at = Anchor(r, slot, out)]
  <2>1. begun.run = request[r].run /\ begun.guard = request[r].guard /\ begun.kind = request[r].kind
    BY DEF TypeOK, RequestType
  <2>2. ~(pc[r] = "asked" /\ request[r].kind = "add")
    BY DEF GuardsHold, NumberedInTime
  <2>3. /\ pc[r] = "fill" /\ request[r].guard = generation
        /\ request' = [request EXCEPT ![r] = begun] /\ pc' = [pc EXCEPT ![r] = "appending"]
        /\ UNCHANGED <<queue, generation, meant>>
    BY <1>4, <2>2 DEF BeginAppend, Stale, Go
  <2> HIDE DEF begun
  <2> QED BY <2>1, <2>3, QuietStep DEF TypeOK, GuardsHold
<1>5. CASE StopFilling(r)
  BY <1>5, QuietStep DEF StopFilling, Drop, Go, TypeOK, GuardsHold
<1>6. CASE BeginRemove(r)
  BY <1>6, QuietStep DEF BeginRemove, Acquire, Go, TypeOK, GuardsHold
<1>7. CASE MovedUnder(r)
  BY <1>7, QuietStep DEF MovedUnder, CloseSheet, Go, TypeOK, GuardsHold
<1>8. CASE BeginReorder(r)
  BY <1>8, QuietStep DEF BeginReorder, Acquire, Go, TypeOK, GuardsHold
<1>9. CASE PlanOvertaken(r)
  BY <1>9, QuietStep DEF PlanOvertaken, CloseSheet, Go, TypeOK, GuardsHold
<1> QED BY <1>1, <1>2, <1>3, <1>4, <1>5, <1>6, <1>7, <1>8, <1>9 DEF Enter

\* What a commit places was asked into the queue it commits.
LEMMA AllMeantLeave ==
    ASSUME AllMeant, Sound', NumberedInTime, NEW r \in Route, Leave(r)
    PROVE  AllMeant'
<1> USE DEF AllMeant, Sound
<1>0. /\ request[r] \in RequestType /\ request[r].run \in Seq(Item)
      /\ queue \in Seq(Item) /\ generation \in Nat
  <2>1. request[r] \in RequestType /\ queue \in Seq(Item)
    BY DEF TypeOK
  <2>2. generation \in Nat
    BY ConstantsAssumption DEF TypeOK
  <2> QED BY <2>1, <2>2 DEF RequestType
<1>a. \A s \in Route : Slots(request[s].run) \subseteq Item
  BY SlotsTyped DEF TypeOK, RequestType
<1>b. \A items, g : Means(items, g) =>
        \A i \in Item : meant'[i] = IF i \in items THEN g ELSE meant[i]
  BY DEF Means
<1>1. ASSUME NEW n \in 1..Len(request[r].run), CommitReplace(r, n)
      PROVE  AllMeant'
  <2> DEFINE run == request[r].run
  <2>1. /\ request[r].kind = "play" /\ lock = r /\ pc[r] = "replacing"
        /\ queue' = SubSeq(run, 1, n) /\ generation' = generation + 1
        /\ Means(Slots(run), generation + 1) /\ Advance(r, n, "fill")
    BY <1>1 DEF CommitReplace, Release, GuardsHold
  <2>2. Slots(queue') \subseteq Slots(run) /\ Slots(Rest(run, n)) \subseteq Slots(run) /\ Slots(run) \subseteq Item
    BY <1>0, <2>1, PartsOfRun
  <2>3. generation' \in 0..MaxGen
    BY DEF TypeOK
  <2>4. /\ pc' = [pc EXCEPT ![r] = IF Rest(run, n) = <<>> THEN "idle" ELSE "fill"]
        /\ \A s \in Route \ {r} : request'[s] = request[s]
        /\ Rest(run, n) # <<>> => request'[r].run = Rest(run, n) /\ request'[r].guard = generation'
    BY <2>1, <2>3, AdvanceTyped, ConstantsAssumption
  <2>5. \A i \in Slots(run) : meant'[i] = generation'
    BY <1>b, <2>1, <2>2
  <2>6. SlotsMeantForThisQueue'
    BY <2>2, <2>5 DEF SlotsMeantForThisQueue
  <2>7. \A s \in Route \ {r} : request'[s] = request[s] /\ pc'[s] = pc[s]
    BY <2>4 DEF TypeOK
  <2>8. GuardsHold'
    BY <1>0, <2>1, <2>2, <2>4, <2>5, <2>7, NewNumberRetires DEF GuardsHold, Guarded, TypeOK
  <2> QED BY <2>6, <2>8
<1>2. CASE AbandonReplace(r)
  BY <1>2, QuietStep DEF AbandonReplace, Drop, Go, TypeOK, GuardsHold
<1>3. ~ReadGeneration(r) /\ pc[r] # "adding"
  BY DEF ReadGeneration, GuardsHold
<1>4. ASSUME NEW behind \in request[r].at..Len(queue), CommitFill(r, behind)
      PROVE  AllMeant'
  <2> DEFINE run == request[r].run
  <2>1. /\ pc[r] = "appending" /\ request[r].guard = generation
        /\ Insert(r, 1, behind) /\ Advance(r, 1, "fill") /\ UNCHANGED <<generation, meant>>
    BY <1>4 DEF CommitFill, GuardsHold
  <2>2. 1 \in 1..Len(run)
    BY <1>0, <2>1 DEF WorkLeft, Bringing
  <2>3. Slots(queue') \subseteq Slots(queue) \cup Slots(run)
    BY <2>1, <2>2, InsertTyped
  <2>4. Slots(Rest(run, 1)) \subseteq Slots(run)
    BY <1>0, <2>2, PartsOfRun
  <2>5. /\ pc' = [pc EXCEPT ![r] = IF Rest(run, 1) = <<>> THEN "idle" ELSE "fill"]
        /\ \A s \in Route \ {r} : request'[s] = request[s]
        /\ Rest(run, 1) # <<>> => request'[r].run = Rest(run, 1) /\ request'[r].guard = generation'
    BY <2>1, <2>2, AdvanceTyped, ConstantsAssumption DEF TypeOK
  <2>6. \A i \in Slots(run) : meant[i] = generation
    BY <2>1 DEF GuardsHold, Guarded
  <2>7. SlotsMeantForThisQueue'
    BY <2>1, <2>3, <2>6 DEF SlotsMeantForThisQueue
  <2>8. GuardsHold'
    BY <1>0, <2>1, <2>4, <2>5, <2>6 DEF GuardsHold, Guarded, TypeOK
  <2> QED BY <2>7, <2>8
<1>5. ASSUME pc[r] = "appending", Skip(r), UNCHANGED <<queue, generation, meant>>
      PROVE  AllMeant'
  <2> DEFINE left == [request[r] EXCEPT !.run = Rest(request[r].run, 1), !.tries = 0]
  <2>1. Slots(Rest(request[r].run, 1)) \subseteq Slots(request[r].run)
    <3>1. 1 \in 1..Len(request[r].run)
      BY <1>0, <1>5 DEF WorkLeft, Bringing
    <3> QED BY <1>0, <3>1, PartsOfRun
  <2>2. left.run = Rest(request[r].run, 1) /\ left.guard = request[r].guard
    BY <1>0 DEF RequestType
  <2>3. \/ pc' = [pc EXCEPT ![r] = "idle"] /\ request' = [request EXCEPT ![r] = NoRequest]
        \/ pc' = [pc EXCEPT ![r] = "fill"] /\ request' = [request EXCEPT ![r] = left]
    BY <1>5 DEF Skip, Drop, Go
  <2> HIDE DEF left
  <2> QED BY <1>5, <2>1, <2>2, <2>3, QuietStep DEF TypeOK, GuardsHold
<1>6. CASE RefuseFill(r)
  BY <1>5, <1>6 DEF RefuseFill
<1>7. CASE DropFill(r)
  <2>1. CASE OnceMore(Offered(request[r].tries))
    <3> DEFINE again == [request[r] EXCEPT !.tries = Offered(@)]
    <3>1. again.run = request[r].run /\ again.guard = request[r].guard
      BY <1>0 DEF RequestType
    <3>2. /\ request' = [request EXCEPT ![r] = again] /\ pc[r] = "appending"
          /\ pc' = [pc EXCEPT ![r] = "fill"] /\ UNCHANGED <<queue, generation, meant>>
      BY <1>7, <2>1 DEF DropFill, Go
    <3> HIDE DEF again
    <3> QED BY <3>1, <3>2, QuietStep DEF TypeOK, GuardsHold
  <2>2. CASE ~OnceMore(Offered(request[r].tries))
    BY <1>5, <1>7, <2>2 DEF DropFill
  <2> QED BY <2>1, <2>2
<1>8. ASSUME NEW slot \in 0..Len(queue), CommitRadio(r, slot)
      PROVE  AllMeant'
  <2> DEFINE guarded == [request[r] EXCEPT !.guard = generation + 1]
             asked == Slots(queue') \cup Slots(request[r].run)
  <2>1. guarded.run = request[r].run /\ guarded.guard = generation + 1
    BY <1>0 DEF RequestType
  <2>2. /\ lock = r /\ queue' = KeepOnly(queue, slot) /\ generation' = generation + 1
        /\ Means(asked, generation + 1)
        /\ request' = [request EXCEPT ![r] = guarded] /\ pc' = [pc EXCEPT ![r] = "fill"]
    BY <1>8 DEF CommitRadio, Release, Go
  <2>3. asked \subseteq Item
    BY <1>0, <1>a, <2>2, KeptSlots, SlotsTyped
  <2>4. \A i \in asked : meant'[i] = generation'
    BY <1>b, <2>2, <2>3
  <2>5. SlotsMeantForThisQueue'
    BY <2>4 DEF SlotsMeantForThisQueue
  <2> HIDE DEF guarded
  <2>6. \A s \in Route \ {r} : request'[s] = request[s] /\ pc'[s] = pc[s]
    BY <2>2 DEF TypeOK
  <2>7. request'[r] = guarded /\ pc'[r] = "fill"
    BY <2>2 DEF TypeOK
  <2>8. Guarded(r)'
    BY <1>0, <2>1, <2>2, <2>4, <2>7 DEF Guarded
  <2>9. GuardsHold'
    BY <2>2, <2>6, <2>7, <2>8, NewNumberRetires DEF GuardsHold
  <2> QED BY <2>5, <2>9
<1>9. CASE RadioNotCleared(r)
  <2> DEFINE guarded == [request[r] EXCEPT !.guard = generation]
  <2>1. guarded.run = request[r].run /\ guarded.guard = generation
    BY <1>0 DEF RequestType
  <2>2. /\ UNCHANGED <<queue, generation>> /\ Means(Slots(request[r].run), generation)
        /\ request' = [request EXCEPT ![r] = guarded] /\ pc' = [pc EXCEPT ![r] = "fill"]
    BY <1>9 DEF RadioNotCleared, Go
  <2> HIDE DEF guarded
  <2>3. \A s \in Route \ {r} : request'[s] = request[s] /\ pc'[s] = pc[s]
    BY <2>2 DEF TypeOK
  <2>4. \A i \in Item : meant[i] = generation => meant'[i] = generation
    BY <1>b, <2>2
  <2>5. \A i \in Slots(request[r].run) : meant'[i] = generation
    BY <1>a, <1>b, <2>2
  <2>6. SlotsMeantForThisQueue'
    BY <1>0, <2>2, <2>4, SlotsTyped DEF SlotsMeantForThisQueue
  <2>7. request'[r] = guarded /\ pc'[r] = "fill"
    BY <2>2 DEF TypeOK
  <2>8. \A s \in Route \ {r} : Guarded(s) => Guarded(s)'
    BY <1>a, <2>2, <2>3, <2>4 DEF Guarded
  <2>9. Guarded(r)'
    BY <1>0, <2>1, <2>2, <2>5, <2>7 DEF Guarded
  <2>10. GuardsHold'
    BY <2>2, <2>3, <2>7, <2>8, <2>9 DEF GuardsHold
  <2> QED BY <2>6, <2>10
<1>10. CASE AbandonRadio(r)
  BY <1>10, QuietStep DEF AbandonRadio, Drop, Go, TypeOK, GuardsHold
<1>11. ASSUME NEW gone, Forfeit(gone)
       PROVE  \A s \in Route : /\ request'[s].run = request[s].run
                               /\ request'[s].guard = request[s].guard
                               /\ request'[s].kind = request[s].kind
  <2> SUFFICES ASSUME NEW s \in Route
               PROVE  /\ request'[s].run = request[s].run
                      /\ request'[s].guard = request[s].guard
                      /\ request'[s].kind = request[s].kind
    OBVIOUS
  <2> QED BY <1>11 DEF Forfeit, TypeOK, RequestType
<1>12. CASE CommitRemove(r)
  <2>1. Slots(queue') \subseteq Slots(queue)
    BY <1>0, <1>12, RemainingSlots DEF CommitRemove, PlaceKept
  <2>2. SlotsMeantForThisQueue'
    BY <1>12, <2>1 DEF CommitRemove, SlotsMeantForThisQueue
  <2>3. GuardsHold'
    BY <1>11, <1>12 DEF CommitRemove, CloseSheet, Go, GuardsHold, Guarded, TypeOK
  <2> QED BY <2>2, <2>3
<1>13. CASE AbandonEdit(r)
  BY <1>13, QuietStep DEF AbandonEdit, CloseSheet, Go, TypeOK, GuardsHold
<1>14. CASE CommitReorder(r)
  <2>1. GuardsHold'
    BY <1>11, <1>14 DEF CommitReorder, CloseSheet, Go, GuardsHold, Guarded, TypeOK
  <2>2. Slots(queue') = Slots(queue) /\ UNCHANGED <<generation, meant>>
    BY <1>14 DEF CommitReorder, SheetKept
  <2>3. SlotsMeantForThisQueue'
    BY <2>2 DEF SlotsMeantForThisQueue
  <2> QED BY <2>1, <2>3
<1> QED BY <1>1, <1>2, <1>3, <1>4, <1>6, <1>7, <1>8, <1>9, <1>10, <1>12, <1>13, <1>14
        DEF Leave, CommitAdd, RefuseAdd

\* Every slot of the queue was asked into that very queue: no filler of a
\* request that was superseded reaches the queue that came after it, provided
\* every filler's generation is read before the lock is let go.
THEOREM MeantForThisQueue ==
    ASSUME NumberedInTime
    PROVE  Spec => []SlotsMeantForThisQueue
<1>1. Init => AllMeant
  BY AllMeantInit
<1>2. AllMeant /\ [Next]_vars => AllMeant'
  <2> SUFFICES ASSUME AllMeant, [Next]_vars PROVE AllMeant'
    OBVIOUS
  <2>1. Sound'
    BY SoundStep DEF AllMeant
  <2>2. CASE SwitchOutput \/ UNCHANGED vars
    BY <2>1, <2>2, QuietStep DEF SwitchOutput, vars, AllMeant, GuardsHold
  <2> QED BY <2>1, <2>2, NumberedInTime, AllMeantAsks, AllMeantEnter, AllMeantLeave DEF Next
<1>3. AllMeant => SlotsMeantForThisQueue
  BY DEF AllMeant
<1> QED BY <1>1, <1>2, <1>3, PTL DEF Spec

-----------------------------------------------------------------------------
(* No item stands twice: neither in the queue, nor in what is still to be  *)
(* brought, nor in both.                                                   *)

\* What the routes still bring is in no queue yet, and nobody else brings it.
RunsApart ==
    /\ \A r \in Route : /\ Distinct(request[r].run)
                        /\ Slots(request[r].run) \cap Slots(queue) = {}
    /\ \A r, s \in Route : r # s => Slots(request[r].run) \cap Slots(request[s].run) = {}

\* An order a person drags the sheet into names every slot once.
OrdersDistinct == \A r \in Route : pc[r] \in {"reorder", "reordering"} => Distinct(plan[r].order)

\* The inductive invariant of distinctness.
AllApart == Sound /\ SlotsAreDistinct /\ RunsApart /\ OrdersDistinct

\* A run cut in two: the head a commit places, and the rest.
LEMMA RunCut ==
    ASSUME NEW s \in Seq(Item), Distinct(s), NEW n \in 1..Len(s)
    PROVE  /\ Distinct(SubSeq(s, 1, n)) /\ Distinct(Rest(s, n))
           /\ Slots(SubSeq(s, 1, n)) \cap Slots(Rest(s, n)) = {}
           /\ Slots(SubSeq(s, 1, n)) \subseteq Slots(s) /\ Slots(Rest(s, n)) \subseteq Slots(s)
           /\ Rest(s, n) \in Seq(Item) /\ SubSeq(s, 1, n) \in Seq(Item)
<1>1. /\ 1 \in 1..(Len(s) + 1) /\ n \in 0..Len(s) /\ n + 1 \in 1..(Len(s) + 1)
      /\ Len(s) \in 0..Len(s) /\ n < n + 1
  OBVIOUS
<1>2. Distinct(SubSeq(s, 1, n)) /\ Slots(SubSeq(s, 1, n)) \cap Slots(SubSeq(s, n + 1, Len(s))) = {}
  BY <1>1, PartsOfDistinct
<1>3. Distinct(SubSeq(s, n + 1, Len(s)))
  BY <1>1, PartsOfDistinct
<1> QED BY <1>2, <1>3, PartsOfRun DEF Rest

\* What is left of a run when its route goes on, gives an item up, or ends.
LEMMA RunsGoOn ==
    ASSUME TypeOK, NEW r \in Route
    PROVE  /\ Drop(r) => request'[r].run = <<>>
           /\ Skip(r) => request'[r].run = Rest(request[r].run, 1)
           /\ \A n, where : Advance(r, n, where) => request'[r].run = Rest(request[r].run, n)
           /\ Drop(r) \/ Skip(r) \/ (\E n, where : Advance(r, n, where)) =>
                \A s \in Route \ {r} : request'[s] = request[s] /\ pc'[s] = pc[s]
<1>1. NoRequest.run = <<>>
  BY DEF NoRequest, NewRequest
<1>2. request[r] \in RequestType /\ request \in [Route -> RequestType] /\ pc = [s \in Route |-> pc[s]]
  BY DEF TypeOK
<1>3. Drop(r) => request'[r].run = <<>>
  BY <1>1, <1>2 DEF Drop
<1>4. Skip(r) => request'[r].run = Rest(request[r].run, 1)
  BY <1>2, <1>3 DEF Skip, RequestType
<1>5. ASSUME NEW n, NEW where, Advance(r, n, where)
      PROVE  request'[r].run = Rest(request[r].run, n)
  <2>1. CASE Rest(request[r].run, n) = <<>>
    BY <1>1, <1>2, <1>5, <2>1 DEF Advance
  <2>2. CASE Rest(request[r].run, n) # <<>>
    <3> DEFINE guarded == IF where = "fill" THEN generation' ELSE request[r].guard
               done == [request[r] EXCEPT !.run = Rest(request[r].run, n), !.cursor = request[r].run[n],
                                !.tries = 0, !.guard = guarded,
                                !.placed = @ \cup Slots(SubSeq(request[r].run, 1, n))]
    <3>1. request' = [request EXCEPT ![r] = done]
      BY <1>5, <2>2 DEF Advance
    <3>2. done.run = Rest(request[r].run, n)
      BY <1>2 DEF RequestType
    <3> HIDE DEF done
    <3> QED BY <1>2, <3>1, <3>2
  <2> QED BY <2>1, <2>2
<1>6. Drop(r) \/ Skip(r) => \A s \in Route \ {r} : request'[s] = request[s] /\ pc'[s] = pc[s]
  BY <1>2 DEF Drop, Skip, Go
<1>7. ASSUME NEW n, NEW where, Advance(r, n, where), NEW s \in Route \ {r}
      PROVE  request'[s] = request[s] /\ pc'[s] = pc[s]
  BY <1>2, <1>7 DEF Advance, Go
<1> QED BY <1>3, <1>4, <1>5, <1>6, <1>7

\* A person's edit leaves what the routes bring.
LEMMA ForfeitKeeps ==
    ASSUME TypeOK, NEW gone, Forfeit(gone), NEW s \in Route
    PROVE  /\ request'[s].run = request[s].run
           /\ request'[s].guard = request[s].guard
           /\ request'[s].kind = request[s].kind
BY DEF Forfeit, TypeOK, RequestType

\* A step that puts nothing into the queue but what one route brings, and
\* leaves no more to bring than there was, keeps everything apart.
LEMMA StillApart ==
    ASSUME AllApart, Sound', OrdersDistinct', NEW r \in Route, Distinct(queue'),
           Slots(queue') \subseteq Slots(queue) \cup Slots(request[r].run),
           Slots(request'[r].run) \cap Slots(queue') = {},
           \A s \in Route : /\ Distinct(request'[s].run)
                            /\ Slots(request'[s].run) \subseteq Slots(request[s].run)
    PROVE  AllApart'
<1>1. SlotsAreDistinct'
  BY DEF SlotsAreDistinct
<1>2. RunsApart'
  <2>1. ASSUME NEW s \in Route PROVE Slots(request'[s].run) \cap Slots(queue') = {}
    <3>1. CASE s = r
      BY <3>1
    <3>2. CASE s # r
      BY <3>2 DEF AllApart, RunsApart
    <3> QED BY <3>1, <3>2
  <2>2. \A s, t \in Route : s # t => Slots(request'[s].run) \cap Slots(request'[t].run) = {}
    BY DEF AllApart, RunsApart
  <2> QED BY <2>1, <2>2 DEF RunsApart
<1> QED BY <1>1, <1>2 DEF AllApart

\* A step that only leaves less to bring.
LEMMA QuietApart ==
    ASSUME AllApart, Sound', OrdersDistinct', UNCHANGED queue,
           \A s \in Route : \/ request'[s].run = request[s].run
                            \/ request'[s].run = <<>>
                            \/ request[s].run # <<>> /\ request'[s].run = Rest(request[s].run, 1)
    PROVE  AllApart'
<1>1. ASSUME NEW s \in Route
      PROVE  Distinct(request'[s].run) /\ Slots(request'[s].run) \subseteq Slots(request[s].run)
  <2>1. request[s].run \in Seq(Item) /\ Distinct(request[s].run)
    BY DEF AllApart, RunsApart, Sound, TypeOK, RequestType
  <2>2. CASE request'[s].run = <<>>
    BY <2>2 DEF Distinct, Slots
  <2>3. CASE request[s].run # <<>> /\ request'[s].run = Rest(request[s].run, 1)
    <3>1. 1 \in 1..Len(request[s].run)
      BY <2>1, <2>3
    <3> QED BY <2>1, <2>3, <3>1, RunCut
  <2> QED BY <2>1, <2>2, <2>3
<1>2. RunsApart'
  BY <1>1 DEF AllApart, RunsApart
<1>3. SlotsAreDistinct'
  BY DEF AllApart, SlotsAreDistinct
<1> QED BY <1>2, <1>3 DEF AllApart

\* What an append puts into the queue: the head of its run, each item once.
LEMMA InsertApart ==
    ASSUME AllApart, NEW r \in Route, NEW n \in 1..Len(request[r].run),
           NEW behind \in request[r].at..Len(queue), Insert(r, n, behind)
    PROVE  /\ Distinct(queue')
           /\ Slots(queue') = Slots(queue) \cup Slots(SubSeq(request[r].run, 1, n))
           /\ \E place \in 0..Len(queue) :
                /\ queue' = InsertAfter(queue, place, SubSeq(request[r].run, 1, n))
                /\ place = IF request[r].at = NoAnchor THEN Len(queue) ELSE behind
<1> DEFINE new == SubSeq(request[r].run, 1, n)
<1>1. /\ request[r].run \in Seq(Item) /\ request[r].at \in Nat \cup {NoAnchor} /\ queue \in Seq(Item)
      /\ Distinct(request[r].run) /\ Distinct(queue) /\ Slots(request[r].run) \cap Slots(queue) = {}
  BY DEF AllApart, Sound, TypeOK, RequestType, RunsApart, SlotsAreDistinct
<1>2. new \in Seq(Item) /\ Distinct(new) /\ Slots(new) \subseteq Slots(request[r].run)
  BY <1>1, RunCut
<1>3. \E place \in 0..Len(queue) : /\ queue' = InsertAfter(queue, place, new)
                                   /\ place = IF request[r].at = NoAnchor THEN Len(queue) ELSE behind
  <2>1. CASE request[r].at = NoAnchor
    <3>1. queue' = queue \o new
      BY <2>1 DEF Insert
    <3>2. SubSeq(queue, 1, Len(queue)) = queue /\ SubSeq(queue, Len(queue) + 1, Len(queue)) = <<>>
      BY <1>1, SubSeqFull, SubSeqEmpty
    <3> HIDE DEF new
    <3>3. (queue \o new) \in Seq(Item)
      BY <1>1, <1>2, SlotsTogether
    <3>4. (queue \o new) \o <<>> = queue \o new
      BY <3>3, ConcatEmptySeq
    <3>5. queue' = InsertAfter(queue, Len(queue), new) /\ Len(queue) \in 0..Len(queue)
      BY <1>1, <3>1, <3>2, <3>4 DEF InsertAfter
    <3> QED BY <2>1, <3>5
  <2>2. CASE request[r].at # NoAnchor
    <3>1. behind \in 0..Len(queue)
      BY <1>1, <2>2
    <3>2. queue' = InsertAfter(queue, behind, new)
      BY <2>2 DEF Insert
    <3> QED BY <2>2, <3>1, <3>2
  <2> QED BY <2>1, <2>2
<1>4. PICK place \in 0..Len(queue) : queue' = InsertAfter(queue, place, new)
  BY <1>3
<1> HIDE DEF new
<1>5. /\ Slots(InsertAfter(queue, place, new)) = Slots(queue) \cup Slots(new)
      /\ Distinct(InsertAfter(queue, place, new))
  <2>1. Slots(queue) \cap Slots(new) = {}
    BY <1>1, <1>2
  <2>2. queue \in Seq(Item) /\ new \in Seq(Item)
    BY <1>1, <1>2
  <2>3. /\ Slots(InsertAfter(queue, place, new)) = Slots(queue) \cup Slots(new)
        /\ Distinct(queue) /\ Distinct(new) /\ Slots(queue) \cap Slots(new) = {}
             => Distinct(InsertAfter(queue, place, new))
    BY ONLY <2>2, <1>4, InsertedExactly, place \in 0..Len(queue)
  <2> QED BY <1>1, <1>2, <2>1, <2>3
<1>6. Distinct(queue') /\ Slots(queue') = Slots(queue) \cup Slots(new)
  BY <1>4, <1>5
<1> QED BY <1>3, <1>5, <1>6 DEF new

\* Nothing stands anywhere at first.
LEMMA ApartInit == Init => AllApart
<1> SUFFICES ASSUME Init PROVE AllApart
  OBVIOUS
<1>1. SlotsAreDistinct /\ OrdersDistinct
  BY DEF Init, SlotsAreDistinct, Distinct, OrdersDistinct
<1>2. RunsApart
  <2>1. \A r \in Route : request[r].run = <<>>
    BY DEF Init, NoRequest, NewRequest
  <2> QED BY <2>1 DEF RunsApart, Distinct, Slots
<1> QED BY <1>1, <1>2, SoundInit DEF AllApart

\* What a request brings are objects of its own; an order names what there is.
LEMMA ApartAsks ==
    ASSUME AllApart, Sound', NEW r \in Route, Asks(r)
    PROVE  AllApart'
<1>0. Sound /\ TypeOK
  BY DEF AllApart, Sound
<1>1. ASSUME NEW k \in Batches, NEW p \in {"next", "end"}, NEW items \in Bundles, Ask(r, k, p, items)
      PROVE  AllApart'
  <2> DEFINE asked == NewRequest(k, p, items, IF k = "stream" THEN generation ELSE 0)
             where == IF k = "stream" THEN "fill" ELSE "asked"
  <2>1. /\ request' = [request EXCEPT ![r] = asked] /\ pc' = [pc EXCEPT ![r] = where]
        /\ UNCHANGED <<queue, plan>>
    BY <1>1 DEF Ask, Go
  <2>2. asked.run = items /\ where \notin {"reorder", "reordering"}
    BY DEF NewRequest
  <2>3. Distinct(items) /\ Slots(items) \cap Held = {}
    BY DEF Bundles, Fresh, Slots
  <2>4. Slots(queue) \subseteq Held /\ \A s \in Route : Slots(request[s].run) \subseteq Held
    BY DEF Held
  <2> HIDE DEF asked, where
  <2>5. /\ request'[r].run = items
        /\ \A s \in Route \ {r} : request'[s] = request[s] /\ pc'[s] = pc[s]
        /\ pc'[r] = where
    BY <1>0, <2>1, <2>2 DEF TypeOK
  <2>6. RunsApart'
    <3>1. \A s \in Route : Distinct(request'[s].run) /\ Slots(request'[s].run) \cap Slots(queue') = {}
      BY <2>1, <2>3, <2>4, <2>5 DEF AllApart, RunsApart
    <3>2. \A s \in Route \ {r} : Slots(request'[s].run) \cap Slots(request'[r].run) = {}
      BY <2>3, <2>4, <2>5
    <3>3. \A s, t \in Route \ {r} : s # t => Slots(request'[s].run) \cap Slots(request'[t].run) = {}
      BY <2>5 DEF AllApart, RunsApart
    <3> QED BY <3>1, <3>2, <3>3 DEF RunsApart
  <2>7. OrdersDistinct'
    BY <2>1, <2>2, <2>5 DEF AllApart, OrdersDistinct
  <2> QED BY <2>1, <2>6, <2>7 DEF AllApart, SlotsAreDistinct
<1>2. ASSUME NEW i \in 1..Len(queue), PlanRemove(r, i)
      PROVE  AllApart'
  <2>1. OrdersDistinct'
    BY <1>0, <1>2 DEF PlanRemove, Go, AllApart, OrdersDistinct, TypeOK
  <2> QED BY <1>2, <2>1, QuietApart DEF PlanRemove
<1>3. ASSUME NEW wanted \in Orders(queue), PlanReorder(r, wanted)
      PROVE  AllApart'
  <2> DEFINE seen == NewPlan(queue, wanted, 0, active)
  <2>1. plan' = [plan EXCEPT ![r] = seen] /\ pc' = [pc EXCEPT ![r] = "reorder"]
    BY <1>3 DEF PlanReorder, Go
  <2>2. seen.order = wanted /\ Distinct(wanted)
    BY DEF NewPlan, Orders
  <2> HIDE DEF seen
  <2>3. OrdersDistinct'
    BY <1>0, <2>1, <2>2 DEF AllApart, OrdersDistinct, TypeOK
  <2> QED BY <1>3, <2>3, QuietApart DEF PlanReorder
<1> QED BY <1>1, <1>2, <1>3 DEF Asks

\* Meeting the lock places nothing.
LEMMA ApartEnter ==
    ASSUME AllApart, Sound', NEW r \in Route, Enter(r)
    PROVE  AllApart'
<1>0. Sound /\ TypeOK
  BY DEF AllApart, Sound
<1>1. /\ UNCHANGED queue
      /\ \A s \in Route : request'[s].run = request[s].run \/ request'[s].run = <<>>
  <2>1. CASE NoOutput(r) \/ StopFilling(r)
    BY <1>0, <2>1, RunsGoOn DEF NoOutput, StopFilling
  <2>2. ASSUME NEW slot \in -1..Len(queue), NEW out \in -1..Len(queue), BeginAppend(r, slot, out)
        PROVE  UNCHANGED queue /\ \A s \in Route : request'[s].run = request[s].run
    BY <1>0, <2>2 DEF BeginAppend, TypeOK, RequestType
  <2>3. CASE BeginReplace(r) \/ BeginRadio(r) \/ BeginRemove(r) \/ MovedUnder(r) \/ BeginReorder(r) \/ PlanOvertaken(r)
    BY <2>3 DEF BeginReplace, BeginRadio, BeginRemove, MovedUnder, BeginReorder, PlanOvertaken
  <2> QED BY <2>1, <2>2, <2>3 DEF Enter
<1>2. \A s \in Route : pc'[s] \in {"reorder", "reordering"} =>
        pc[s] \in {"reorder", "reordering"} /\ plan'[s] = plan[s]
  BY <1>0 DEF Enter, NoOutput, StopFilling, Drop, BeginAppend, BeginReplace, BeginRadio, BeginRemove,
              MovedUnder, CloseSheet, BeginReorder, PlanOvertaken, Go, TypeOK
<1>3. OrdersDistinct'
  BY <1>2 DEF AllApart, OrdersDistinct
<1> QED BY <1>1, <1>3, QuietApart

\* A commit places the head of one run, each item once; an edit keeps the
\* slots or takes some away.
LEMMA ApartLeave ==
    ASSUME AllApart, Sound', NEW r \in Route, Leave(r)
    PROVE  AllApart'
<1> DEFINE run == request[r].run
<1>0. Sound /\ TypeOK /\ LockDiscipline
  BY DEF AllApart, Sound
<1>a. run \in Seq(Item) /\ Distinct(run) /\ queue \in Seq(Item) /\ Distinct(queue)
  BY <1>0 DEF AllApart, RunsApart, SlotsAreDistinct, TypeOK, RequestType
<1>b. Slots(run) \cap Slots(queue) = {}
  BY DEF AllApart, RunsApart
<1>c. \A s \in Route : Distinct(request[s].run)
  BY DEF AllApart, RunsApart
<1>d. \A s \in Route : pc'[s] \in {"reorder", "reordering"} =>
        pc[s] \in {"reorder", "reordering"} /\ plan'[s] = plan[s]
  BY <1>0 DEF Leave, CommitReplace, AbandonReplace, ReadGeneration, CommitAdd, CommitFill, RefuseAdd,
              RefuseFill, DropFill, CommitRadio, RadioNotCleared, AbandonRadio, CommitRemove, AbandonEdit,
              CommitReorder, CloseSheet, Advance, Drop, Skip, Go, TypeOK
<1>e. OrdersDistinct'
  BY <1>d DEF AllApart, OrdersDistinct
<1>1. ASSUME NEW n \in 1..Len(run), NEW where, Advance(r, n, where), Distinct(queue'),
             Slots(queue') \subseteq Slots(queue) \cup Slots(SubSeq(run, 1, n))
      PROVE  AllApart'
  <2>1. /\ request'[r].run = Rest(run, n)
        /\ \A s \in Route \ {r} : request'[s] = request[s]
    BY <1>0, <1>1, RunsGoOn
  <2>2. /\ Distinct(Rest(run, n)) /\ Slots(SubSeq(run, 1, n)) \cap Slots(Rest(run, n)) = {}
        /\ Slots(SubSeq(run, 1, n)) \subseteq Slots(run) /\ Slots(Rest(run, n)) \subseteq Slots(run)
    BY <1>a, RunCut
  <2> HIDE DEF run
  <2>3. Slots(request'[r].run) \cap Slots(queue') = {}
    BY <1>1, <1>b, <2>1, <2>2
  <2>4. \A s \in Route : /\ Distinct(request'[s].run)
                         /\ Slots(request'[s].run) \subseteq Slots(request[s].run)
    BY <1>c, <2>1, <2>2 DEF run
  <2>5. Slots(queue') \subseteq Slots(queue) \cup Slots(request[r].run)
    BY <1>1, <2>2 DEF run
  <2> QED BY <1>1, <1>e, <2>3, <2>4, <2>5, StillApart
<1>2. ASSUME NEW n \in 1..Len(run), CommitReplace(r, n)
      PROVE  AllApart'
  <2>1. queue' = SubSeq(run, 1, n) /\ \E where : Advance(r, n, where)
    BY <1>2 DEF CommitReplace
  <2>2. Distinct(queue') /\ Slots(queue') \subseteq Slots(queue) \cup Slots(SubSeq(run, 1, n))
    BY <1>a, <2>1, RunCut
  <2> QED BY <1>1, <2>1, <2>2
<1>3. ASSUME NEW n \in 1..Len(run), NEW behind \in request[r].at..Len(queue), CommitAdd(r, n, behind)
      PROVE  AllApart'
  BY <1>1, <1>3, InsertApart DEF CommitAdd
<1>4. ASSUME NEW behind \in request[r].at..Len(queue), CommitFill(r, behind)
      PROVE  AllApart'
  <2>1. 1 \in 1..Len(run)
    BY <1>0, <1>a, <1>4 DEF CommitFill, Sound, WorkLeft, Bringing
  <2> QED BY <1>1, <1>4, <2>1, InsertApart DEF CommitFill
<1>5. CASE AbandonReplace(r) \/ RefuseAdd(r) \/ AbandonRadio(r)
  BY <1>0, <1>5, <1>e, RunsGoOn, QuietApart DEF AbandonReplace, RefuseAdd, AbandonRadio
<1>6. ASSUME pc[r] = "appending", Skip(r), UNCHANGED queue
      PROVE  AllApart'
  <2>1. run # <<>>
    BY <1>0, <1>6 DEF Sound, WorkLeft, Bringing
  <2> QED BY <1>0, <1>6, <1>e, <2>1, RunsGoOn, QuietApart
<1>7. CASE RefuseFill(r)
  BY <1>6, <1>7 DEF RefuseFill
<1>8. CASE DropFill(r)
  <2>1. CASE OnceMore(Offered(request[r].tries))
    <3> DEFINE again == [request[r] EXCEPT !.tries = Offered(@)]
    <3>1. again.run = run
      BY <1>0 DEF TypeOK, RequestType
    <3>2. UNCHANGED queue /\ request' = [request EXCEPT ![r] = again]
      BY <1>8, <2>1 DEF DropFill
    <3> HIDE DEF again
    <3>3. \A s \in Route : request'[s].run = request[s].run
      BY <1>0, <3>1, <3>2 DEF TypeOK
    <3> QED BY <1>e, <3>2, <3>3, QuietApart
  <2>2. CASE ~OnceMore(Offered(request[r].tries))
    BY <1>6, <1>8, <2>2 DEF DropFill
  <2> QED BY <2>1, <2>2
<1>9. CASE ReadGeneration(r) \/ RadioNotCleared(r)
  <2> DEFINE read == [request[r] EXCEPT !.guard = generation]
  <2>1. read.run = run
    BY <1>0 DEF TypeOK, RequestType
  <2>2. UNCHANGED queue /\ request' = [request EXCEPT ![r] = read]
    BY <1>9 DEF ReadGeneration, RadioNotCleared
  <2> HIDE DEF read
  <2>3. \A s \in Route : request'[s].run = request[s].run
    BY <1>0, <2>1, <2>2 DEF TypeOK
  <2> QED BY <1>e, <2>2, <2>3, QuietApart
<1>10. ASSUME Distinct(queue'), Slots(queue') \subseteq Slots(queue),
              \A s \in Route : request'[s].run = request[s].run
       PROVE  AllApart'
  BY <1>10, <1>b, <1>c, <1>e, StillApart
<1>11. ASSUME NEW slot \in 0..Len(queue), CommitRadio(r, slot)
       PROVE  AllApart'
  <2>1. queue' = KeepOnly(queue, slot) /\ \A s \in Route : request'[s].run = request[s].run
    BY <1>0, <1>11 DEF CommitRadio, TypeOK, RequestType
  <2>2. Distinct(queue') /\ Slots(queue') \subseteq Slots(queue)
    BY <1>a, <2>1, KeptSlots, KeptDistinct
  <2> QED BY <1>10, <2>1, <2>2
<1>12. CASE CommitRemove(r)
  <2>1. \A s \in Route : request'[s].run = request[s].run
    BY <1>0, <1>12, ForfeitKeeps DEF CommitRemove
  <2>2. queue' = WithoutSlot(queue, plan[r].at) /\ plan[r].at \in 1..Len(queue)
    BY <1>0, <1>12 DEF CommitRemove, Sound, PlaceKept
  <2>3. Distinct(queue') /\ Slots(queue') \subseteq Slots(queue)
    BY <1>a, <2>2, RemovedExactly
  <2> QED BY <1>10, <2>1, <2>3
<1>13. CASE AbandonEdit(r)
  BY <1>13, <1>e, QuietApart DEF AbandonEdit
<1>14. CASE CommitReorder(r)
  <2>1. \A s \in Route : request'[s].run = request[s].run
    BY <1>0, <1>14, ForfeitKeeps DEF CommitReorder
  <2>2. queue' = plan[r].order /\ Distinct(plan[r].order) /\ Slots(plan[r].order) = Slots(queue)
    BY <1>0, <1>14 DEF CommitReorder, AllApart, OrdersDistinct, Sound, SheetKept
  <2> QED BY <1>10, <2>1, <2>2
<1> QED BY <1>2, <1>3, <1>4, <1>5, <1>7, <1>8, <1>9, <1>11, <1>12, <1>13, <1>14 DEF Leave

\* Every step keeps it.
LEMMA ApartStep == AllApart /\ [Next]_vars => AllApart'
<1> SUFFICES ASSUME AllApart, [Next]_vars PROVE AllApart'
  OBVIOUS
<1>1. Sound'
  BY SoundStep DEF AllApart
<1>2. CASE SwitchOutput \/ UNCHANGED vars
  <2>1. UNCHANGED <<queue, pc, request, plan>>
    BY <1>2 DEF SwitchOutput, vars
  <2> QED BY <1>1, <2>1, QuietApart DEF AllApart, OrdersDistinct
<1> QED BY <1>1, <1>2, ApartAsks, ApartEnter, ApartLeave DEF Next

\* No item stands in two slots of the queue, however the routes' items,
\* removals and reorders fall between each other.
THEOREM NoItemTwice == Spec => []SlotsAreDistinct
<1>1. AllApart => SlotsAreDistinct
  BY DEF AllApart
<1> QED BY <1>1, ApartInit, ApartStep, PTL DEF Spec

-----------------------------------------------------------------------------
(* An edit of the sheet does what the person saw.                          *)

\* The slot a removal is about to take is of the track the person saw.
TrackSeen ==
    \A r \in Route : pc[r] = "removing" =>
        plan[r].at \in 1..Len(queue) /\ TrackOf[queue[plan[r].at]] = TrackOf[plan[r].sheet[1]]

\* The inductive invariant of the edits.
AsSeen == AllApart /\ TrackSeen

\* A route that holds the lock finds the queue as it was: no other route
\* changes it, and neither does a switch of outputs.
LEMMA QueueUnderTheLock ==
    ASSUME Sound, NEW r \in Route, pc[r] \in Locked, [Next]_vars, ~Leave(r)
    PROVE  UNCHANGED <<queue, generation>> /\ pc'[r] = pc[r] /\ plan'[r] = plan[r]
<1>0. TypeOK /\ lock = r /\ r # Free
  BY ConstantsAssumption DEF Sound, LockDiscipline
<1>1. CASE SwitchOutput \/ UNCHANGED vars
  BY <1>1 DEF SwitchOutput, vars
<1>2. ASSUME NEW s \in Route, Asks(s)
      PROVE  UNCHANGED <<queue, generation>> /\ pc'[r] = pc[r] /\ plan'[r] = plan[r]
  <2>1. s # r
    BY <1>2 DEF Asks, Ask, PlanRemove, PlanReorder, Idle, Locked
  <2> QED BY <1>0, <1>2, <2>1 DEF Asks, Ask, PlanRemove, PlanReorder, Go, TypeOK
<1>3. ASSUME NEW s \in Route, Enter(s)
      PROVE  UNCHANGED <<queue, generation>> /\ pc'[r] = pc[r] /\ plan'[r] = plan[r]
  BY <1>0, <1>3 DEF Enter, NoOutput, BeginReplace, BeginRadio, BeginAppend, StopFilling, BeginRemove,
                    MovedUnder, BeginReorder, PlanOvertaken, Acquire
<1>4. ASSUME NEW s \in Route, s # r, Leave(s)
      PROVE  UNCHANGED <<queue, generation>> /\ pc'[r] = pc[r] /\ plan'[r] = plan[r]
  <2>1. ~(Release(s))
    BY <1>0, <1>4 DEF Release
  <2>2. ReadGeneration(s)
    BY <1>4, <2>1 DEF Leave, CommitReplace, AbandonReplace, CommitAdd, CommitFill, RefuseAdd, RefuseFill,
              DropFill, CommitRadio, RadioNotCleared, AbandonRadio, CommitRemove, AbandonEdit, CommitReorder
  <2> QED BY <1>0, <1>4, <2>2 DEF ReadGeneration, Go, TypeOK
<1> QED BY <1>1, <1>2, <1>3, <1>4 DEF Next

\* A removal begins on the slot it checked, and nothing moves it.
LEMMA AsSeenStep == AsSeen /\ [Next]_vars => AsSeen'
<1> SUFFICES ASSUME AsSeen, [Next]_vars PROVE AsSeen'
  OBVIOUS
<1>0. AllApart' /\ Sound /\ TypeOK /\ "removing" \in Locked
  BY ApartStep DEF AsSeen, AllApart, Sound, Locked
<1>1. TrackSeen'
  <2> SUFFICES ASSUME NEW r \in Route, pc'[r] = "removing"
               PROVE  (/\ plan[r].at \in 1..Len(queue)
                       /\ TrackOf[queue[plan[r].at]] = TrackOf[plan[r].sheet[1]])'
    BY DEF TrackSeen
  <2>1. CASE pc[r] = "removing"
    <3>1. ~Leave(r)
      BY <1>0, <2>1 DEF Leave, CommitReplace, AbandonReplace, ReadGeneration, CommitAdd, CommitFill, RefuseAdd,
                RefuseFill, DropFill, CommitRadio, RadioNotCleared, AbandonRadio, CommitRemove, AbandonEdit,
                CommitReorder, CloseSheet, Go, TypeOK
    <3>2. UNCHANGED queue /\ plan'[r] = plan[r]
      BY <1>0, <2>1, <3>1, QueueUnderTheLock
    <3> QED BY <2>1, <3>2 DEF AsSeen, TrackSeen
  <2>2. CASE pc[r] # "removing"
    <3>1. BeginRemove(r)
      <4>1. ~SwitchOutput /\ ~UNCHANGED vars
        BY <2>2 DEF SwitchOutput, vars
      <4>2. \A s \in Route : ~Asks(s)
        BY <1>0, <2>2 DEF Asks, Ask, PlanRemove, PlanReorder, Go, TypeOK
      <4>3. ASSUME NEW s \in Route, Leave(s) PROVE FALSE
        <5>1. pc' = [pc EXCEPT ![s] = pc'[s]] /\ pc'[s] \in {"idle", "fill", "numbering"}
          <6>1. ASSUME NEW n, Advance(s, n, "fill") \/ Advance(s, n, "numbering")
                PROVE  pc' = [pc EXCEPT ![s] = pc'[s]] /\ pc'[s] \in {"idle", "fill", "numbering"}
            BY <1>0, <6>1 DEF Advance, Go, TypeOK
          <6>2. ASSUME Skip(s)
                PROVE  pc' = [pc EXCEPT ![s] = pc'[s]] /\ pc'[s] \in {"idle", "fill", "numbering"}
            BY <1>0, <6>2 DEF Skip, Drop, Go, TypeOK
          <6> QED BY <1>0, <4>3, <6>1, <6>2
                  DEF Leave, CommitReplace, AbandonReplace, ReadGeneration, CommitAdd, CommitFill, RefuseAdd,
                      RefuseFill, DropFill, CommitRadio, RadioNotCleared, AbandonRadio, CommitRemove,
                      AbandonEdit, CommitReorder, CloseSheet, Drop, Go, TypeOK
        <5> QED BY <1>0, <2>2, <5>1 DEF TypeOK
      <4>4. ASSUME NEW s \in Route, Enter(s) PROVE BeginRemove(s) /\ s = r
        BY <1>0, <2>2, <4>4 DEF Enter, NoOutput, BeginReplace, BeginRadio, BeginAppend, StopFilling, BeginRemove,
                  MovedUnder, BeginReorder, PlanOvertaken, CloseSheet, Drop, Go, TypeOK
      <4> QED BY <4>1, <4>2, <4>3, <4>4 DEF Next
    <3> QED BY <3>1 DEF BeginRemove, StillThere
  <2> QED BY <2>1, <2>2
<1> QED BY <1>0, <1>1 DEF AsSeen

\* A reorder keeps the very slots and puts them as the person dragged them; a
\* removal takes one slot, of the track they saw - whatever the other routes
\* and the fillers do between the click and the commit.
THEOREM EditsAsSeen == Spec => EditsDoWhatWasSeen
<1> DEFINE AsWasSeen(r) ==
      /\ pc[r] = "reordering" /\ queue' # queue => queue' = plan[r].order /\ Slots(queue') = Slots(queue)
      /\ pc[r] = "removing" /\ queue' # queue =>
           \E i \in Slots(queue) : /\ Slots(queue') = Slots(queue) \ {i}
                                   /\ TrackOf[i] = TrackOf[plan[r].sheet[1]]
<1>1. Init => AsSeen
  <2>1. Init => TrackSeen
    BY DEF Init, TrackSeen
  <2> QED BY <2>1, ApartInit DEF AsSeen
<1>2. AsSeen /\ [Next]_vars => \A r \in Route : AsWasSeen(r)
  <2> SUFFICES ASSUME AsSeen, [Next]_vars, NEW r \in Route, pc[r] \in {"reordering", "removing"}, queue' # queue
               PROVE  AsWasSeen(r)
    OBVIOUS
  <2>0. Sound /\ queue \in Seq(Item) /\ Distinct(queue)
    BY DEF AsSeen, AllApart, Sound, TypeOK, SlotsAreDistinct
  <2>1. Leave(r)
    BY <2>0, QueueUnderTheLock DEF Locked
  <2>2. CASE pc[r] = "reordering"
    <3>1. CommitReorder(r)
      BY <2>1, <2>2 DEF Leave, CommitReplace, AbandonReplace, ReadGeneration, CommitAdd, CommitFill, RefuseAdd,
                RefuseFill, DropFill, CommitRadio, RadioNotCleared, AbandonRadio, CommitRemove, AbandonEdit
    <3> QED BY <2>0, <2>2, <3>1 DEF CommitReorder, Sound, SheetKept
  <2>3. CASE pc[r] = "removing"
    <3>1. CommitRemove(r)
      BY <2>1, <2>3 DEF Leave, CommitReplace, AbandonReplace, ReadGeneration, CommitAdd, CommitFill, RefuseAdd,
                RefuseFill, DropFill, CommitRadio, RadioNotCleared, AbandonRadio, CommitReorder, AbandonEdit
    <3>2. /\ queue' = WithoutSlot(queue, plan[r].at) /\ plan[r].at \in 1..Len(queue)
          /\ TrackOf[queue[plan[r].at]] = TrackOf[plan[r].sheet[1]]
      BY <2>3, <3>1 DEF CommitRemove, AsSeen, TrackSeen
    <3>3. Slots(queue') = Slots(queue) \ {queue[plan[r].at]}
      BY <2>0, <3>2, RemovedExactly
    <3>4. queue[plan[r].at] \in Slots(queue)
      BY <3>2 DEF Slots
    <3> QED BY <2>3, <3>2, <3>3, <3>4
  <2> QED BY <2>2, <2>3
<1>3. Spec => [][\A r \in Route : AsWasSeen(r)]_vars
  BY <1>1, <1>2, AsSeenStep, PTL DEF Spec
<1> QED BY <1>3 DEF EditsDoWhatWasSeen

-----------------------------------------------------------------------------
(* PlaybackQueue implements QueuePromise.                                  *)

\* No filler is ahead of the queue, and one that hands an item to the output
\* is of the queue there is.
NoFillerAhead ==
    \A r \in Route : /\ pc[r] \in {"fill", "appending"} => request[r].guard <= generation
                     /\ pc[r] = "appending" => request[r].guard = generation

\* The inductive invariant of the refinement.
KeptInv == AllApart /\ NoFillerAhead

\* What everybody owes, and what is left of it.
LEMMA OwedIs ==
    ASSUME AllApart
    PROVE  /\ \A r \in Route : /\ Owed(r) \in Seq(Item) /\ Distinct(Owed(r))
                               /\ Slots(Owed(r)) \cap Slots(queue) = {}
           /\ \A r \in Route : Owing[r] = Owed(r) /\ Owing'[r] = Owed(r)'
<1>1. ASSUME NEW r \in Route
      PROVE  /\ Owed(r) \in Seq(Item) /\ Distinct(Owed(r))
             /\ Slots(Owed(r)) \cap Slots(queue) = {}
  <2>1. /\ request[r].run \in Seq(Item) /\ Distinct(request[r].run)
        /\ Slots(request[r].run) \cap Slots(queue) = {}
    BY DEF AllApart, RunsApart, Sound, TypeOK, RequestType
  <2>2. <<>> \in Seq(Item) /\ Distinct(<<>>) /\ Slots(<<>>) = {}
    BY DEF Distinct, Slots
  <2> QED BY <2>1, <2>2 DEF Owed
<1> QED BY <1>1 DEF Owing

\* The promise speaks of the same queues.
LEMMA PromisedQueues ==
    /\ \A q : Promised!Slots(q) = Slots(q) /\ Promised!Distinct(q) = Distinct(q)
    /\ \A q, i : Promised!KeepOnly(q, i) = KeepOnly(q, i) /\ Promised!WithoutSlot(q, i) = WithoutSlot(q, i)
    /\ \A q, at, new : Promised!InsertAfter(q, at, new) = InsertAfter(q, at, new)
BY DEF Promised!Slots, Slots, Promised!Distinct, Distinct, Promised!KeepOnly, KeepOnly,
       Promised!WithoutSlot, WithoutSlot, Promised!InsertAfter, InsertAfter

\* Nothing the promise speaks of changes.
LEMMA KeepsStill ==
    ASSUME UNCHANGED queue, \A s \in Route : Owed(s)' = Owed(s)
    PROVE  UNCHANGED Promised!vars
BY DEF Promised!vars, Owing

\* More is owed to the queue there is.
LEMMA KeepsBring ==
    ASSUME AllApart, NEW r \in Route, UNCHANGED queue, Owed(r) = <<>>,
           Distinct(Owed(r)'), Slots(Owed(r)') \cap Slots(queue) = {},
           \A s \in Route \ {r} : Owed(s)' = Owed(s)
    PROVE  Promised!Next
<1>1. Owing' = [Owing EXCEPT ![r] = Owing'[r]]
  BY DEF Owing
<1>2. Owing[r] = <<>> /\ Owing'[r] = Owed(r)'
  BY OwedIs
<1>3. Promised!Bring(r)
  BY <1>1, <1>2, PromisedQueues DEF Promised!Bring, Promised!New
<1> QED BY <1>3 DEF Promised!Next

\* An item owed takes its place, or is given up.
LEMMA KeepsRollIn ==
    ASSUME AllApart, NEW r \in Route, Owed(r) # <<>>, Owed(r)' = Tail(Owed(r)),
           \/ UNCHANGED queue
           \/ \E place \in 0..Len(queue) : queue' = InsertAfter(queue, place, <<Head(Owed(r))>>),
           \A s \in Route \ {r} : Owed(s)' = Owed(s)
    PROVE  Promised!Next
<1>1. Owing' = [Owing EXCEPT ![r] = Tail(Owing[r])]
  BY OwedIs DEF Owing
<1>2. Owing[r] = Owed(r)
  BY OwedIs
<1>3. Promised!RollIn(r)
  BY <1>1, <1>2, PromisedQueues DEF Promised!RollIn
<1> QED BY <1>3 DEF Promised!Next

\* What was owed to a queue that was replaced is called off.
LEMMA CalledOff ==
    ASSUME KeptInv, NEW r \in Route, lock = r, generation' = generation + 1,
           \A s \in Route \ {r} : request'[s] = request[s] /\ pc'[s] = pc[s]
    PROVE  Promised!OnlyOwes(r)
<1>1. \A s \in Route \ {r} : Owed(s)' = <<>>
  <2> SUFFICES ASSUME NEW s \in Route \ {r} PROVE Owed(s)' = <<>>
    OBVIOUS
  <2>1. generation \in Nat /\ request[s].guard \in Nat
    BY ConstantsAssumption DEF KeptInv, AllApart, Sound, TypeOK, RequestType
  <2>2. pc[s] \in {"fill", "appending"} => request[s].guard # generation'
    BY <2>1 DEF KeptInv, NoFillerAhead
  <2> QED BY <2>2 DEF Owed
<1>2. Owing' = [Promised!Nothing EXCEPT ![r] = Owing'[r]]
  BY <1>1 DEF Owing, Promised!Nothing
<1> QED BY <1>2 DEF Promised!OnlyOwes

\* A route whose step leaves the generation touches no one else's debt.
LEMMA OthersOwe ==
    ASSUME NEW r \in Route, UNCHANGED generation,
           \A s \in Route \ {r} : request'[s] = request[s] /\ pc'[s] = pc[s]
    PROVE  \A s \in Route \ {r} : Owed(s)' = Owed(s)
BY DEF Owed

\* No step puts a filler ahead of the queue.
LEMMA NoFillerAheadStep ==
    ASSUME KeptInv, [Next]_vars
    PROVE  NoFillerAhead'
<1>0. /\ Sound /\ TypeOK /\ LockDiscipline /\ generation \in Nat
      /\ \A s \in Route : request[s] \in RequestType /\ request[s].guard \in Nat
  <2>1. Sound /\ TypeOK /\ LockDiscipline
    BY DEF KeptInv, AllApart, Sound
  <2> QED BY <2>1, ConstantsAssumption DEF TypeOK, RequestType
<1>1. ASSUME NEW r \in Route, generation' = generation \/ (generation' = generation + 1 /\ lock = r),
             \A s \in Route \ {r} : /\ request'[s].guard = request[s].guard
                                    /\ pc'[s] = pc[s],
             pc'[r] \in {"fill", "appending"} =>
                \/ request'[r].guard = generation'
                \/ /\ generation' = generation /\ request'[r].guard = request[r].guard
                   /\ pc[r] \in {"fill", "appending"}
                   /\ pc'[r] = "appending" => request[r].guard = generation
      PROVE  NoFillerAhead'
  <2> SUFFICES ASSUME NEW s \in Route
               PROVE  /\ pc'[s] \in {"fill", "appending"} => request'[s].guard <= generation'
                      /\ pc'[s] = "appending" => request'[s].guard = generation'
    BY DEF NoFillerAhead
  <2>1. CASE s = r
    BY <1>0, <1>1, <2>1 DEF KeptInv, NoFillerAhead
  <2>2. CASE s # r
    <3>1. generation' = generation + 1 => pc[s] # "appending"
      BY <1>0, <1>1, <2>2 DEF LockDiscipline, Locked
    <3> QED BY <1>0, <1>1, <2>2, <3>1 DEF KeptInv, NoFillerAhead
  <2> QED BY <2>1, <2>2
<1>2. CASE SwitchOutput \/ UNCHANGED vars
  BY <1>2 DEF SwitchOutput, vars, KeptInv, NoFillerAhead
<1>3. ASSUME NEW r \in Route, Asks(r) PROVE NoFillerAhead'
  <2>1. ASSUME NEW k \in Batches, NEW p \in {"next", "end"}, NEW items \in Bundles, Ask(r, k, p, items)
        PROVE  NoFillerAhead'
    <3> DEFINE asked == NewRequest(k, p, items, IF k = "stream" THEN generation ELSE 0)
               where == IF k = "stream" THEN "fill" ELSE "asked"
    <3>1. /\ request' = [request EXCEPT ![r] = asked] /\ pc' = [pc EXCEPT ![r] = where]
          /\ UNCHANGED generation
      BY <2>1 DEF Ask, Go
    <3>2. where = "fill" => asked.guard = generation
      BY DEF NewRequest
    <3>3. where \in {"fill", "asked"}
      OBVIOUS
    <3> HIDE DEF asked, where
    <3> QED BY <1>0, <1>1, <3>1, <3>2, <3>3 DEF TypeOK
  <2>2. CASE (\E i \in 1..Len(queue) : PlanRemove(r, i)) \/ (\E wanted \in Orders(queue) : PlanReorder(r, wanted))
    BY <1>0, <1>1, <2>2 DEF PlanRemove, PlanReorder, Go, TypeOK
  <2> QED BY <1>3, <2>1, <2>2 DEF Asks
<1>4. ASSUME NEW r \in Route, Enter(r) PROVE NoFillerAhead'
  <2>1. ASSUME NEW slot, NEW out, BeginAppend(r, slot, out) PROVE NoFillerAhead'
    <3> DEFINE begun == [request[r] EXCEPT !.at = Anchor(r, slot, out)]
    <3>1. begun.guard = request[r].guard
      BY <1>0 DEF RequestType
    <3>2. /\ request' = [request EXCEPT ![r] = begun] /\ UNCHANGED generation
          /\ \/ pc' = [pc EXCEPT ![r] = "adding"]
             \/ pc[r] = "fill" /\ request[r].guard = generation /\ pc' = [pc EXCEPT ![r] = "appending"]
      BY <2>1 DEF BeginAppend, Stale, Go
    <3> HIDE DEF begun
    <3> QED BY <1>0, <1>1, <3>1, <3>2 DEF TypeOK
  <2>2. CASE NoOutput(r) \/ StopFilling(r)
    BY <1>0, <1>1, <2>2 DEF NoOutput, StopFilling, Drop, Go, TypeOK
  <2>3. CASE BeginReplace(r) \/ BeginRadio(r) \/ BeginRemove(r) \/ MovedUnder(r) \/ BeginReorder(r) \/ PlanOvertaken(r)
    BY <1>0, <1>1, <2>3 DEF BeginReplace, BeginRadio, BeginRemove, MovedUnder, BeginReorder, PlanOvertaken,
                            CloseSheet, Go, TypeOK
  <2> QED BY <1>4, <2>1, <2>2, <2>3 DEF Enter
<1>5. ASSUME NEW r \in Route, Leave(r) PROVE NoFillerAhead'
  <2>1. ASSUME NEW n \in 1..Len(request[r].run), NEW where \in {"fill", "numbering"}, Advance(r, n, where),
               generation' \in 0..MaxGen, generation' = generation \/ (generation' = generation + 1 /\ lock = r)
        PROVE  NoFillerAhead'
    <3>1. /\ pc' = [pc EXCEPT ![r] = IF Rest(request[r].run, n) = <<>> THEN "idle" ELSE where]
          /\ \A s \in Route \ {r} : request'[s] = request[s]
          /\ Rest(request[r].run, n) # <<>> /\ where = "fill" => request'[r].guard = generation'
      BY <1>0, <2>1, AdvanceTyped, ConstantsAssumption
    <3>2. pc'[r] \in {"fill", "appending"} => request'[r].guard = generation'
      BY <1>0, <3>1 DEF TypeOK
    <3> QED BY <1>0, <1>1, <2>1, <3>1, <3>2 DEF TypeOK
  <2>2. ASSUME NEW n \in 1..Len(request[r].run), CommitReplace(r, n) PROVE NoFillerAhead'
    <3>1. /\ Advance(r, n, IF request[r].kind = "play" THEN "fill" ELSE "numbering")
          /\ generation' = generation + 1 /\ lock = r /\ pc[r] = "replacing"
      BY <2>2 DEF CommitReplace, Release
    <3>2. generation' \in 0..MaxGen
      BY <1>0, <3>1, ConstantsAssumption DEF Sound, RoomToNumber
    <3> QED BY <2>1, <3>1, <3>2
  <2>3. ASSUME NEW n \in 1..Len(request[r].run), NEW behind, CommitAdd(r, n, behind) PROVE NoFillerAhead'
    BY <1>0, <2>1, <2>3 DEF CommitAdd, TypeOK
  <2>4. ASSUME NEW behind, CommitFill(r, behind) PROVE NoFillerAhead'
    <3>1. 1 \in 1..Len(request[r].run)
      BY <1>0, <2>4 DEF CommitFill, Sound, WorkLeft, Bringing, RequestType
    <3> QED BY <1>0, <2>1, <2>4, <3>1 DEF CommitFill, TypeOK
  <2>5. CASE AbandonReplace(r) \/ RefuseAdd(r) \/ AbandonRadio(r)
    BY <1>0, <1>1, <2>5 DEF AbandonReplace, RefuseAdd, AbandonRadio, Drop, Go, TypeOK
  <2>6. ASSUME pc[r] = "appending", Skip(r), UNCHANGED generation PROVE NoFillerAhead'
    <3> DEFINE left == [request[r] EXCEPT !.run = Rest(request[r].run, 1), !.tries = 0]
    <3>1. left.guard = request[r].guard
      BY <1>0 DEF RequestType
    <3>2. \/ pc' = [pc EXCEPT ![r] = "idle"] /\ request' = [request EXCEPT ![r] = NoRequest]
          \/ pc' = [pc EXCEPT ![r] = "fill"] /\ request' = [request EXCEPT ![r] = left]
      BY <2>6 DEF Skip, Drop, Go
    <3> HIDE DEF left
    <3> QED BY <1>0, <1>1, <2>6, <3>1, <3>2 DEF TypeOK
  <2>7. CASE RefuseFill(r)
    BY <2>6, <2>7 DEF RefuseFill
  <2>8. CASE DropFill(r)
    <3>1. CASE OnceMore(Offered(request[r].tries))
      <4> DEFINE again == [request[r] EXCEPT !.tries = Offered(@)]
      <4>1. again.guard = request[r].guard
        BY <1>0 DEF RequestType
      <4>2. /\ request' = [request EXCEPT ![r] = again] /\ pc[r] = "appending"
            /\ pc' = [pc EXCEPT ![r] = "fill"] /\ UNCHANGED generation
        BY <2>8, <3>1 DEF DropFill, Go
      <4> HIDE DEF again
      <4> QED BY <1>0, <1>1, <4>1, <4>2 DEF TypeOK
    <3>2. CASE ~OnceMore(Offered(request[r].tries))
      BY <2>6, <2>8, <3>2 DEF DropFill
    <3> QED BY <3>1, <3>2
  <2>9. ASSUME request' = [request EXCEPT ![r].guard = generation'], Go(r, "fill"),
               generation' = generation \/ (generation' = generation + 1 /\ lock = r)
        PROVE  NoFillerAhead'
    <3> DEFINE read == [request[r] EXCEPT !.guard = generation']
    <3>1. read.guard = generation'
      BY <1>0 DEF RequestType
    <3>2. request' = [request EXCEPT ![r] = read] /\ pc' = [pc EXCEPT ![r] = "fill"]
      BY <2>9 DEF Go
    <3> HIDE DEF read
    <3> QED BY <1>0, <1>1, <2>9, <3>1, <3>2 DEF TypeOK
  <2>10. CASE ReadGeneration(r) \/ RadioNotCleared(r)
    BY <2>9, <2>10 DEF ReadGeneration, RadioNotCleared
  <2>11. ASSUME NEW slot, CommitRadio(r, slot) PROVE NoFillerAhead'
    BY <2>9, <2>11 DEF CommitRadio, Release
  <2>12. CASE CommitRemove(r) \/ CommitReorder(r)
    <3>1. /\ \A s \in Route : request'[s].guard = request[s].guard
          /\ UNCHANGED generation /\ pc' = [pc EXCEPT ![r] = "idle"]
      BY <1>0, <2>12, ForfeitKeeps DEF CommitRemove, CommitReorder, CloseSheet, Go
    <3> QED BY <1>0, <1>1, <3>1 DEF TypeOK
  <2>13. CASE AbandonEdit(r)
    BY <1>0, <1>1, <2>13 DEF AbandonEdit, CloseSheet, Go, TypeOK
  <2> QED BY <1>5, <2>2, <2>3, <2>4, <2>5, <2>7, <2>8, <2>10, <2>11, <2>12, <2>13 DEF Leave
<1> QED BY <1>2, <1>3, <1>4, <1>5 DEF Next

\* A streamed request is owed as soon as it is asked; no other is.
LEMMA KeepsAsks ==
    ASSUME KeptInv, NEW r \in Route, Asks(r)
    PROVE  [Promised!Next]_(Promised!vars)
<1>0. AllApart /\ TypeOK
  BY DEF KeptInv, AllApart, Sound
<1>1. ASSUME NEW k \in Batches, NEW p \in {"next", "end"}, NEW items \in Bundles, Ask(r, k, p, items)
      PROVE  [Promised!Next]_(Promised!vars)
  <2> DEFINE asked == NewRequest(k, p, items, IF k = "stream" THEN generation ELSE 0)
             where == IF k = "stream" THEN "fill" ELSE "asked"
  <2>1. /\ request' = [request EXCEPT ![r] = asked] /\ pc' = [pc EXCEPT ![r] = where]
        /\ UNCHANGED <<queue, generation>> /\ pc[r] = "idle"
    BY <1>1 DEF Ask, Go, Idle
  <2>2. asked.run = items /\ (k = "stream" => asked.guard = generation)
    BY DEF NewRequest
  <2>3. Distinct(items) /\ Slots(items) \cap Slots(queue) = {}
    BY DEF Bundles, Fresh, Slots, Held
  <2> HIDE DEF asked
  <2>4. request'[r] = asked /\ pc'[r] = where /\ \A s \in Route \ {r} : request'[s] = request[s] /\ pc'[s] = pc[s]
    BY <1>0, <2>1 DEF TypeOK
  <2>5. Owed(r) = <<>> /\ \A s \in Route \ {r} : Owed(s)' = Owed(s)
    BY <2>1, <2>4, OthersOwe DEF Owed
  <2>6. CASE k = "stream"
    <3>1. Owed(r)' = items
      BY <2>1, <2>2, <2>4, <2>6 DEF Owed
    <3> QED BY <1>0, <2>1, <2>3, <2>5, <3>1, KeepsBring
  <2>7. CASE k # "stream"
    <3>1. Owed(r)' = <<>>
      BY <2>4, <2>7 DEF Owed
    <3> QED BY <2>1, <2>5, <3>1, KeepsStill
  <2> QED BY <2>6, <2>7
<1>2. CASE (\E i \in 1..Len(queue) : PlanRemove(r, i)) \/ (\E wanted \in Orders(queue) : PlanReorder(r, wanted))
  <2>1. \A s \in Route : Owed(s)' = Owed(s)
    BY <1>0, <1>2 DEF PlanRemove, PlanReorder, Idle, Go, Owed, TypeOK
  <2> QED BY <1>2, <2>1, KeepsStill DEF PlanRemove, PlanReorder
<1> QED BY <1>1, <1>2 DEF Asks

\* Meeting the lock changes nothing that was promised.
LEMMA KeepsEnter ==
    ASSUME KeptInv, NEW r \in Route, Enter(r)
    PROVE  UNCHANGED Promised!vars
<1>0. TypeOK
  BY DEF KeptInv, AllApart, Sound
<1>1. ASSUME NEW slot, NEW out, BeginAppend(r, slot, out)
      PROVE  UNCHANGED Promised!vars
  <2> DEFINE begun == [request[r] EXCEPT !.at = Anchor(r, slot, out)]
  <2>1. begun.run = request[r].run /\ begun.guard = request[r].guard
    BY <1>0 DEF TypeOK, RequestType
  <2>2. /\ request' = [request EXCEPT ![r] = begun] /\ UNCHANGED <<queue, generation>>
        /\ \/ pc[r] = "asked" /\ pc' = [pc EXCEPT ![r] = "adding"]
           \/ pc[r] = "fill" /\ pc' = [pc EXCEPT ![r] = "appending"]
    BY <1>1 DEF BeginAppend, Go
  <2> HIDE DEF begun
  <2>3. Owed(r)' = Owed(r)
    BY <1>0, <2>1, <2>2 DEF Owed, TypeOK
  <2>4. \A s \in Route \ {r} : request'[s] = request[s] /\ pc'[s] = pc[s]
    BY <1>0, <2>2 DEF TypeOK
  <2> QED BY <2>2, <2>3, <2>4, OthersOwe, KeepsStill
<1>2. CASE NoOutput(r) \/ StopFilling(r)
  <2>1. \A s \in Route : Owed(s)' = Owed(s)
    BY <1>0, <1>2 DEF NoOutput, StopFilling, Stale, Drop, Go, Owed, TypeOK
  <2> QED BY <1>2, <2>1, KeepsStill DEF NoOutput, StopFilling
<1>3. CASE BeginReplace(r) \/ BeginRadio(r) \/ BeginRemove(r) \/ MovedUnder(r) \/ BeginReorder(r) \/ PlanOvertaken(r)
  <2>1. UNCHANGED <<queue, generation, request>> /\ \A s \in Route : pc'[s] \in {"fill", "appending"} <=> pc[s] \in {"fill", "appending"}
    BY <1>0, <1>3 DEF BeginReplace, BeginRadio, BeginRemove, MovedUnder, BeginReorder, PlanOvertaken,
                      CloseSheet, Go, TypeOK
  <2>2. \A s \in Route : Owed(s)' = Owed(s)
    BY <2>1 DEF Owed
  <2> QED BY <2>1, <2>2, KeepsStill
<1> QED BY <1>1, <1>2, <1>3 DEF Enter

\* A commit is one step of the promise: a replacement, a station, an item
\* that rolls in or is given up, an edit.
LEMMA KeepsLeave ==
    ASSUME KeptInv, NEW r \in Route, Leave(r)
    PROVE  [Promised!Next]_(Promised!vars)
<1> DEFINE run == request[r].run
<1>0. AllApart /\ Sound /\ TypeOK /\ WorkLeft /\ LockDiscipline
  BY DEF KeptInv, AllApart, Sound
<1>a. /\ run \in Seq(Item) /\ Distinct(run) /\ Slots(run) \cap Slots(queue) = {}
      /\ queue \in Seq(Item) /\ Distinct(queue) /\ request[r] \in RequestType
  BY <1>0 DEF AllApart, RunsApart, SlotsAreDistinct, TypeOK, RequestType
<1>1. ASSUME NEW n \in 1..Len(run), CommitReplace(r, n)
      PROVE  Promised!Next
  <2> DEFINE where == IF request[r].kind = "play" THEN "fill" ELSE "numbering"
  <2>1. /\ pc[r] = "replacing" /\ lock = r /\ queue' = SubSeq(run, 1, n)
        /\ generation' = generation + 1 /\ Advance(r, n, where) /\ where \in {"fill", "numbering"}
    BY <1>1 DEF CommitReplace, Release
  <2>2. generation' \in 0..MaxGen
    BY <1>0, <2>1, ConstantsAssumption DEF Sound, RoomToNumber, TypeOK
  <2>3. /\ pc' = [pc EXCEPT ![r] = IF Rest(run, n) = <<>> THEN "idle" ELSE where]
        /\ \A s \in Route \ {r} : request'[s] = request[s]
        /\ Rest(run, n) # <<>> => request'[r].run = Rest(run, n)
    BY <1>0, <2>1, <2>2, AdvanceTyped, ConstantsAssumption
  <2>4. \A s \in Route \ {r} : request'[s] = request[s] /\ pc'[s] = pc[s]
    BY <1>0, <2>3 DEF TypeOK
  <2>5. Owed(r)' \in {<<>>, Rest(run, n)}
    BY <1>0, <2>3 DEF Owed, TypeOK
  <2>6. queue' # <<>>
    <3>1. \A i \in 1..n : run[i] \in Item
      BY <1>a
    <3>2. Len(SubSeq(run, 1, n)) = n
      BY <3>1, SubSeqProperties
    <3> QED BY <2>1, <3>2
  <2>7. Distinct(queue' \o Owed(r)') /\ Slots(queue' \o Owed(r)') \cap Slots(queue) = {}
    <3>1. CASE Owed(r)' = <<>>
      <4>1. queue' \in Seq(Item) /\ Distinct(queue') /\ Slots(queue') \subseteq Slots(run)
        BY <1>a, <2>1, RunCut
      <4>2. queue' \o <<>> = queue'
        BY <4>1, ConcatEmptySeq
      <4> QED BY <1>a, <3>1, <4>1, <4>2
    <3>2. CASE Owed(r)' = Rest(run, n)
      <4>1. queue' \o Owed(r)' = run
        <5>1. n \in 0..Len(run)
          BY <1>a
        <5>2. SubSeq(run, 1, n) \o SubSeq(run, n + 1, Len(run)) = run
          BY <1>a, <5>1, CutInTwo
        <5> QED BY <2>1, <3>2, <5>2 DEF Rest
      <4> QED BY <1>a, <4>1
    <3> QED BY <2>5, <3>1, <3>2
  <2>8. Owing'[r] = Owed(r)'
    BY DEF Owing
  <2>9. Promised!OnlyOwes(r)
    BY <2>1, <2>4, CalledOff
  <2>10. Promised!Replace(r)
    BY <2>6, <2>7, <2>8, <2>9, PromisedQueues DEF Promised!Replace, Promised!New
  <2> QED BY <2>10 DEF Promised!Next
<1>2. ASSUME UNCHANGED <<queue, generation>>, pc[r] \notin {"fill", "appending"}, pc'[r] \notin {"fill", "appending"},
             \A s \in Route \ {r} : request'[s] = request[s] /\ pc'[s] = pc[s]
      PROVE  UNCHANGED Promised!vars
  <2>1. Owed(r)' = Owed(r)
    BY <1>2 DEF Owed
  <2> QED BY <1>2, <2>1, OthersOwe, KeepsStill
<1>3. CASE AbandonReplace(r) \/ RefuseAdd(r) \/ AbandonRadio(r)
  BY <1>0, <1>2, <1>3 DEF AbandonReplace, RefuseAdd, AbandonRadio, Drop, Go, TypeOK
<1>4. CASE AbandonEdit(r)
  BY <1>0, <1>2, <1>4 DEF AbandonEdit, CloseSheet, Go, TypeOK
<1>5. CASE ReadGeneration(r) \/ RadioNotCleared(r)
  <2> DEFINE read == [request[r] EXCEPT !.guard = generation]
  <2>1. read.run = run /\ read.guard = generation
    BY <1>a DEF RequestType
  <2>2. /\ request' = [request EXCEPT ![r] = read] /\ pc' = [pc EXCEPT ![r] = "fill"]
        /\ UNCHANGED <<queue, generation>> /\ pc[r] \in {"numbering", "clearing"}
    BY <1>5 DEF ReadGeneration, RadioNotCleared, Go
  <2> HIDE DEF read
  <2>3. Owed(r) = <<>> /\ Owed(r)' = run
    BY <1>0, <2>1, <2>2 DEF Owed, TypeOK
  <2>4. \A s \in Route \ {r} : request'[s] = request[s] /\ pc'[s] = pc[s]
    BY <1>0, <2>2 DEF TypeOK
  <2> QED BY <1>0, <1>a, <2>2, <2>3, <2>4, OthersOwe, KeepsBring
<1>6. ASSUME NEW n \in 1..Len(run), NEW behind \in request[r].at..Len(queue), CommitAdd(r, n, behind)
      PROVE  Promised!Next
  <2> DEFINE first == SubSeq(run, 1, n)
  <2>1. pc[r] = "adding" /\ Insert(r, n, behind) /\ Advance(r, n, "numbering") /\ UNCHANGED generation
    BY <1>6 DEF CommitAdd
  <2>2. PICK place \in 0..Len(queue) : queue' = InsertAfter(queue, place, first)
    BY <1>0, <2>1, InsertApart
  <2>3. first \in Seq(Item) /\ Distinct(first) /\ Slots(first) \cap Slots(queue) = {} /\ Len(first) = n
    <3>1. \A i \in 1..n : run[i] \in Item
      BY <1>a
    <3> QED BY <1>a, <3>1, RunCut, SubSeqProperties
  <2> HIDE DEF first
  <2>4. /\ Len(queue') = Len(queue) + Len(first)
        /\ SubSeq(queue', place + 1, place + Len(first)) = first
    <3>1. queue \in Seq(Item) /\ first \in Seq(Item)
      BY <1>a, <2>3
    <3>2. Len(InsertAfter(queue, place, first)) = Len(queue) + Len(first)
      BY <3>1, InsertedPlaces
    <3>3. SubSeq(InsertAfter(queue, place, first), place + 1, place + Len(first)) = first
      BY <3>1, InsertedPart
    <3> QED BY <2>2, <3>2, <3>3
  <2>5. \A s \in Route : Owed(s)' = Owed(s)
    <3>1. /\ pc' = [pc EXCEPT ![r] = IF Rest(run, n) = <<>> THEN "idle" ELSE "numbering"]
          /\ \A s \in Route \ {r} : request'[s] = request[s]
      BY <1>0, <2>1, AdvanceTyped, ConstantsAssumption DEF TypeOK
    <3>2. \A s \in Route \ {r} : request'[s] = request[s] /\ pc'[s] = pc[s]
      BY <1>0, <3>1 DEF TypeOK
    <3>3. Owed(r)' = Owed(r)
      BY <1>0, <2>1, <3>1 DEF Owed, TypeOK
    <3> QED BY <2>1, <3>2, <3>3, OthersOwe
  <2>6. Owing' = Owing
    BY <2>5 DEF Owing
  <2>7. place + Len(queue') - Len(queue) = place + Len(first) /\ Len(queue') > Len(queue)
    BY <1>a, <2>3, <2>4
  <2>8. Promised!Add
    BY <2>2, <2>3, <2>4, <2>6, <2>7, PromisedQueues DEF Promised!Add, Promised!New
  <2> QED BY <2>8 DEF Promised!Next
<1>7. ASSUME pc[r] = "appending"
      PROVE  Owed(r) = run /\ run # <<>> /\ 1 \in 1..Len(run) /\ Rest(run, 1) = Tail(run)
             /\ SubSeq(run, 1, 1) = <<Head(run)>>
  <2>1. request[r].guard = generation /\ run # <<>>
    BY <1>0, <1>7 DEF KeptInv, NoFillerAhead, WorkLeft, Bringing
  <2>2. 1 \in 1..Len(run)
    BY <1>a, <2>1
  <2>3. Rest(run, 1) = Tail(run)
    BY <1>a, <2>1, TailIsSubSeq DEF Rest
  <2>4. SubSeq(run, 1, 1) = <<Head(run)>>
    <3>1. SubSeq(run, 1, 1) = <<run[1]>> \o SubSeq(run, 2, 1)
      BY <1>a, <2>2, SubSeqRecursiveFirst
    <3>2. SubSeq(run, 2, 1) = <<>>
      BY SubSeqEmpty
    <3>3. <<run[1]>> \in Seq(Item) /\ Head(run) = run[1]
      BY <1>a, <2>1, <2>2
    <3> QED BY <3>1, <3>2, <3>3, ConcatEmptySeq
  <2> QED BY <1>7, <2>1, <2>2, <2>3, <2>4 DEF Owed
<1>8. ASSUME NEW behind \in request[r].at..Len(queue), CommitFill(r, behind)
      PROVE  Promised!Next
  <2>1. pc[r] = "appending" /\ Insert(r, 1, behind) /\ Advance(r, 1, "fill") /\ UNCHANGED generation
    BY <1>8 DEF CommitFill
  <2>2. \E place \in 0..Len(queue) : queue' = InsertAfter(queue, place, <<Head(run)>>)
    BY <1>0, <1>7, <2>1, InsertApart
  <2>3. /\ pc' = [pc EXCEPT ![r] = IF Rest(run, 1) = <<>> THEN "idle" ELSE "fill"]
        /\ \A s \in Route \ {r} : request'[s] = request[s]
        /\ Rest(run, 1) # <<>> => request'[r].run = Rest(run, 1) /\ request'[r].guard = generation'
    BY <1>0, <1>7, <2>1, AdvanceTyped, ConstantsAssumption DEF TypeOK
  <2>4. \A s \in Route \ {r} : request'[s] = request[s] /\ pc'[s] = pc[s]
    BY <1>0, <2>3 DEF TypeOK
  <2>5. Owed(r)' = Rest(run, 1)
    BY <1>0, <2>3 DEF Owed, TypeOK
  <2> HIDE DEF run
  <2> QED BY <1>0, <1>7, <2>1, <2>2, <2>4, <2>5, OthersOwe, KeepsRollIn
<1>9. ASSUME pc[r] = "appending", Skip(r), UNCHANGED <<queue, generation>>
      PROVE  Promised!Next
  <2> DEFINE left == [request[r] EXCEPT !.run = Rest(run, 1), !.tries = 0]
  <2>1. left.run = Rest(run, 1) /\ left.guard = request[r].guard /\ request[r].guard = generation
    BY <1>9, <1>a DEF RequestType, KeptInv, NoFillerAhead
  <2>2. \/ /\ Rest(run, 1) = <<>> /\ pc' = [pc EXCEPT ![r] = "idle"]
           /\ request' = [request EXCEPT ![r] = NoRequest]
        \/ pc' = [pc EXCEPT ![r] = "fill"] /\ request' = [request EXCEPT ![r] = left]
    BY <1>9 DEF Skip, Drop, Go
  <2> HIDE DEF left
  <2>3. Owed(r)' = Rest(run, 1)
    BY <1>0, <1>9, <2>1, <2>2 DEF Owed, TypeOK
  <2>4. \A s \in Route \ {r} : request'[s] = request[s] /\ pc'[s] = pc[s]
    BY <1>0, <2>2 DEF TypeOK
  <2> HIDE DEF run
  <2> QED BY <1>0, <1>7, <1>9, <2>3, <2>4, OthersOwe, KeepsRollIn
<1>10. CASE RefuseFill(r)
  BY <1>9, <1>10 DEF RefuseFill
<1>11. CASE DropFill(r)
  <2>1. CASE OnceMore(Offered(request[r].tries))
    <3> DEFINE again == [request[r] EXCEPT !.tries = Offered(@)]
    <3>1. again.run = run /\ again.guard = request[r].guard
      BY <1>a DEF RequestType
    <3>2. /\ request' = [request EXCEPT ![r] = again] /\ pc[r] = "appending"
          /\ pc' = [pc EXCEPT ![r] = "fill"] /\ UNCHANGED <<queue, generation>>
      BY <1>11, <2>1 DEF DropFill, Go
    <3> HIDE DEF again
    <3>3. Owed(r)' = Owed(r)
      BY <1>0, <3>1, <3>2 DEF Owed, TypeOK
    <3>4. \A s \in Route \ {r} : request'[s] = request[s] /\ pc'[s] = pc[s]
      BY <1>0, <3>2 DEF TypeOK
    <3> QED BY <3>2, <3>3, <3>4, OthersOwe, KeepsStill
  <2>2. CASE ~OnceMore(Offered(request[r].tries))
    BY <1>9, <1>11, <2>2 DEF DropFill
  <2> QED BY <2>1, <2>2
<1>12. ASSUME NEW slot \in 0..Len(queue), CommitRadio(r, slot)
       PROVE  Promised!Next
  <2> DEFINE read == [request[r] EXCEPT !.guard = generation + 1]
  <2>1. read.run = run /\ read.guard = generation + 1
    BY <1>a DEF RequestType
  <2>2. /\ pc[r] = "clearing" /\ lock = r /\ queue' = KeepOnly(queue, slot) /\ generation' = generation + 1
        /\ request' = [request EXCEPT ![r] = read] /\ pc' = [pc EXCEPT ![r] = "fill"]
    BY <1>12 DEF CommitRadio, Release, Go
  <2> HIDE DEF read
  <2>3. Owed(r)' = run /\ run # <<>>
    BY <1>0, <2>1, <2>2 DEF Owed, TypeOK, WorkLeft, Bringing
  <2>4. \A s \in Route \ {r} : request'[s] = request[s] /\ pc'[s] = pc[s]
    BY <1>0, <2>2 DEF TypeOK
  <2>5. Promised!OnlyOwes(r) /\ Owing'[r] = Owed(r)'
    BY <2>2, <2>4, CalledOff DEF Owing
  <2>6. Promised!Station(r)
    BY <1>a, <2>2, <2>3, <2>5, PromisedQueues DEF Promised!Station, Promised!New
  <2> QED BY <2>6 DEF Promised!Next
<1>13. ASSUME pc[r] \in {"removing", "reordering"}, NEW gone, Forfeit(gone), CloseSheet(r), UNCHANGED generation
       PROVE  Owing' = Owing
  <2>1. /\ \A s \in Route : request'[s].run = request[s].run /\ request'[s].guard = request[s].guard
        /\ pc' = [pc EXCEPT ![r] = "idle"]
    BY <1>0, <1>13, ForfeitKeeps DEF CloseSheet, Go
  <2>2. \A s \in Route : Owed(s)' = Owed(s)
    BY <1>0, <1>13, <2>1 DEF Owed, TypeOK
  <2> QED BY <2>2 DEF Owing
<1>14. CASE CommitRemove(r)
  <2>1. queue' = WithoutSlot(queue, plan[r].at) /\ plan[r].at \in 1..Len(queue) /\ Owing' = Owing
    BY <1>0, <1>13, <1>14 DEF CommitRemove, Sound, PlaceKept
  <2> QED BY <2>1, PromisedQueues DEF Promised!Next, Promised!Edit
<1>15. CASE CommitReorder(r)
  <2>1. queue' = plan[r].order /\ Distinct(plan[r].order) /\ Slots(plan[r].order) = Slots(queue) /\ Owing' = Owing
    BY <1>0, <1>13, <1>15 DEF CommitReorder, AllApart, OrdersDistinct, Sound, SheetKept
  <2> QED BY <2>1, PromisedQueues DEF Promised!Next, Promised!Edit
<1> QED BY <1>1, <1>3, <1>4, <1>5, <1>6, <1>8, <1>10, <1>11, <1>12, <1>14, <1>15 DEF Leave

\* Locks, outputs, generations and fillers keep what the queue promises: every
\* step is a step of QueuePromise, or one it does not see.
THEOREM ImplementsThePromise == Spec => KeepsThePromise
<1>1. Init => Promised!Init
  <2>1. Init => queue = <<>> /\ Owing = [r \in Route |-> <<>>]
    BY DEF Init, Owing, Owed
  <2> QED BY <2>1 DEF Promised!Init, Promised!Nothing
<1>2. Init => KeptInv
  BY ApartInit DEF Init, KeptInv, NoFillerAhead
<1>3. KeptInv /\ [Next]_vars => KeptInv'
  BY ApartStep, NoFillerAheadStep DEF KeptInv
<1>4. KeptInv /\ [Next]_vars => [Promised!Next]_(Promised!vars)
  <2> SUFFICES ASSUME KeptInv, [Next]_vars PROVE [Promised!Next]_(Promised!vars)
    OBVIOUS
  <2>1. CASE SwitchOutput \/ UNCHANGED vars
    <3>1. UNCHANGED queue /\ \A s \in Route : Owed(s)' = Owed(s)
      BY <2>1 DEF SwitchOutput, vars, Owed
    <3> QED BY <3>1, KeepsStill
  <2> QED BY <2>1, KeepsAsks, KeepsEnter, KeepsLeave DEF Next
<1> QED BY <1>1, <1>2, <1>3, <1>4, PTL DEF Spec, KeepsThePromise, Promised!Spec

-----------------------------------------------------------------------------
(* A run goes forward.                                                     *)

\* No station takes over a queue whose generation a request is about to read
\* for items it has placed already.
NoStationUnderAnAdd == "radio" \notin Kinds \/ "add" \notin Kinds

\* What was placed is not brought again, and the last of it is the cursor.
PlacedApart ==
    /\ \A r, s \in Route : request[r].placed \cap Slots(request[s].run) = {}
    /\ \A r \in Route : request[r].placed # {} => request[r].cursor \in request[r].placed

\* Only what is added or streamed goes next, and a request that has not
\* committed has placed nothing.
KindHolds(r) ==
    /\ request[r].position = "next" => request[r].kind \in {"add", "stream"} \cap Kinds
    /\ pc[r] = "clearing" => "radio" \in Kinds
    /\ pc[r] = "numbering" /\ request[r].position = "next" => "add" \in Kinds
    /\ pc[r] \in {"asked", "replacing", "clearing", "adding"} =>
         request[r].kind \in Kinds /\ request[r].placed = {}
    /\ pc[r] \in {"replacing", "clearing"} => request[r].position = "end"
    /\ pc[r] = "adding" => request[r].kind = "add"

\* A run that goes on in the queue there is.
OfThisQueue(r) == \/ pc[r] = "numbering"
                  \/ pc[r] \in {"fill", "appending"} /\ request[r].guard = generation

\* Of what such a run placed behind the playing slot, nothing stands behind
\* its cursor.
LastIsCursor(r) ==
    OfThisQueue(r) /\ request[r].position = "next" =>
        \A y \in request[r].placed \cap Slots(queue) :
           /\ request[r].cursor \in Slots(queue)
           /\ IndexOf(queue, y) <= IndexOf(queue, request[r].cursor)

\* The place an append goes behind is no earlier than the cursor's.
AnchorHolds(r) ==
    pc[r] = "appending" =>
       IF request[r].position = "end" THEN request[r].at = NoAnchor
       ELSE request[r].cursor \in Slots(queue) => request[r].at >= IndexOf(queue, request[r].cursor)

\* The inductive invariant of the order.
InOrder == KeptInv /\ PlacedApart /\ \A r \in Route : KindHolds(r) /\ LastIsCursor(r) /\ AnchorHolds(r)

\* A route whose step leaves the queue goes on where it was, or begins anew.
LEMMA QuietOrder ==
    ASSUME InOrder, KeptInv', NEW r \in Route, UNCHANGED <<queue, generation>>,
           \A s \in Route \ {r} : request'[s] = request[s] /\ pc'[s] = pc[s],
           Slots(request'[r].run) \subseteq Slots(request[r].run),
           \/ request'[r].placed = {} /\ request'[r].position = "end"
           \/ /\ request'[r].placed = request[r].placed /\ request'[r].cursor = request[r].cursor
              /\ request'[r].position = request[r].position
              /\ OfThisQueue(r)' => OfThisQueue(r) \/ request[r].placed = {},
           KindHolds(r)', AnchorHolds(r)'
    PROVE  InOrder'
<1>1. PlacedApart'
  BY DEF InOrder, PlacedApart
<1>2. ASSUME NEW s \in Route PROVE KindHolds(s)' /\ LastIsCursor(s)' /\ AnchorHolds(s)'
  <2>1. CASE s = r
    BY <2>1 DEF InOrder, LastIsCursor
  <2>2. CASE s # r
    BY <2>2 DEF InOrder, KindHolds, LastIsCursor, AnchorHolds, OfThisQueue
  <2> QED BY <2>1, <2>2
<1> QED BY <1>1, <1>2 DEF InOrder

\* Nothing is placed at first.
LEMMA InOrderInit == Init => InOrder
<1> SUFFICES ASSUME Init PROVE InOrder
  OBVIOUS
<1>1. KeptInv
  BY ApartInit DEF Init, KeptInv, NoFillerAhead
<1>2. \A r \in Route : /\ request[r].placed = {} /\ request[r].position = "end" /\ request[r].run = <<>>
                       /\ pc[r] = "idle"
  BY DEF Init, NoRequest, NewRequest
<1> QED BY <1>1, <1>2 DEF InOrder, PlacedApart, KindHolds, LastIsCursor, AnchorHolds, OfThisQueue

\* What people ask for has placed nothing yet, and is nothing that was placed.
LEMMA InOrderAsks ==
    ASSUME InOrder, KeptInv', NEW r \in Route, Asks(r)
    PROVE  InOrder'
<1>0. TypeOK
  BY DEF InOrder, KeptInv, AllApart, Sound
<1>1. ASSUME NEW k \in Batches, NEW p \in {"next", "end"}, NEW items \in Bundles, Ask(r, k, p, items)
      PROVE  InOrder'
  <2> DEFINE asked == NewRequest(k, p, items, IF k = "stream" THEN generation ELSE 0)
             where == IF k = "stream" THEN "fill" ELSE "asked"
  <2>1. /\ request' = [request EXCEPT ![r] = asked] /\ pc' = [pc EXCEPT ![r] = where]
        /\ UNCHANGED <<queue, generation>> /\ k \in Kinds /\ (k \notin {"add", "stream"} => p = "end")
    BY <1>1 DEF Ask, Go
  <2>2. asked.run = items /\ asked.placed = {} /\ asked.position = p /\ asked.kind = k
    BY DEF NewRequest
  <2>3. \A s \in Route : Slots(items) \cap request[s].placed = {}
    BY DEF Bundles, Fresh, Slots, Held
  <2> HIDE DEF asked
  <2>4. request'[r] = asked /\ pc'[r] = where /\ \A s \in Route \ {r} : request'[s] = request[s] /\ pc'[s] = pc[s]
    BY <1>0, <2>1 DEF TypeOK
  <2>5. PlacedApart'
    <3>1. ASSUME NEW s \in Route, NEW t \in Route
          PROVE  request'[s].placed \cap Slots(request'[t].run) = {}
      <4>1. CASE s = r
        BY <2>2, <2>4, <4>1
      <4>2. CASE s # r /\ t = r
        BY <2>2, <2>3, <2>4, <4>2
      <4>3. CASE s # r /\ t # r
        BY <2>4, <4>3 DEF InOrder, PlacedApart
      <4> QED BY <4>1, <4>2, <4>3
    <3>2. ASSUME NEW s \in Route PROVE request'[s].placed # {} => request'[s].cursor \in request'[s].placed
      BY <2>2, <2>4 DEF InOrder, PlacedApart
    <3> QED BY <3>1, <3>2 DEF PlacedApart
  <2>6. ASSUME NEW s \in Route PROVE KindHolds(s)' /\ LastIsCursor(s)' /\ AnchorHolds(s)'
    <3>1. CASE s = r
      BY <2>1, <2>2, <2>4, <3>1 DEF KindHolds, LastIsCursor, AnchorHolds
    <3>2. CASE s # r
      BY <2>1, <2>4, <3>2 DEF InOrder, KindHolds, LastIsCursor, AnchorHolds, OfThisQueue
    <3> QED BY <3>1, <3>2
  <2> QED BY <2>5, <2>6 DEF InOrder
<1>2. CASE (\E i \in 1..Len(queue) : PlanRemove(r, i)) \/ (\E wanted \in Orders(queue) : PlanReorder(r, wanted))
  <2>1. /\ UNCHANGED <<queue, generation, request>> /\ pc'[r] \in {"removal", "reorder"}
        /\ \A s \in Route \ {r} : pc'[s] = pc[s]
    BY <1>0, <1>2 DEF PlanRemove, PlanReorder, Go, TypeOK
  <2>2. KindHolds(r)' /\ AnchorHolds(r)' /\ ~OfThisQueue(r)'
    BY <2>1 DEF InOrder, KindHolds, AnchorHolds, OfThisQueue
  <2> QED BY <2>1, <2>2, QuietOrder
<1> QED BY <1>1, <1>2 DEF Asks

\* An append takes its place behind the run it extends.
LEMMA InOrderEnter ==
    ASSUME InOrder, KeptInv', NEW r \in Route, Enter(r)
    PROVE  InOrder'
<1>0. TypeOK
  BY DEF InOrder, KeptInv, AllApart, Sound
<1>1. ASSUME NEW slot \in -1..Len(queue), NEW out \in -1..Len(queue), BeginAppend(r, slot, out)
      PROVE  InOrder'
  <2> DEFINE at == Anchor(r, slot, out)
             begun == [request[r] EXCEPT !.at = at]
  <2>1. /\ begun.run = request[r].run /\ begun.guard = request[r].guard /\ begun.placed = request[r].placed
        /\ begun.cursor = request[r].cursor /\ begun.position = request[r].position
        /\ begun.kind = request[r].kind /\ begun.at = at
    BY <1>0 DEF TypeOK, RequestType
  <2>2. /\ request' = [request EXCEPT ![r] = begun] /\ UNCHANGED <<queue, generation>>
        /\ \/ pc[r] = "asked" /\ request[r].kind = "add" /\ pc' = [pc EXCEPT ![r] = "adding"]
           \/ pc[r] = "fill" /\ request[r].guard = generation /\ pc' = [pc EXCEPT ![r] = "appending"]
    BY <1>1 DEF BeginAppend, Stale, Go
  <2>3. IF request[r].position = "end" THEN at = NoAnchor
        ELSE request[r].cursor \in Slots(queue) => at >= IndexOf(queue, request[r].cursor)
    <3>1. /\ IndexOf(queue, request[r].cursor) \in 0..Len(queue) /\ Len(queue) \in Nat
          /\ request[r].cursor \in Slots(queue) => IndexOf(queue, request[r].cursor) # 0
      <4>1. queue \in Seq(Item) /\ Distinct(queue)
        BY <1>0 DEF TypeOK, InOrder, KeptInv, AllApart, SlotsAreDistinct
      <4> QED BY <4>1, PlaceOfItem, IndexIs
    <3>2. request[r].position \in {"next", "end"}
      BY <1>0 DEF TypeOK, RequestType
    <3>3. CASE request[r].position = "end"
      BY <3>3 DEF Anchor
    <3>4. CASE request[r].position = "next"
      <4> DEFINE behind == IndexOf(queue, request[r].cursor)
                 playing == IF slot \in 1..Len(queue) THEN slot
                            ELSE IF out \in 0..Len(queue) THEN out ELSE NoAnchor
      <4>1. playing \in Int
        BY DEF NoAnchor
      <4>2. at = IF behind = 0 \/ playing >= behind THEN playing ELSE behind
        BY <3>4 DEF Anchor
      <4> HIDE DEF behind, playing, at
      <4>3. behind # 0 /\ behind \in Int => at >= behind
        BY <4>1, <4>2
      <4> QED BY <3>1, <3>4, <4>3 DEF behind
    <3> QED BY <3>2, <3>3, <3>4
  <2> HIDE DEF at, begun
  <2>4. request'[r] = begun /\ \A s \in Route \ {r} : request'[s] = request[s] /\ pc'[s] = pc[s]
    BY <1>0, <2>2 DEF TypeOK
  <2>5. pc'[r] = "adding" \/ (pc'[r] = "appending" /\ OfThisQueue(r))
    BY <1>0, <2>2 DEF TypeOK, OfThisQueue
  <2>6. AnchorHolds(r)'
    BY <2>1, <2>2, <2>3, <2>4 DEF AnchorHolds
  <2>7. KindHolds(r)'
    BY <1>0, <2>1, <2>2, <2>4 DEF InOrder, KindHolds, TypeOK
  <2>8. OfThisQueue(r)' => OfThisQueue(r) \/ request[r].placed = {}
    BY <2>5 DEF OfThisQueue
  <2> QED BY <2>1, <2>2, <2>4, <2>6, <2>7, <2>8, QuietOrder
<1>2. CASE NoOutput(r) \/ StopFilling(r)
  <2>1. /\ UNCHANGED <<queue, generation>> /\ pc'[r] = "idle" /\ request'[r] = NoRequest
        /\ \A s \in Route \ {r} : request'[s] = request[s] /\ pc'[s] = pc[s]
    BY <1>0, <1>2 DEF NoOutput, StopFilling, Drop, Go, TypeOK
  <2>2. NoRequest.run = <<>> /\ NoRequest.placed = {} /\ NoRequest.position = "end"
    BY DEF NoRequest, NewRequest
  <2>3. KindHolds(r)' /\ AnchorHolds(r)'
    BY <2>1, <2>2 DEF KindHolds, AnchorHolds
  <2>4. Slots(request'[r].run) = {}
    BY <2>1, <2>2 DEF Slots
  <2> QED BY <2>1, <2>2, <2>3, <2>4, QuietOrder
<1>3. CASE BeginReplace(r) \/ BeginRadio(r) \/ BeginRemove(r) \/ MovedUnder(r) \/ BeginReorder(r) \/ PlanOvertaken(r)
  <2>1. /\ UNCHANGED <<queue, generation, request>> /\ \A s \in Route \ {r} : pc'[s] = pc[s]
        /\ \/ pc[r] = "asked" /\ request[r].kind \in {"play", "playlist"} /\ pc'[r] = "replacing"
           \/ pc[r] = "asked" /\ request[r].kind = "radio" /\ pc'[r] = "clearing"
           \/ pc'[r] \in {"removing", "idle", "reordering"}
    BY <1>0, <1>3 DEF BeginReplace, BeginRadio, BeginRemove, MovedUnder, BeginReorder, PlanOvertaken,
                      CloseSheet, Go, TypeOK
  <2>2. request[r].position \in {"next", "end"}
    BY <1>0 DEF TypeOK, RequestType
  <2>3. KindHolds(r)' /\ AnchorHolds(r)' /\ ~OfThisQueue(r)'
    BY <2>1, <2>2 DEF InOrder, KindHolds, AnchorHolds, OfThisQueue
  <2> QED BY <2>1, <2>3, QuietOrder
<1> QED BY <1>1, <1>2, <1>3 DEF Enter

\* What a filler hands in lands behind everything its run placed before.
LEMMA FillLandsBehind ==
    ASSUME InOrder, NEW r \in Route, NEW behind \in request[r].at..Len(queue), CommitFill(r, behind)
    PROVE  LET x == request[r].run[1] IN
           /\ Slots(queue') = Slots(queue) \cup {x} /\ x \notin Slots(queue) /\ x \in Slots(request[r].run)
           /\ \A y \in request[r].placed \cap Slots(queue') : IndexOf(queue', y) < IndexOf(queue', x)
           /\ \A y, z \in Slots(queue) : IndexOf(queue, y) <= IndexOf(queue, z)
                => IndexOf(queue', y) <= IndexOf(queue', z)
<1> DEFINE run == request[r].run
           new == SubSeq(run, 1, 1)
<1>0. AllApart /\ Sound /\ TypeOK /\ WorkLeft
  BY DEF InOrder, KeptInv, AllApart, Sound
<1>1. pc[r] = "appending" /\ Insert(r, 1, behind)
  BY DEF CommitFill
<1>2. /\ run \in Seq(Item) /\ run # <<>> /\ Distinct(run) /\ Slots(run) \cap Slots(queue) = {}
      /\ queue \in Seq(Item) /\ Distinct(queue) /\ request[r].at \in Nat \cup {NoAnchor}
      /\ request[r].position \in {"next", "end"}
  BY <1>0, <1>1 DEF AllApart, RunsApart, SlotsAreDistinct, TypeOK, RequestType, WorkLeft, Bringing
<1>3. 1 \in 1..Len(run) /\ run[1] \in Slots(run)
  <2>1. 1 \in 1..Len(run)
    BY <1>2
  <2> QED BY <2>1 DEF Slots
<1>4. new \in Seq(Item) /\ Distinct(new) /\ Slots(new) = {run[1]} /\ Len(new) = 1 /\ new[1] = run[1]
  <2>1. \A i \in 1..1 : run[i] \in Item
    BY <1>2, <1>3
  <2>2. new \in Seq(Item) /\ Len(new) = 1 /\ new[1] = run[1]
    BY <2>1, SubSeqProperties
  <2> HIDE DEF new
  <2>3. Slots(new) = {run[1]} /\ Distinct(new)
    BY <2>2 DEF Slots, Distinct
  <2> QED BY <2>2, <2>3
<1>5. PICK place \in 0..Len(queue) :
        /\ queue' = InsertAfter(queue, place, new)
        /\ place = IF request[r].at = NoAnchor THEN Len(queue) ELSE behind
  BY <1>0, <1>1, <1>3, InsertApart
<1>6. Slots(queue) \cap Slots(new) = {}
  BY <1>2, <1>3, <1>4
<1> HIDE DEF new
<1>7. Slots(InsertAfter(queue, place, new)) = Slots(queue) \cup Slots(new)
  <2>1. queue \in Seq(Item) /\ new \in Seq(Item)
    BY <1>2, <1>4
  <2> QED BY <2>1, InsertedExactly
<1>8. /\ \A y, z \in Slots(queue) : IndexOf(queue, y) <= IndexOf(queue, z) =>
           IndexOf(InsertAfter(queue, place, new), y) <= IndexOf(InsertAfter(queue, place, new), z)
      /\ \A y \in Slots(queue), x \in Slots(new) : IndexOf(queue, y) <= place =>
           IndexOf(InsertAfter(queue, place, new), y) < IndexOf(InsertAfter(queue, place, new), x)
  BY <1>2, <1>4, <1>6, InsertKeepsOrder
<1>9. ASSUME NEW y \in request[r].placed \cap Slots(queue')
      PROVE  IndexOf(queue', y) < IndexOf(queue', run[1])
  <2>1. y \in Slots(queue)
    BY <1>3, <1>4, <1>5, <1>7 DEF InOrder, PlacedApart
  <2>2. IndexOf(queue, y) \in 1..Len(queue)
    BY <1>2, <2>1, IndexIs
  <2>3. IndexOf(queue, y) <= place
    <3>1. CASE request[r].at = NoAnchor
      BY <1>2, <1>5, <2>2, <3>1
    <3>2. CASE request[r].at # NoAnchor
      <4>1. request[r].position = "next" /\ OfThisQueue(r)
        BY <1>1, <1>2, <3>2 DEF InOrder, AnchorHolds, OfThisQueue, KeptInv, NoFillerAhead
      <4>2. /\ request[r].cursor \in Slots(queue)
            /\ IndexOf(queue, y) <= IndexOf(queue, request[r].cursor)
        BY <2>1, <4>1 DEF InOrder, LastIsCursor
      <4>3. request[r].at >= IndexOf(queue, request[r].cursor)
        BY <1>1, <4>1, <4>2 DEF InOrder, AnchorHolds
      <4>4. IndexOf(queue, request[r].cursor) \in 1..Len(queue)
        BY <1>2, <4>2, IndexIs
      <4>5. behind >= request[r].at /\ place = behind /\ request[r].at \in Nat
        BY <1>2, <1>5, <3>2
      <4> QED BY <1>5, <2>2, <4>2, <4>3, <4>4, <4>5
    <3> QED BY <3>1, <3>2
  <2> QED BY <1>4, <1>5, <1>8, <2>1, <2>3
<1> QED BY <1>3, <1>4, <1>5, <1>6, <1>7, <1>8, <1>9

\* A commit adds the head of its run to what was placed.
LEMMA AdvancePlaces ==
    ASSUME InOrder, NEW r \in Route, NEW n \in 1..Len(request[r].run), NEW where,
           Advance(r, n, where)
    PROVE  /\ PlacedApart'
           /\ \A s \in Route \ {r} : request'[s] = request[s] /\ pc'[s] = pc[s]
           /\ \/ request'[r] = NoRequest /\ pc'[r] = "idle"
              \/ /\ pc'[r] = where /\ request'[r].cursor = request[r].run[n]
                 /\ request'[r].placed = request[r].placed \cup Slots(SubSeq(request[r].run, 1, n))
                 /\ request'[r].position = request[r].position /\ request'[r].kind = request[r].kind
<1> DEFINE run == request[r].run
           head == Slots(SubSeq(run, 1, n))
           guarded == IF where = "fill" THEN generation' ELSE request[r].guard
           done == [request[r] EXCEPT !.run = Rest(run, n), !.cursor = run[n], !.tries = 0,
                                      !.guard = guarded, !.placed = @ \cup head]
<1>0. AllApart /\ TypeOK /\ request[r] \in RequestType /\ run \in Seq(Item) /\ Distinct(run)
  BY DEF InOrder, KeptInv, AllApart, Sound, TypeOK, RequestType, RunsApart
<1>1. NoRequest.run = <<>> /\ NoRequest.placed = {}
  BY DEF NoRequest, NewRequest
<1>2. /\ done.run = Rest(run, n) /\ done.cursor = run[n] /\ done.placed = request[r].placed \cup head
      /\ done.position = request[r].position /\ done.kind = request[r].kind
  BY <1>0 DEF RequestType
<1>3. \/ request' = [request EXCEPT ![r] = NoRequest] /\ pc' = [pc EXCEPT ![r] = "idle"]
      \/ request' = [request EXCEPT ![r] = done] /\ pc' = [pc EXCEPT ![r] = where]
  BY DEF Advance, Go
<1>4. head \cap Slots(Rest(run, n)) = {} /\ head \subseteq Slots(run) /\ Slots(Rest(run, n)) \subseteq Slots(run)
  BY <1>0, RunCut
<1>5. run[n] \in head
  <2>1. \A i \in 1..n : run[i] \in Item
    BY <1>0
  <2>2. Len(SubSeq(run, 1, n)) = n /\ SubSeq(run, 1, n)[n] = run[n] /\ n \in 1..n
    BY <2>1, SubSeqProperties
  <2> QED BY <2>2 DEF Slots
<1> HIDE DEF done
<1>6. \A s \in Route \ {r} : request'[s] = request[s] /\ pc'[s] = pc[s]
  BY <1>0, <1>3 DEF TypeOK
<1>7. \/ request'[r] = NoRequest /\ pc'[r] = "idle"
      \/ request'[r] = done /\ pc'[r] = where
  BY <1>0, <1>3 DEF TypeOK
<1> HIDE DEF run, head
<1>8. /\ \A s, t \in Route : request[s].placed \cap Slots(request[t].run) = {}
      /\ \A s \in Route : request[s].placed # {} => request[s].cursor \in request[s].placed
      /\ \A s \in Route \ {r} : Slots(run) \cap Slots(request[s].run) = {}
  BY <1>0 DEF InOrder, PlacedApart, AllApart, RunsApart, run
<1>9. ASSUME NEW s \in Route, NEW t \in Route
      PROVE  request'[s].placed \cap Slots(request'[t].run) = {}
  <2>1. Slots(request'[t].run) \subseteq Slots(request[t].run)
    <3>1. Slots(<<>>) = {}
      BY DEF Slots
    <3> QED BY <1>1, <1>2, <1>4, <1>6, <1>7, <3>1 DEF run
  <2>2. CASE s # r
    BY <1>6, <1>8, <2>1, <2>2
  <2>3. CASE s = r /\ t # r
    BY <1>1, <1>2, <1>4, <1>6, <1>7, <1>8, <2>3
  <2>4. CASE s = r /\ t = r
    BY <1>1, <1>2, <1>4, <1>7, <1>8, <2>4 DEF run
  <2> QED BY <2>2, <2>3, <2>4
<1>10. ASSUME NEW s \in Route PROVE request'[s].placed # {} => request'[s].cursor \in request'[s].placed
  BY <1>1, <1>2, <1>5, <1>6, <1>7, <1>8
<1>11. PlacedApart'
  BY <1>9, <1>10 DEF PlacedApart
<1> QED BY <1>2, <1>6, <1>7, <1>11 DEF run, head

\* A commit keeps every run in order, its own and the others'.
LEMMA InOrderLeave ==
    ASSUME InOrder, KeptInv', NoStationUnderAnAdd, NEW r \in Route, Leave(r)
    PROVE  InOrder'
<1> DEFINE run == request[r].run
<1>0. /\ AllApart /\ Sound /\ TypeOK /\ WorkLeft /\ LockDiscipline /\ request[r] \in RequestType
      /\ run \in Seq(Item) /\ Distinct(run) /\ Slots(run) \cap Slots(queue) = {}
      /\ queue \in Seq(Item) /\ Distinct(queue) /\ generation \in Nat
      /\ request[r].position \in {"next", "end"}
  <2>1. AllApart /\ Sound /\ TypeOK /\ WorkLeft /\ LockDiscipline
    BY DEF InOrder, KeptInv, AllApart, Sound
  <2>2. request[r] \in RequestType /\ queue \in Seq(Item) /\ generation \in 0..MaxGen
    BY <2>1 DEF TypeOK
  <2>3. run \in Seq(Item) /\ request[r].position \in {"next", "end"}
    BY <2>2 DEF RequestType
  <2>4. generation \in Nat
    BY <2>2, ConstantsAssumption
  <2>5. Distinct(run) /\ Slots(run) \cap Slots(queue) = {} /\ Distinct(queue)
    BY <2>1 DEF AllApart, RunsApart, SlotsAreDistinct
  <2> QED BY <2>1, <2>2, <2>3, <2>4, <2>5
<1>a. NoRequest.run = <<>> /\ NoRequest.placed = {} /\ NoRequest.position = "end" /\ Slots(<<>>) = {}
  BY DEF NoRequest, NewRequest, Slots
<1>1. ASSUME request'[r] = NoRequest, pc'[r] = "idle", UNCHANGED <<queue, generation>>,
             \A s \in Route \ {r} : request'[s] = request[s] /\ pc'[s] = pc[s]
      PROVE  InOrder'
  <2>1. KindHolds(r)' /\ AnchorHolds(r)'
    BY <1>1, <1>a DEF KindHolds, AnchorHolds
  <2> QED BY <1>1, <1>a, <2>1, QuietOrder
<1>2. CASE AbandonReplace(r) \/ RefuseAdd(r) \/ AbandonRadio(r)
  <2>1. /\ UNCHANGED <<queue, generation>> /\ pc'[r] = "idle" /\ request'[r] = NoRequest
        /\ \A s \in Route \ {r} : request'[s] = request[s] /\ pc'[s] = pc[s]
    BY <1>0, <1>2 DEF AbandonReplace, RefuseAdd, AbandonRadio, Drop, Go, TypeOK
  <2> QED BY <1>1, <2>1
<1>3. CASE AbandonEdit(r)
  <2>1. /\ UNCHANGED <<queue, generation, request>> /\ pc'[r] = "idle"
        /\ \A s \in Route \ {r} : pc'[s] = pc[s]
    BY <1>0, <1>3 DEF AbandonEdit, CloseSheet, Go, TypeOK
  <2>2. KindHolds(r)' /\ AnchorHolds(r)' /\ ~OfThisQueue(r)'
    BY <2>1 DEF InOrder, KindHolds, AnchorHolds, OfThisQueue
  <2> QED BY <2>1, <2>2, QuietOrder
<1>4. CASE ReadGeneration(r) \/ RadioNotCleared(r)
  <2> DEFINE read == [request[r] EXCEPT !.guard = generation]
  <2>1. /\ read.run = run /\ read.placed = request[r].placed /\ read.cursor = request[r].cursor
        /\ read.position = request[r].position /\ read.kind = request[r].kind
    BY <1>0 DEF RequestType
  <2>2. /\ request' = [request EXCEPT ![r] = read] /\ pc' = [pc EXCEPT ![r] = "fill"]
        /\ UNCHANGED <<queue, generation>> /\ pc[r] \in {"numbering", "clearing"}
    BY <1>4 DEF ReadGeneration, RadioNotCleared, Go
  <2> HIDE DEF read
  <2>3. /\ request'[r] = read /\ pc'[r] = "fill"
        /\ \A s \in Route \ {r} : request'[s] = request[s] /\ pc'[s] = pc[s]
    BY <1>0, <2>2 DEF TypeOK
  <2>4. KindHolds(r)' /\ AnchorHolds(r)' /\ (OfThisQueue(r) \/ request[r].placed = {})
    BY <2>1, <2>2, <2>3 DEF InOrder, KindHolds, AnchorHolds, OfThisQueue
  <2> QED BY <2>1, <2>2, <2>3, <2>4, QuietOrder
<1>5. ASSUME pc[r] = "appending", Skip(r), UNCHANGED <<queue, generation>>
      PROVE  InOrder'
  <2> DEFINE left == [request[r] EXCEPT !.run = Rest(run, 1), !.tries = 0]
  <2>1. /\ left.run = Rest(run, 1) /\ left.placed = request[r].placed /\ left.cursor = request[r].cursor
        /\ left.position = request[r].position /\ left.kind = request[r].kind
    BY <1>0 DEF RequestType
  <2>2. \/ pc' = [pc EXCEPT ![r] = "idle"] /\ request' = [request EXCEPT ![r] = NoRequest]
        \/ pc' = [pc EXCEPT ![r] = "fill"] /\ request' = [request EXCEPT ![r] = left]
    BY <1>5 DEF Skip, Drop, Go
  <2> HIDE DEF left
  <2>3. /\ \/ request'[r] = NoRequest /\ pc'[r] = "idle"
           \/ request'[r] = left /\ pc'[r] = "fill"
        /\ \A s \in Route \ {r} : request'[s] = request[s] /\ pc'[s] = pc[s]
    BY <1>0, <2>2 DEF TypeOK
  <2>4. OfThisQueue(r)
    BY <1>5 DEF InOrder, KeptInv, NoFillerAhead, OfThisQueue
  <2>5. Slots(Rest(run, 1)) \subseteq Slots(run)
    <3>1. 1 \in 1..Len(run)
      BY <1>0, <1>5 DEF WorkLeft, Bringing
    <3> QED BY <1>0, <3>1, PartsOfRun
  <2>6. CASE request'[r] = left /\ pc'[r] = "fill"
    <3>1. KindHolds(r)' /\ AnchorHolds(r)'
      BY <2>1, <2>6 DEF InOrder, KindHolds, AnchorHolds
    <3> QED BY <1>5, <2>1, <2>3, <2>4, <2>5, <2>6, <3>1, QuietOrder
  <2> QED BY <1>1, <1>5, <2>3, <2>6
<1>6. CASE RefuseFill(r)
  BY <1>5, <1>6 DEF RefuseFill
<1>7. CASE DropFill(r)
  <2>1. CASE OnceMore(Offered(request[r].tries))
    <3> DEFINE again == [request[r] EXCEPT !.tries = Offered(@)]
    <3>1. /\ again.run = run /\ again.placed = request[r].placed /\ again.cursor = request[r].cursor
          /\ again.position = request[r].position /\ again.kind = request[r].kind
      BY <1>0 DEF RequestType
    <3>2. /\ request' = [request EXCEPT ![r] = again] /\ pc[r] = "appending"
          /\ pc' = [pc EXCEPT ![r] = "fill"] /\ UNCHANGED <<queue, generation>>
      BY <1>7, <2>1 DEF DropFill, Go
    <3> HIDE DEF again
    <3>3. /\ request'[r] = again /\ pc'[r] = "fill"
          /\ \A s \in Route \ {r} : request'[s] = request[s] /\ pc'[s] = pc[s]
      BY <1>0, <3>2 DEF TypeOK
    <3>4. OfThisQueue(r)
      BY <3>2 DEF InOrder, KeptInv, NoFillerAhead, OfThisQueue
    <3>5. KindHolds(r)' /\ AnchorHolds(r)'
      BY <3>1, <3>3 DEF InOrder, KindHolds, AnchorHolds
    <3> QED BY <3>1, <3>2, <3>3, <3>4, <3>5, QuietOrder
  <2>2. CASE ~OnceMore(Offered(request[r].tries))
    BY <1>5, <1>7, <2>2 DEF DropFill
  <2> QED BY <2>1, <2>2
\* From here on the queue changes; nobody else stands in a mutation.
<1>b. ASSUME Release(r) PROVE \A s \in Route \ {r} : pc[s] \notin Locked
  BY <1>0, <1>b DEF Release, LockDiscipline
<1>8. ASSUME Release(r), PlacedApart', KindHolds(r)', LastIsCursor(r)', pc'[r] # "appending",
             \A s \in Route \ {r} :
               /\ pc'[s] = pc[s] /\ request'[s].position = request[s].position /\ request'[s].kind = request[s].kind
               /\ request'[s].placed \in {request[s].placed, {}}
               /\ LastIsCursor(s)'
      PROVE  InOrder'
  <2>1. ASSUME NEW s \in Route PROVE KindHolds(s)' /\ LastIsCursor(s)' /\ AnchorHolds(s)'
    <3>1. CASE s = r
      BY <1>8, <3>1 DEF AnchorHolds
    <3>2. CASE s # r
      BY <1>8, <1>b, <3>2 DEF InOrder, KindHolds, AnchorHolds, Locked
    <3> QED BY <3>1, <3>2
  <2> QED BY <1>8, <2>1 DEF InOrder
<1>9. ASSUME NEW n \in 1..Len(run), CommitReplace(r, n)
      PROVE  InOrder'
  <2>1. /\ pc[r] = "replacing" /\ Release(r) /\ queue' = SubSeq(run, 1, n) /\ generation' = generation + 1
        /\ \E where \in {"fill", "numbering"} : Advance(r, n, where)
    BY <1>9 DEF CommitReplace
  <2>2. /\ PlacedApart'
        /\ \A s \in Route \ {r} : request'[s] = request[s] /\ pc'[s] = pc[s]
        /\ pc'[r] \in {"idle", "fill", "numbering"}
        /\ request'[r].position = "end"
    BY <1>a, <2>1, AdvancePlaces DEF InOrder, KindHolds
  <2>3. KindHolds(r)' /\ LastIsCursor(r)'
    BY <2>2 DEF KindHolds, LastIsCursor
  <2>4. Slots(queue') \subseteq Slots(run)
    BY <1>0, <2>1, RunCut
  <2>5. \A s \in Route \ {r} : request[s].placed \cap Slots(queue') = {}
    BY <2>4 DEF InOrder, PlacedApart
  <2>6. \A s \in Route \ {r} : LastIsCursor(s)'
    BY <2>2, <2>5 DEF LastIsCursor
  <2> QED BY <1>8, <2>1, <2>2, <2>3, <2>6
<1>10. ASSUME NEW slot \in 0..Len(queue), CommitRadio(r, slot)
       PROVE  InOrder'
  <2> DEFINE read == [request[r] EXCEPT !.guard = generation + 1]
  <2>1. /\ read.run = run /\ read.placed = request[r].placed /\ read.cursor = request[r].cursor
        /\ read.position = request[r].position /\ read.kind = request[r].kind
    BY <1>0 DEF RequestType
  <2>2. /\ request' = [request EXCEPT ![r] = read] /\ pc' = [pc EXCEPT ![r] = "fill"] /\ Release(r)
        /\ pc[r] = "clearing" /\ generation' = generation + 1
    BY <1>10 DEF CommitRadio, Go
  <2> HIDE DEF read
  <2>3. /\ request'[r] = read /\ pc'[r] = "fill"
        /\ \A s \in Route \ {r} : request'[s] = request[s] /\ pc'[s] = pc[s]
    BY <1>0, <2>2 DEF TypeOK
  <2>4. request[r].position = "end" /\ request[r].placed = {} /\ "add" \notin Kinds
    BY <2>2 DEF InOrder, KindHolds, NoStationUnderAnAdd
  <2>5. KindHolds(r)' /\ LastIsCursor(r)'
    BY <2>1, <2>3, <2>4 DEF KindHolds, LastIsCursor
  <2>6. PlacedApart'
    BY <2>1, <2>3 DEF InOrder, PlacedApart
  <2>7. ASSUME NEW s \in Route \ {r} PROVE LastIsCursor(s)'
    <3>1. request[s].guard \in Nat /\ (pc[s] \in {"fill", "appending"} => request[s].guard <= generation)
      BY <1>0, ConstantsAssumption DEF TypeOK, RequestType, InOrder, KeptInv, NoFillerAhead
    <3>2. ~(pc[s] = "numbering" /\ request[s].position = "next")
      BY <2>4 DEF InOrder, KindHolds
    <3> QED BY <1>0, <2>2, <2>3, <3>1, <3>2 DEF LastIsCursor, OfThisQueue
  <2> QED BY <1>8, <2>2, <2>3, <2>5, <2>6, <2>7
<1>11. ASSUME NEW new, Slots(queue') = Slots(queue) \cup new, new \subseteq Slots(run), UNCHANGED generation,
              \A s \in Route \ {r} : request'[s] = request[s] /\ pc'[s] = pc[s],
              \A y, z \in Slots(queue) : IndexOf(queue, y) <= IndexOf(queue, z)
                => IndexOf(queue', y) <= IndexOf(queue', z)
       PROVE  \A s \in Route \ {r} : LastIsCursor(s)'
  <2> SUFFICES ASSUME NEW s \in Route \ {r}, OfThisQueue(s), request[s].position = "next",
                      NEW y \in request[s].placed \cap Slots(queue')
               PROVE  /\ request[s].cursor \in Slots(queue')
                      /\ IndexOf(queue', y) <= IndexOf(queue', request[s].cursor)
    BY <1>11 DEF LastIsCursor, OfThisQueue
  <2>1. y \in Slots(queue)
    BY <1>11 DEF InOrder, PlacedApart
  <2>2. request[s].cursor \in Slots(queue) /\ IndexOf(queue, y) <= IndexOf(queue, request[s].cursor)
    BY <2>1 DEF InOrder, LastIsCursor
  <2> QED BY <1>11, <2>1, <2>2
<1>12. ASSUME NEW n \in 1..Len(run), NEW behind \in request[r].at..Len(queue), CommitAdd(r, n, behind)
       PROVE  InOrder'
  <2> DEFINE new == SubSeq(run, 1, n)
  <2>1. /\ pc[r] = "adding" /\ Release(r) /\ Insert(r, n, behind) /\ UNCHANGED generation
        /\ Advance(r, n, "numbering")
    BY <1>12 DEF CommitAdd
  <2>2. PICK place \in 0..Len(queue) : queue' = InsertAfter(queue, place, new)
    BY <1>0, <2>1, InsertApart
  <2>3. /\ new \in Seq(Item) /\ Distinct(new) /\ Slots(new) \subseteq Slots(run) /\ Len(new) = n
        /\ new[n] = run[n]
    <3>1. \A i \in 1..n : run[i] \in Item
      BY <1>0
    <3>2. Len(new) = n /\ new[n] = run[n]
      BY <3>1, SubSeqProperties
    <3> QED BY <1>0, <3>2, RunCut
  <2> HIDE DEF new
  <2>4. Slots(queue) \cap Slots(new) = {}
    BY <1>0, <2>3
  <2>5. /\ \A y, z \in Slots(queue) : IndexOf(queue, y) <= IndexOf(queue, z) =>
             IndexOf(queue', y) <= IndexOf(queue', z)
        /\ \A i \in 1..Len(new) : IndexOf(queue', new[i]) = place + i
    <3>1. /\ queue \in Seq(Item) /\ new \in Seq(Item) /\ Distinct(queue) /\ Distinct(new)
          /\ Slots(queue) \cap Slots(new) = {}
      BY <1>0, <2>3, <2>4
    <3>2. /\ \A y, z \in Slots(queue) : IndexOf(queue, y) <= IndexOf(queue, z) =>
               IndexOf(InsertAfter(queue, place, new), y) <= IndexOf(InsertAfter(queue, place, new), z)
          /\ \A i \in 1..Len(new) : IndexOf(InsertAfter(queue, place, new), new[i]) = place + i
      BY <3>1, InsertKeepsOrder
    <3> QED BY <2>2, <3>2
  <2>6. Slots(queue') = Slots(queue) \cup Slots(new)
    <3>1. queue \in Seq(Item) /\ new \in Seq(Item)
      BY <1>0, <2>3
    <3>2. Slots(InsertAfter(queue, place, new)) = Slots(queue) \cup Slots(new)
      BY <3>1, InsertedExactly
    <3> QED BY <2>2, <3>2
  <2>7. /\ PlacedApart'
        /\ \A s \in Route \ {r} : request'[s] = request[s] /\ pc'[s] = pc[s]
        /\ \/ request'[r] = NoRequest /\ pc'[r] = "idle"
           \/ /\ pc'[r] = "numbering" /\ request'[r].cursor = run[n]
              /\ request'[r].placed = Slots(new)
              /\ request'[r].position = request[r].position /\ request'[r].kind = request[r].kind
    <3>1. request[r].placed = {}
      BY <2>1 DEF InOrder, KindHolds
    <3>2. /\ PlacedApart'
          /\ \A s \in Route \ {r} : request'[s] = request[s] /\ pc'[s] = pc[s]
          /\ \/ request'[r] = NoRequest /\ pc'[r] = "idle"
             \/ /\ pc'[r] = "numbering" /\ request'[r].cursor = run[n]
                /\ request'[r].placed = request[r].placed \cup Slots(SubSeq(run, 1, n))
                /\ request'[r].position = request[r].position /\ request'[r].kind = request[r].kind
      BY <2>1, AdvancePlaces
    <3> QED BY <3>1, <3>2 DEF new
  <2>8. KindHolds(r)'
    BY <1>a, <2>1, <2>7 DEF InOrder, KindHolds
  <2>9. LastIsCursor(r)'
    <3>1. ASSUME NEW y \in Slots(new) PROVE IndexOf(queue', y) <= IndexOf(queue', run[n])
      <4>1. PICK i \in 1..Len(new) : new[i] = y
        BY DEF Slots
      <4>2. IndexOf(queue', y) = place + i /\ IndexOf(queue', run[n]) = place + n
        BY <2>3, <2>5, <4>1
      <4> QED BY <2>3, <4>2
    <3>2. run[n] \in Slots(queue')
      <4>1. n \in 1..Len(new)
        BY <1>0, <2>3
      <4>2. new[n] \in Slots(new)
        BY <4>1 DEF Slots
      <4> QED BY <2>3, <2>6, <4>2
    <3> QED BY <1>a, <2>7, <3>1, <3>2 DEF LastIsCursor
  <2>10. \A s \in Route \ {r} : LastIsCursor(s)'
    BY <1>11, <2>1, <2>3, <2>5, <2>6, <2>7
  <2> QED BY <1>8, <2>1, <2>7, <2>8, <2>9, <2>10
<1>13. ASSUME NEW behind \in request[r].at..Len(queue), CommitFill(r, behind)
       PROVE  InOrder'
  <2>1. pc[r] = "appending" /\ Release(r) /\ UNCHANGED generation /\ Advance(r, 1, "fill") /\ 1 \in 1..Len(run)
    BY <1>0, <1>13 DEF CommitFill, WorkLeft, Bringing
  <2>2. /\ Slots(queue') = Slots(queue) \cup {run[1]} /\ {run[1]} \subseteq Slots(run)
        /\ \A y \in request[r].placed \cap Slots(queue') : IndexOf(queue', y) < IndexOf(queue', run[1])
        /\ \A y, z \in Slots(queue) : IndexOf(queue, y) <= IndexOf(queue, z)
             => IndexOf(queue', y) <= IndexOf(queue', z)
    BY <1>13, FillLandsBehind
  <2>3. Slots(SubSeq(run, 1, 1)) = {run[1]}
    <3>1. \A i \in 1..1 : run[i] \in Item
      BY <1>0, <2>1
    <3>2. Len(SubSeq(run, 1, 1)) = 1 /\ SubSeq(run, 1, 1)[1] = run[1]
      BY <3>1, SubSeqProperties
    <3> QED BY <3>2 DEF Slots
  <2>4. /\ PlacedApart'
        /\ \A s \in Route \ {r} : request'[s] = request[s] /\ pc'[s] = pc[s]
        /\ \/ request'[r] = NoRequest /\ pc'[r] = "idle"
           \/ /\ pc'[r] = "fill" /\ request'[r].cursor = run[1]
              /\ request'[r].placed = request[r].placed \cup {run[1]}
              /\ request'[r].position = request[r].position /\ request'[r].kind = request[r].kind
    BY <2>1, <2>3, AdvancePlaces
  <2>5. KindHolds(r)'
    BY <1>a, <2>1, <2>4 DEF InOrder, KindHolds
  <2>6. LastIsCursor(r)'
    <3>1. run[1] \in Slots(queue')
      BY <2>2
    <3>2. IndexOf(queue', run[1]) \in Int
      <4>1. queue' \in Seq(Item)
        BY DEF KeptInv, AllApart, Sound, TypeOK
      <4> QED BY <4>1, PlaceOfItem
    <3>3. \A y \in request[r].placed \cap Slots(queue') : IndexOf(queue', y) \in Int
      <4>1. queue' \in Seq(Item)
        BY DEF KeptInv, AllApart, Sound, TypeOK
      <4> QED BY <4>1, PlaceOfItem
    <3> QED BY <1>a, <2>2, <2>4, <3>1, <3>2, <3>3 DEF LastIsCursor
  <2>7. \A s \in Route \ {r} : LastIsCursor(s)'
    BY <1>11, <2>1, <2>2, <2>4
  <2> QED BY <1>8, <2>1, <2>4, <2>5, <2>6, <2>7
<1>14. ASSUME NEW gone, Forfeit(gone), NEW s \in Route
       PROVE  /\ request'[s].run = request[s].run /\ request'[s].kind = request[s].kind
              /\ request'[s].position = request[s].position /\ request'[s].cursor = request[s].cursor
              /\ request'[s].guard = request[s].guard
              /\ request'[s].placed = IF request[s].cursor \in gone THEN {} ELSE request[s].placed
  BY <1>0, <1>14 DEF Forfeit, TypeOK, RequestType
<1>15. ASSUME NEW gone, Forfeit(gone), CloseSheet(r)
       PROVE  /\ PlacedApart' /\ KindHolds(r)' /\ LastIsCursor(r)' /\ pc'[r] = "idle"
              /\ \A s \in Route \ {r} : pc'[s] = pc[s]
  <2>1. pc'[r] = "idle" /\ \A s \in Route \ {r} : pc'[s] = pc[s]
    BY <1>0, <1>15 DEF CloseSheet, Go, TypeOK
  <2>2. PlacedApart'
    BY <1>14, <1>15 DEF InOrder, PlacedApart
  <2>3. KindHolds(r)' /\ LastIsCursor(r)'
    BY <1>14, <1>15, <2>1 DEF InOrder, KindHolds, LastIsCursor, OfThisQueue
  <2> QED BY <2>1, <2>2, <2>3
<1>16. CASE CommitRemove(r)
  <2> DEFINE gone == queue[plan[r].at]
  <2>1. /\ Release(r) /\ queue' = WithoutSlot(queue, plan[r].at) /\ plan[r].at \in 1..Len(queue)
        /\ Forfeit({gone}) /\ CloseSheet(r) /\ UNCHANGED generation
    BY <1>0, <1>16 DEF CommitRemove, Sound, PlaceKept
  <2>2. Slots(queue') = Slots(queue) \ {gone}
    BY <1>0, <2>1, RemovedExactly
  <2>3. ASSUME NEW y \in Slots(queue'), NEW z \in Slots(queue'), IndexOf(queue, y) <= IndexOf(queue, z)
        PROVE  IndexOf(queue', y) <= IndexOf(queue', z)
    BY <1>0, <2>1, <2>3, RemoveKeepsOrder
  <2> HIDE DEF gone
  <2>4. PlacedApart' /\ KindHolds(r)' /\ LastIsCursor(r)' /\ pc'[r] = "idle" /\ \A s \in Route \ {r} : pc'[s] = pc[s]
    BY <1>15, <2>1
  <2>5. ASSUME NEW s \in Route \ {r} PROVE LastIsCursor(s)'
    <3> SUFFICES ASSUME OfThisQueue(s), request[s].position = "next", request[s].cursor # gone,
                        NEW y \in request[s].placed \cap Slots(queue')
                 PROVE  /\ request[s].cursor \in Slots(queue')
                        /\ IndexOf(queue', y) <= IndexOf(queue', request[s].cursor)
      BY <1>14, <2>1, <2>4 DEF LastIsCursor, OfThisQueue
    <3>1. request[s].cursor \in Slots(queue) /\ IndexOf(queue, y) <= IndexOf(queue, request[s].cursor)
      BY <2>2 DEF InOrder, LastIsCursor
    <3> QED BY <2>2, <2>3, <3>1
  <2> QED BY <1>8, <1>14, <2>1, <2>4, <2>5
<1>17. CASE CommitReorder(r)
  <2>1. Release(r) /\ Forfeit(Item) /\ CloseSheet(r) /\ UNCHANGED generation
    BY <1>17 DEF CommitReorder
  <2>2. PlacedApart' /\ KindHolds(r)' /\ LastIsCursor(r)' /\ pc'[r] = "idle" /\ \A s \in Route \ {r} : pc'[s] = pc[s]
    BY <1>15, <2>1
  <2>3. ASSUME NEW s \in Route PROVE request'[s].placed = {}
    <3>1. request[s].placed \subseteq Item
      BY <1>0 DEF TypeOK, RequestType
    <3> QED BY <1>14, <2>1, <3>1 DEF InOrder, PlacedApart
  <2>4. \A s \in Route \ {r} : LastIsCursor(s)'
    BY <2>3 DEF LastIsCursor
  <2> QED BY <1>8, <1>14, <2>1, <2>2, <2>3, <2>4
<1> QED BY <1>2, <1>3, <1>4, <1>6, <1>7, <1>9, <1>10, <1>12, <1>13, <1>16, <1>17 DEF Leave

\* An item of a run lands behind everything of the run placed before it, as
\* long as no station takes over a queue that a request still reads the
\* generation of: whatever else is put in between, taken away or given up.
THEOREM RunsGoForward ==
    ASSUME NoStationUnderAnAdd
    PROVE  Spec => RunGoesForward
<1> DEFINE Behind(r) ==
      \A x \in (Slots(queue') \ Slots(queue)) \cap Slots(request[r].run),
         y \in request[r].placed \cap Slots(queue') : IndexOf(queue', y) < IndexOf(queue', x)
<1>1. Init => InOrder
  BY InOrderInit
<1>2. InOrder /\ [Next]_vars => InOrder'
  <2> SUFFICES ASSUME InOrder, [Next]_vars PROVE InOrder'
    OBVIOUS
  <2>1. KeptInv'
    BY ApartStep, NoFillerAheadStep DEF InOrder, KeptInv
  <2>2. CASE SwitchOutput \/ UNCHANGED vars
    <3>1. UNCHANGED <<queue, generation, pc, request>>
      BY <2>2 DEF SwitchOutput, vars
    <3> QED BY <2>1, <3>1 DEF InOrder, PlacedApart, KindHolds, LastIsCursor, AnchorHolds, OfThisQueue
  <2> QED BY <2>1, <2>2, InOrderAsks, InOrderEnter, InOrderLeave, NoStationUnderAnAdd DEF Next
<1>3. InOrder /\ [Next]_vars => \A r \in Route : Behind(r)
  <2> SUFFICES ASSUME InOrder, [Next]_vars, NEW r \in Route,
                      NEW x \in (Slots(queue') \ Slots(queue)) \cap Slots(request[r].run),
                      NEW y \in request[r].placed \cap Slots(queue')
               PROVE  IndexOf(queue', y) < IndexOf(queue', x)
    OBVIOUS
  <2>0. /\ AllApart /\ Sound /\ TypeOK
        /\ queue \in Seq(Item) /\ \A s \in Route : request[s].run \in Seq(Item) /\ Distinct(request[s].run)
    BY DEF InOrder, KeptInv, AllApart, Sound, TypeOK, RequestType, RunsApart
  <2>1. queue' # queue
    OBVIOUS
  <2>2. PICK s \in Route : Leave(s)
    BY <2>1 DEF Next, SwitchOutput, vars, Asks, Ask, PlanRemove, PlanReorder, Enter, NoOutput, BeginReplace,
                BeginRadio, BeginAppend, StopFilling, BeginRemove, MovedUnder, BeginReorder, PlanOvertaken
  <2>3. ASSUME Slots(queue') \subseteq Slots(queue) \cup Slots(request[s].run) PROVE s = r
    BY <2>0, <2>3 DEF AllApart, RunsApart
  <2>4. ASSUME NEW n \in 1..Len(request[s].run), CommitReplace(s, n) PROVE FALSE
    <3>1. Slots(queue') \subseteq Slots(request[s].run)
      BY <2>0, <2>4, RunCut DEF CommitReplace
    <3> QED BY <2>3, <2>4, <3>1 DEF CommitReplace, InOrder, KindHolds
  <2>5. ASSUME NEW n \in 1..Len(request[s].run), NEW behind \in request[s].at..Len(queue), CommitAdd(s, n, behind)
        PROVE  FALSE
    <3>1. Slots(queue') = Slots(queue) \cup Slots(SubSeq(request[s].run, 1, n))
      BY <2>0, <2>5, InsertApart DEF CommitAdd
    <3>2. Slots(SubSeq(request[s].run, 1, n)) \subseteq Slots(request[s].run)
      BY <2>0, RunCut
    <3> QED BY <2>3, <2>5, <3>1, <3>2 DEF CommitAdd, InOrder, KindHolds
  <2>6. ASSUME NEW behind \in request[s].at..Len(queue), CommitFill(s, behind)
        PROVE  IndexOf(queue', y) < IndexOf(queue', x)
    <3>1. /\ Slots(queue') = Slots(queue) \cup {request[s].run[1]} /\ request[s].run[1] \in Slots(request[s].run)
          /\ \A z \in request[s].placed \cap Slots(queue') : IndexOf(queue', z) < IndexOf(queue', request[s].run[1])
      BY <2>6, FillLandsBehind
    <3> QED BY <2>3, <3>1
  <2>7. ASSUME NEW slot, CommitRadio(s, slot) PROVE FALSE
    <3>1. Slots(queue') \subseteq Slots(queue)
      BY <2>0, <2>7, KeptSlots DEF CommitRadio
    <3> QED BY <3>1
  <2>8. ASSUME CommitRemove(s) PROVE FALSE
    <3>1. Slots(queue') \subseteq Slots(queue)
      BY <2>0, <2>8, RemainingSlots DEF CommitRemove, Sound, PlaceKept
    <3> QED BY <3>1
  <2>9. ASSUME CommitReorder(s) PROVE FALSE
    <3>1. Slots(queue') = Slots(queue)
      BY <2>0, <2>9 DEF CommitReorder, Sound, SheetKept
    <3> QED BY <3>1
  <2> QED BY <2>1, <2>2, <2>4, <2>5, <2>6, <2>7, <2>8, <2>9
          DEF Leave, AbandonReplace, ReadGeneration, RefuseAdd, RefuseFill, DropFill, RadioNotCleared,
              AbandonRadio, AbandonEdit
<1>4. Spec => [][\A r \in Route : Behind(r)]_vars
  BY <1>1, <1>2, <1>3, PTL DEF Spec
<1> QED BY <1>4 DEF RunGoesForward
=============================================================================
